--------------------------- MODULE MCUsbKeyboard ---------------------------
EXTENDS UsbKeyboard

\* One notification is registered for each letter named in its place.
OneWatch == [f \in Fns |-> CHOOSE l \in Letters : TRUE]

=============================================================================
