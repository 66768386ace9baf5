-------------------------------- MODULE MCPipe --------------------------------
EXTENDS Pipe

\* Headrooms that fill a buffer of BufferSize, and leave room in a larger one.
MCOptions == {o \in OptionsUpTo(1) : o.front = 1 /\ o.rear = 1 /\ o.mtu = 0}
=============================================================================
