-------------------------- MODULE MCHciTransports --------------------------
\* A byte has five values, so that an ACL payload of five bytes needs the second
\* length byte, and payload bytes look like type bytes and like lengths.
EXTENDS HciTransports

MCPackets == { [type |-> EVENT,    data |-> <<3, 1, 4>>],
               [type |-> EVENT,    data |-> <<0, 2, 2, 1>>],
               [type |-> ACL_DATA, data |-> <<0, 4, 0, 1, 2, 3, 4, 0, 1>>],
               [type |-> ACL_DATA, data |-> <<1, 2, 1, 0, 4>>],
               [type |-> SCO_DATA, data |-> <<2, 0, 1, 3>>] }

\* The last one is what sendScoData gives either transport.
MCOutPackets == { [type |-> COMMAND,  data |-> <<3, 0, 1, 4>>],
                  [type |-> ACL_DATA, data |-> <<0, 1, 1, 0, 2>>],
                  [type |-> SCO_DATA, data |-> <<0, 0, 0>>] }

=============================================================================
