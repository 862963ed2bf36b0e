---------------------------- MODULE MCConfigStream ----------------------------
EXTENDS ConfigStream

MCSubmission == { [author |-> [principal |-> "alice", role |-> "ops"], parent |-> None,
                   ttl_seconds |-> None, scope |-> [kind |-> "Global", id |-> None],
                   state_delta |-> {}] }
MCByteLen == [d \in OverlayData |-> 0]
MCHash == [d \in OverlayData |-> 0]
===============================================================================
