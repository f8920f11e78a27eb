------------------------------- MODULE JoinLoop -------------------------------
(***************************************************************************)
(* handle_join_channel turn by turn.  BonfireServer says in one formula    *)
(* (JoinBits) what the loop leaves in the bitmaps; here the loop is run as *)
(* it is written, over every channel in order: a channel of that name has  *)
(* the bit set, the bit of the channel the client is in is cleared, which  *)
(* may be the bit just set, and the client is in the channel visited.      *)
(***************************************************************************)
EXTENDS BonfireServer

\* Mutant: the old bit is cleared before the new one is set.
Turn_clears_first(st, k, n, s) ==
    IF channel_name[k] # n THEN st
    ELSE LET left == IF st.active = 0 THEN st.members
                     ELSE [st.members EXCEPT ![st.active] = @ \ {s}]
         IN  [members |-> [left EXCEPT ![k] = @ \cup {s}], active |-> k]
Turn(st, k, n, s) ==
    IF channel_name[k] # n THEN st
    ELSE LET set == [st.members EXCEPT ![k] = @ \cup {s}]
         IN  [members |-> IF st.active = 0 THEN set
                          ELSE [set EXCEPT ![st.active] = @ \ {s}],
              active |-> k]

\* A client in slot s whose active channel is old joins the channels named n.
handle_join_channel(old, n, s) ==
    LET after[k \in 0 .. num_channels] ==
            IF k = 0 THEN [members |-> active_members, active |-> old]
                     ELSE Turn(after[k - 1], k, n, s)
    IN  after[num_channels]

(***************************************************************************)
(* Whatever channels exist, twins of one name among them, whatever bits    *)
(* are set and whichever channel the client is in, the loop leaves what    *)
(* JoinBits says, and the client in the last of the channels it visited:   *)
(* only there is its bit set, and not even there when it was in the only   *)
(* one already (channels.c:37-53).                                         *)
(***************************************************************************)
LoopIsJoinBits ==
    \A n \in {channel_name[k] : k \in 1 .. num_channels}, s \in Slots,
       old \in 0 .. num_channels :
        \E last \in ChannelsNamed(n) :
            /\ IsLast(last, ChannelsNamed(n))
            /\ handle_join_channel(old, n, s) =
                  [members |-> JoinBits(active_members, ChannelsNamed(n), last, old, s),
                   active |-> last]
=============================================================================
