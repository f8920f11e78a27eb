-------------------------- MODULE MCBonfireServer --------------------------
(***************************************************************************)
(* Small instances of BonfireServer: names of a few letters, two or three  *)
(* connections, clear and dirty memory.                                    *)
(***************************************************************************)
EXTENDS BonfireRooms, JoinLoop, TLC

MCLetters  == {"a", "b", "c", "g", "h"}
A == <<"a">>
B == <<"b">>
G == <<"g">>
H == <<"h">>
NoNames == {}

OneUser  == {A}
TwoUsers == {A, B}
ThreeUsers == {A, B, <<"c">>}
OneRoom  == {G}
TwoRooms == {G, H}
SecondRoom == {H}
FriendAndPair == {B, A \o B}
RoomsAndFriends == {G, A, B}
\* Users a, bc and ab: "abc" is the channel of a and bc, and what ab typing c means.
BC == <<"b", "c">>
CollidingUsers == {A, BC, A \o B}
CollidingNames == {<<"c">>, A \o A \o B}

ZeroedHeap == {{}}
DirtyHeap  == {{}, {0}}

Symmetry == Permutations(Clients)
=============================================================================
