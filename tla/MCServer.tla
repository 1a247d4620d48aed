------------------------------ MODULE MCServer ------------------------------
(***************************************************************************)
(* Server with two connections, two chats and one other channel.  PHP      *)
(* hands out three logins: the visitor of the first chat, a tracked visitor *)
(* and an operator; the second chat is somebody else's.                    *)
(***************************************************************************)
EXTENDS Server, TLC
CONSTANTS s1, s2, chat1, chat2, uo

MCSockets  == {s1, s2}
MCChats    == {chat1, chat2}
MCOneChat  == {chat1}
MCOthers   == {uo}
Login1     == [chan |-> chat1, visitor |-> TRUE]
LoginOus   == [chan |-> uo, visitor |-> TRUE]
LoginAdmin == [chan |-> uo, visitor |-> FALSE]

MCCredentials == {Login1, LoginOus, LoginAdmin}
MCVisitors    == {Login1, LoginOus}

MCSymmetry == Permutations(MCSockets)
===========================================================================
