------------------------------ MODULE MCParts -------------------------------
(***************************************************************************)
(* The parts of the client bundle (socketcluster.js), and the worker of    *)
(* the Node server, one at a time: the emit buffer's list, the client with *)
(* any page, base 64, UTF-8, the event emitter, or the worker.  They do    *)
(* not share state; the variables of the other parts stay as they are.     *)
(***************************************************************************)
EXTENDS SCClient, EmitBuffer

CONSTANTS
    Octets, MaxBytes, MaxChunk,
    Units, Received, MaxLen, MaxArguments,
    Fns, Wrappers, Plain, MaxListeners, MaxEmits,
    Sockets, Chats, Site, Nothing

VARIABLES
    part,       \* the part that runs
    sent,
    loop, text, at, lead, room, bytes, res, length,
    callbacks, emits, spent,
    kind, connected, stored, authToken, subs, told, shown, stray

\* A chat is no site; no chat and no token is written as Nothing.
ASSUME PartsAssumption ==
    /\ Site \notin Chats /\ Nothing \notin Chats
    /\ Nothing \notin [kind : {"chat", "site", "operator"}, chanelNameChat : Chats \cup {Nothing}]

\* What utf8ToBytes takes are UTF-16 units, and what utf8Slice takes are bytes.
ASSUME TextAssumption ==
    /\ \A u \in Units : u \in Nat /\ u < 65536
    /\ \A b \in Received : b \in Nat /\ b < 256

B64    == INSTANCE Base64 WITH Bytes <- Octets, bytes <- sent
Text   == INSTANCE Utf8 WITH Bytes <- Received
Events == INSTANCE Emitter
Node   == INSTANCE Worker

textVars  == <<loop, text, at, lead, room, bytes, res, length>>
eventVars == <<callbacks, emits, spent>>
nodeVars  == <<kind, connected, stored, authToken, subs, told, shown, stray>>

\* A part, its initial states, those of the others, and its steps.
PartsInit ==
    /\ part \in {"buffer", "client", "base64", "utf8", "emitter", "worker"}
    /\ ListInit /\ B64!Init /\ Events!Init
    /\ Init /\ (part # "client" => ~ token)
    /\ Text!Init /\ (part # "utf8" => loop = "measure" /\ text = <<>>)
    /\ Node!Init /\ (part # "worker" => \A s \in Sockets : kind[s] = "operator")

PartsNext ==
    /\ UNCHANGED part
    /\ \/ part = "buffer" /\ ListNext
          /\ UNCHANGED <<vars, sent, textVars, eventVars, nodeVars>>
       \/ part = "client" /\ Next
          /\ UNCHANGED <<listVars, sent, textVars, eventVars, nodeVars>>
       \/ part = "base64" /\ B64!Next
          /\ UNCHANGED <<listVars, vars, textVars, eventVars, nodeVars>>
       \/ part = "utf8" /\ Text!Next
          /\ UNCHANGED <<listVars, vars, sent, eventVars, nodeVars>>
       \/ part = "emitter" /\ Events!Next
          /\ UNCHANGED <<listVars, vars, sent, textVars, nodeVars>>
       \/ part = "worker" /\ Node!Next
          /\ UNCHANGED <<listVars, vars, sent, textVars, eventVars>>

partsVars == <<part, listVars, vars, sent, textVars, eventVars, nodeVars>>

PartsSpec == PartsInit /\ [][PartsNext]_partsVars

-----------------------------------------------------------------------------
\* The variables of the emitter and of the worker have their types.
PartsTypeOK == Events!TypeOK /\ Node!TypeOK

\* Base 64 gives back the bytes that were encoded, in all its forms.
SameBytes == B64!SameBytes

\* utf8Slice takes a character by the definition of UTF-8, or replaces a byte.
CharacterByCharacter == Text!CharacterByCharacter

\* A text made into bytes and read again is the same.
SameText == Text!SameText

\* An emission calls whoever listened at its start; a spent once listener is gone.
Served == Events!Served

\* Operators are shown nobody who has gone.
NobodyLeft == Node!NobodyLeft

=============================================================================
