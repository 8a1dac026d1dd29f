-------------------------------- MODULE SharedSet --------------------------------
(***************************************************************************)
(* What the writers of a file shared by several processes can rely on:     *)
(* every write is one change of the records as they are now.  A writer     *)
(* brings along only those of its own earlier changes that could not be    *)
(* saved.  The one exception is a writer that is blind: when it last       *)
(* looked at the file it could not open it.  It writes what it remembers,  *)
(* with one change, over whatever the others wrote.                        *)
(***************************************************************************)
EXTENDS FiniteSets

CONSTANTS Writers, Ids

VARIABLES
    content,    \* the records, as a set of ids
    remembered, \* per writer: the records it knows
    unsaved,    \* per writer: the records its failed saves were about
    readable,   \* per writer: it can open the file
    blind       \* per writer: it would write without knowing the file

shared == <<content, remembered, unsaved, readable, blind>>

\* The two sets of records agree on all but the ids.
SameBut(ids, old, new) == old \ ids = new \ ids

Init ==
    /\ content \subseteq Ids
    /\ remembered = [w \in Writers |-> content]
    /\ unsaved = [w \in Writers |-> {}]
    /\ readable = [w \in Writers |-> TRUE]
    /\ blind = [w \in Writers |-> FALSE]

\* A change of one record, on top of the changes not saved before.  Every other writer has to look
\* again, so only one that cannot is blind.
Write(w) ==
    /\ content' \subseteq Ids
    /\ \E id \in Ids :
        \/ SameBut(unsaved[w] \union {id}, content, content')
        \/ blind[w] /\ SameBut({id}, remembered[w], content')
    /\ remembered' \in [Writers -> SUBSET Ids] /\ remembered'[w] = content'
    /\ \A v \in Writers : remembered'[v] \in {remembered[v], content'}
    /\ unsaved' = [unsaved EXCEPT ![w] = {}]
    /\ blind' = [v \in Writers |-> ~readable[v]]
    /\ UNCHANGED readable

\* The change stays in the writer's memory, which may have been read again before.
FailToWrite(w) ==
    /\ UNCHANGED <<content, readable>>
    /\ \E id \in Ids :
        \/ /\ unsaved' = [unsaved EXCEPT ![w] = @ \union {id}]
           /\ SameBut({id}, remembered[w], remembered'[w])
        \/ /\ unsaved' = [unsaved EXCEPT ![w] = {id}]
           /\ readable[w] /\ SameBut({id}, content, remembered'[w])
    /\ remembered' \in [Writers -> SUBSET Ids]
    /\ \A v \in Writers \ {w} : remembered'[v] = remembered[v]
    /\ blind' \in {blind, [blind EXCEPT ![w] = FALSE]}

Read(w) ==
    /\ readable[w]
    /\ remembered' = [remembered EXCEPT ![w] = content]
    /\ unsaved' = [unsaved EXCEPT ![w] = {}]
    /\ blind' = [blind EXCEPT ![w] = FALSE]
    /\ UNCHANGED <<content, readable>>

Bar(w) ==
    /\ readable' = [readable EXCEPT ![w] = FALSE]
    /\ blind' = [blind EXCEPT ![w] = TRUE]
    /\ UNCHANGED <<content, remembered, unsaved>>

\* It may have stopped looking.
Free(w) ==
    /\ readable' = [readable EXCEPT ![w] = TRUE]
    /\ blind' \in {blind, [blind EXCEPT ![w] = FALSE]}
    /\ UNCHANGED <<content, remembered, unsaved>>

Next == \E w \in Writers : Write(w) \/ FailToWrite(w) \/ Read(w) \/ Bar(w) \/ Free(w)

Spec == Init /\ [][Next]_shared
=============================================================================
