---------------------------- MODULE People_proofs ----------------------------
(***************************************************************************)
(* The types of People, and that no update of people.json is lost, unless  *)
(* the file could not be opened.                                           *)
(*                                                                         *)
(* Basics is the inductive invariant.  To keep the types it has to know    *)
(* what an operation is about wherever it is (Shape), that the ids it      *)
(* names were generated once (IdsUsed) and that the entries of the stack   *)
(* can be undone (StackShape).  The rest is what the later arguments stand *)
(* on: what each store knows of its file while nothing failed unseen and   *)
(* the file can be opened (PeopleStore, PrintsStore), in which order the   *)
(* operations began (Counts), that an undisturbed one still sees the files *)
(* it loaded (StillFresh), and that nobody has heard of a person an        *)
(* operation makes (Unheard).                                              *)
(***************************************************************************)
EXTENDS People, SequenceTheorems, TLAPS

----------------------------------------------------------------------------
(* The ids and the shape of an operation *)

\* Every id anybody knows was generated once.
IdsUsed ==
    /\ pMem \subseteq used /\ pUnsaved \subseteq used /\ foreign \subseteq used
    /\ \A s \in Samples : vDisk[s] \in used \union {Nobody} /\ vMem[s] \in used \union {Nobody}
    /\ ref \in used \union {Nobody}
    /\ op.person \in used \union {Nobody} /\ op.other \in used \union {Nobody}

Triples == (SUBSET Persons) \X Owners \X (Persons \union {Nobody})
Undoable == {"merged", "moved", "sampleRemoved"}

\* What an entry of the undo stack tells.
Entry(e) ==
    /\ e.kind \in Undoable /\ e.base \in Triples
    /\ e.person \in used /\ e.other \in used \union {Nobody}
    /\ e.kind # "sampleRemoved" => e.other \in used
    /\ e.new => e.kind = "moved"

Merging == {"contains", "fold", "foldPrints", "foldRefs"}
Unmerging == {"restoreDrop", "restoreKeep", "refreshPrints", "unfoldPrints", "unfoldRefs"}
Removing == {"anonymous", "keepPrints", "delete", "deletePrints", "deleteRefs", "givePrintsBack"}
Moving == {"make", "move", "moveBack", "unused"}
Sampling == {"removeSample", "addBack"}
Starting == {"people", "prints", "sample"}
Ended == {"done", "undone", "refused"}
OnTheWay == Merging \union Unmerging \union Removing \union Moving \union Sampling \union {"unmake"}

\* What an operation is about, by where it is.
Shape ==
    /\ op.at \in {"idle"} \union Starting \union OnTheWay \union Ended
    /\ op.at \in {"idle", "sample"} => op.kind = "none"
    /\ op.at \in {"people", "prints"} => op.kind = "none" \/ Entry(op)
    /\ op.at \in Merging \union Unmerging => op.kind = "merged"
    /\ op.at \in Removing => op.kind = "removed"
    /\ op.at \in Moving => op.kind = "moved"
    /\ op.at \in Sampling => op.kind = "sampleRemoved"
    /\ op.at = "unmake" => op.kind = "removed" \/ (op.kind = "moved" /\ op.new)
    /\ op.kind = "none" => op.other = Nobody /\ ~op.new
    /\ op.kind # "none" => op.person \in used
    /\ op.kind = "merged" => op.other \in used
    /\ op.at \in {"keepPrints", "givePrintsBack", "unmake", "move", "moveBack", "unused"} => op.other \in used
    /\ op.at \in {"anonymous", "make"} => op.other = Nobody
    /\ op.new => op.kind = "moved"
    /\ op.at # "idle" => op.base \in Triples

StackShape == \A i \in 1 .. Len(undo) : Entry(undo[i])

----------------------------------------------------------------------------
(* The stores *)

PeopleStore ==
    /\ pLoading => op.at = "people"
    /\ ~slip => pReadable /\ pUnsaved = {}
    /\ ~slip /\ pFresh /\ ~pLoading => pMem = pDisk

PrintsStore ==
    /\ vLoading => op.at \in {"prints", "sample"}
    /\ ~slip => vReadable /\ vUnsaved = {}
    /\ ~slip /\ vFresh /\ ~vLoading => vMem = vDisk

Counts ==
    /\ op.count <= others
    /\ \A i \in 1 .. Len(undo) : undo[i].count <= others
    /\ \A i, j \in 1 .. Len(undo) : i < j => undo[i].count <= undo[j].count
    /\ op.at # "idle" => \A i \in 1 .. Len(undo) : undo[i].count <= op.count

\* Undisturbed, an operation sees the files as it loaded them.
StillFresh ==
    Undisturbed =>
        /\ op.at \notin {"idle", "sample"} /\ op.kind # "sampleRemoved" => pFresh
        /\ op.at \notin {"idle", "people"} => vFresh

\* A person that an operation makes is not known to an older entry of the stack.
Made == op.new \/ op.kind = "removed"
Mentions(e, id) == id # Nobody /\ id \in {e.person, e.other}
Unheard ==
    /\ \A i, j \in 1 .. Len(undo) : i < j /\ undo[j].new => ~Mentions(undo[i], undo[j].other)
    /\ Made /\ op.at # "done" => \A i \in 1 .. Len(undo) : ~Mentions(undo[i], op.other)

Basics ==
    /\ TypeOK /\ IdsUsed /\ Shape /\ StackShape
    /\ PeopleStore /\ PrintsStore /\ Counts /\ StillFresh /\ Unheard

----------------------------------------------------------------------------
(* The calls of the stores *)

\* What a call of the people store may be, and a call of the voiceprint store.
PeopleCall ==
    \/ UNCHANGED <<people, mishaps>>
    \/ UNCHANGED people /\ (Fault(TRUE) \/ Fault(FALSE))
    \/ P!Find /\ UNCHANGED mishaps
    \/ \E id \in used' : ChangePeople(P!Current \union {id}, {id}) \/ ChangePeople(P!Current \ {id}, {id})

PrintsCall ==
    \/ UNCHANGED <<prints, mishaps>>
    \/ UNCHANGED prints /\ (Fault(TRUE) \/ Fault(FALSE))
    \/ V!Find /\ UNCHANGED mishaps
    \/ \E ss \in SUBSET Samples, to \in used \union {Nobody} : ChangePrints(Given(V!Current, ss, to), ss)

LEMMA FaultResult ==
  ASSUME TypeOK, NEW unseen \in BOOLEAN, Fault(unseen)
  PROVE  slip' \in BOOLEAN /\ faults' \in 0 .. MaxFaults /\ (slip \/ unseen => slip')
  BY PeopleAssumption DEF TypeOK, Fault

LEMMA GivenOwners ==
  ASSUME NEW owner \in Owners, NEW ss, NEW to \in Persons \union {Nobody}
  PROVE  /\ Given(owner, ss, to) \in Owners
         /\ \A s \in Samples : Given(owner, ss, to)[s] = IF s \in ss THEN to ELSE owner[s]
  BY DEF Given, Owners

\* What holds of people.json and its store after every call.
LEMMA PeopleCallResult ==
  ASSUME Basics, ~pLoading, used \subseteq used', used' \subseteq Persons, PeopleCall
  PROVE  /\ pDisk' \subseteq used' /\ pMem' \subseteq used' /\ pUnsaved' \subseteq used'
         /\ pFresh' \in BOOLEAN /\ pLoading' = FALSE /\ pReadable' = pReadable /\ (pFresh => pFresh')
         /\ slip' \in BOOLEAN /\ faults' \in 0 .. MaxFaults /\ (slip => slip')
         /\ ~slip' /\ pFresh' => pMem' = pDisk'
         /\ ~slip' => pUnsaved' = {}
  <1>1. /\ pDisk \subseteq used' /\ pMem \subseteq used' /\ pUnsaved \subseteq used'
        /\ pFresh \in BOOLEAN /\ pLoading = FALSE /\ pReadable \in BOOLEAN
        /\ slip \in BOOLEAN /\ faults \in 0 .. MaxFaults
        /\ ~slip /\ pFresh => pMem = pDisk
        /\ ~slip => pReadable /\ pUnsaved = {}
    BY DEF Basics, TypeOK, IdsUsed, PeopleStore
  <1>2. CASE UNCHANGED people /\ (UNCHANGED mishaps \/ Fault(TRUE) \/ Fault(FALSE))
    <2>1. slip' \in BOOLEAN /\ faults' \in 0 .. MaxFaults /\ (slip => slip')
      BY <1>1, <1>2, FaultResult DEF Basics, mishaps
    <2>2. UNCHANGED <<pDisk, pMem, pFresh, pLoading, pReadable, pUnsaved>>
      BY <1>2 DEF people
    <2> QED BY <1>1, <2>1, <2>2
  <1>3. /\ P!Current \subseteq used' /\ P!Carried \subseteq used'
        /\ ~slip => P!Carried = {} /\ P!Current = pDisk
    BY <1>1 DEF P!Current, P!Carried, P!Stays
  <1>4. CASE P!Find /\ UNCHANGED mishaps
    <2>1. /\ pMem' = P!Current /\ pUnsaved' = P!Carried /\ pFresh' = TRUE
          /\ pDisk' = pDisk /\ pLoading' = pLoading /\ pReadable' = pReadable
          /\ slip' = slip /\ faults' = faults
      BY <1>4 DEF P!Find, mishaps
    <2>2. ~slip' => pMem' = pDisk' /\ pUnsaved' = {}
      BY <1>3, <2>1
    <2> QED BY <1>1, <1>3, <2>1, <2>2
  <1>5. ASSUME NEW new, NEW ids, ids \subseteq used', new \subseteq used', ChangePeople(new, ids)
        PROVE  /\ pDisk' \subseteq used' /\ pMem' \subseteq used' /\ pUnsaved' \subseteq used'
               /\ pFresh' = TRUE /\ pLoading' = FALSE /\ pReadable' = pReadable
               /\ slip' \in BOOLEAN /\ faults' \in 0 .. MaxFaults /\ (slip => slip')
               /\ ~slip' => pMem' = pDisk'
               /\ ~slip' => pUnsaved' = {}
    <2>1. CASE P!Rewrite(new, ids, TRUE) /\ UNCHANGED mishaps
      <3>1. /\ pMem' = new /\ pDisk' = new /\ pUnsaved' = {} /\ pFresh' = TRUE
            /\ pLoading' = pLoading /\ pReadable' = pReadable
            /\ slip' = slip /\ faults' = faults
        BY <2>1 DEF P!Rewrite, mishaps
      <3>2. {} \subseteq used'
        OBVIOUS
      <3> QED BY <1>1, <1>5, <3>1, <3>2
    <2>2. CASE P!Rewrite(new, ids, FALSE) /\ Fault(TRUE)
      <3>1. pMem' = new /\ pDisk' = pDisk /\ pUnsaved' = P!Carried \union ids /\ pFresh' = TRUE
            /\ pLoading' = pLoading /\ pReadable' = pReadable
        BY <2>2 DEF P!Rewrite
      <3>2. slip' \in BOOLEAN /\ slip' /\ faults' \in 0 .. MaxFaults
        BY <2>2, FaultResult DEF Basics
      <3>3. pMem' \subseteq used' /\ pDisk' \subseteq used' /\ pUnsaved' \subseteq used'
        BY <1>1, <1>3, <1>5, <3>1
      <3> QED BY <1>1, <3>1, <3>2, <3>3
    <2> QED BY <1>5, <2>1, <2>2 DEF ChangePeople
  <1>6. CASE \E id \in used' : ChangePeople(P!Current \union {id}, {id}) \/ ChangePeople(P!Current \ {id}, {id})
    <2>1. PICK id \in used' : ChangePeople(P!Current \union {id}, {id}) \/ ChangePeople(P!Current \ {id}, {id})
      BY <1>6
    <2>2. {id} \subseteq used' /\ P!Current \union {id} \subseteq used' /\ P!Current \ {id} \subseteq used'
      BY <1>3
    <2> QED BY <1>5, <2>1, <2>2
  <1> QED BY <1>2, <1>4, <1>6 DEF PeopleCall

\* What holds of voiceprints.json and its store after every call.
LEMMA PrintsCallResult ==
  ASSUME Basics, ~vLoading, PrintsCall
  PROVE  /\ vDisk' \in Owners /\ vMem' \in Owners /\ vUnsaved' \subseteq Samples
         /\ \A s \in Samples : vDisk'[s] \in used \union {Nobody} /\ vMem'[s] \in used \union {Nobody}
         /\ vFresh' \in BOOLEAN /\ vLoading' = FALSE /\ vReadable' = vReadable /\ (vFresh => vFresh')
         /\ slip' \in BOOLEAN /\ faults' \in 0 .. MaxFaults /\ (slip => slip')
         /\ ~slip' => vUnsaved' = {}
         /\ ~slip' /\ vFresh' => vMem' = vDisk'
  <1>1. /\ vDisk \in Owners /\ vMem \in Owners /\ vUnsaved \subseteq Samples
        /\ \A s \in Samples : vDisk[s] \in used \union {Nobody} /\ vMem[s] \in used \union {Nobody}
        /\ vFresh \in BOOLEAN /\ vLoading = FALSE /\ vReadable \in BOOLEAN
        /\ slip \in BOOLEAN /\ faults \in 0 .. MaxFaults
        /\ ~slip => vReadable /\ vUnsaved = {}
        /\ ~slip /\ vFresh => vMem = vDisk
    BY DEF Basics, TypeOK, IdsUsed, PrintsStore
  <1>2. CASE UNCHANGED prints /\ (UNCHANGED mishaps \/ Fault(TRUE) \/ Fault(FALSE))
    <2>1. slip' \in BOOLEAN /\ faults' \in 0 .. MaxFaults /\ (slip => slip')
      BY <1>1, <1>2, FaultResult DEF Basics, mishaps
    <2>2. UNCHANGED <<vDisk, vMem, vFresh, vLoading, vReadable, vUnsaved>>
      BY <1>2 DEF prints
    <2> QED BY <1>1, <2>1, <2>2
  <1>3. /\ V!Current \in Owners /\ V!Carried \subseteq Samples /\ (~slip => V!Carried = {})
        /\ \A s \in Samples : V!Current[s] \in used \union {Nobody}
        /\ ~slip => V!Current = vDisk
    BY <1>1 DEF V!Current, V!Carried, V!Stays
  <1>4. CASE V!Find /\ UNCHANGED mishaps
    <2>1. /\ vMem' = V!Current /\ vUnsaved' = V!Carried /\ vFresh' = TRUE
          /\ vDisk' = vDisk /\ vLoading' = vLoading /\ vReadable' = vReadable
          /\ slip' = slip /\ faults' = faults
      BY <1>4 DEF V!Find, mishaps
    <2> QED BY <1>1, <1>3, <2>1
  <1>5. CASE \E ss \in SUBSET Samples, to \in used \union {Nobody} :
               ss # {} /\ ChangePrints(Given(V!Current, ss, to), ss)
    <2>1. PICK ss \in SUBSET Samples, to \in used \union {Nobody} :
               ss # {} /\ ChangePrints(Given(V!Current, ss, to), ss)
      BY <1>5
    <2> DEFINE new == Given(V!Current, ss, to)
    <2>2. new \in Owners /\ \A s \in Samples : new[s] \in used \union {Nobody}
      BY <1>3, GivenOwners DEF Basics, TypeOK
    <2> HIDE DEF new
    <2>3. CASE V!Rewrite(new, ss, TRUE) /\ UNCHANGED mishaps
      <3>1. /\ vMem' = new /\ vDisk' = new /\ vUnsaved' = {} /\ vFresh' = TRUE
            /\ vLoading' = vLoading /\ vReadable' = vReadable
            /\ slip' = slip /\ faults' = faults
        BY <2>3 DEF V!Rewrite, mishaps
      <3> QED BY <1>1, <2>2, <3>1
    <2>4. CASE V!Rewrite(new, ss, FALSE) /\ Fault(TRUE)
      <3>1. vMem' = new /\ vDisk' = vDisk /\ vUnsaved' = V!Carried \union ss /\ vFresh' = TRUE
            /\ vLoading' = vLoading /\ vReadable' = vReadable
        BY <2>4 DEF V!Rewrite
      <3>2. slip' \in BOOLEAN /\ slip' /\ faults' \in 0 .. MaxFaults
        BY <2>4, FaultResult DEF Basics
      <3> QED BY <1>1, <1>3, <2>2, <3>1, <3>2
    <2> QED BY <2>1, <2>3, <2>4 DEF ChangePrints, new
  <1> QED BY <1>2, <1>4, <1>5 DEF PrintsCall, ChangePrints

----------------------------------------------------------------------------
(* The operation and the undo stack in a step *)

\* The operation goes on: it is about the same.
SameOp ==
    /\ op' \in Operations
    /\ op'.kind = op.kind /\ op'.person = op.person /\ op'.other = op.other /\ op'.new = op.new
    /\ op'.base = op.base /\ op'.count = op.count

LEMMA GotoResult ==
  ASSUME op \in Operations, NEW at \in Places, Goto(at)
  PROVE  SameOp /\ op'.at = at /\ op'.samples = op.samples /\ op'.bound = op.bound
  BY DEF Goto, SameOp, Operations

\* What the stack has to keep.
Stack == undo \in Seq(Operations) /\ Len(undo) <= MaxUndo /\ StackShape /\ Counts /\ Unheard

LEMMA KeptStack ==
  ASSUME Basics, SameOp, op.at # "idle", op'.at # "idle", op.at # "done",
         UNCHANGED <<undo, others, used>>
  PROVE  Stack'
  BY DEF Basics, TypeOK, SameOp, Stack, StackShape, Entry, Counts, Unheard, Made, Mentions

LEMMA ClearedStack ==
  ASSUME Basics, SameOp, op.at # "idle", op'.at # "idle", undo' = <<>>, UNCHANGED <<others, used>>
  PROVE  Stack'
  <1>1. Len(undo') = 0 /\ undo' \in Seq(Operations)
    OBVIOUS
  <1> QED
    BY <1>1, PeopleAssumption DEF Basics, TypeOK, SameOp, Stack, StackShape, Counts, Unheard

\* Pushing drops the oldest entry, or none.
LEMMA PushResult ==
  ASSUME TypeOK, NEW e \in Operations, Push(e)
  PROVE  /\ undo' \in Seq(Operations) /\ Len(undo') <= MaxUndo
         /\ \E drop \in {0, 1} :
              /\ Len(undo') = Len(undo) + 1 - drop
              /\ \A i \in 1 .. Len(undo') :
                   undo'[i] = IF i + drop = Len(undo) + 1 THEN e ELSE undo[i + drop]
  <1> DEFINE all == Append(undo, e)
  <1>1. undo \in Seq(Operations) /\ Len(undo) \in Nat /\ Len(undo) <= MaxUndo /\ MaxUndo \in Nat
    BY PeopleAssumption DEF TypeOK
  <1>2. /\ all \in Seq(Operations) /\ Len(all) = Len(undo) + 1
        /\ \A i \in 1 .. Len(undo) + 1 : all[i] = IF i = Len(undo) + 1 THEN e ELSE undo[i]
    BY <1>1
  <1>3. CASE Len(all) > MaxUndo
    <2>1. undo' = Tail(all)
      BY <1>3 DEF Push
    <2>2. undo' \in Seq(Operations) /\ Len(undo') = Len(undo)
      BY <1>1, <1>2, <2>1
    <2>3. \A i \in 1 .. Len(undo) : undo'[i] = all[i + 1]
      BY <1>1, <1>2, <2>1
    <2>4. \A i \in 1 .. Len(undo) : undo'[i] = IF i + 1 = Len(undo) + 1 THEN e ELSE undo[i + 1]
      BY <1>1, <1>2, <2>3
    <2> QED BY <1>1, <2>2, <2>4
  <1>4. CASE ~(Len(all) > MaxUndo)
    <2>1. undo' = all
      BY <1>4 DEF Push
    <2> QED BY <1>1, <1>2, <1>4, <2>1
  <1> QED BY <1>3, <1>4

LEMMA PushedStack ==
  ASSUME Basics, SameOp, op.at # "idle", op.at # "done", op'.at = "done", UNCHANGED <<others, used>>,
         NEW e \in Operations, Entry(e), e.count = op.count, e.new = op.new, e.other = op.other, Push(e)
  PROVE  Stack'
  <1>1. undo' \in Seq(Operations) /\ Len(undo') <= MaxUndo
    BY PushResult DEF Basics
  <1>2. PICK drop \in {0, 1} :
              /\ Len(undo') = Len(undo) + 1 - drop
              /\ \A i \in 1 .. Len(undo') :
                   undo'[i] = IF i + drop = Len(undo) + 1 THEN e ELSE undo[i + drop]
    BY PushResult DEF Basics
  <1>3. Len(undo) \in Nat /\ op.count \in Nat /\ others \in Nat
    BY DEF Basics, TypeOK, Operations
  <1>4. \A i \in 1 .. Len(undo') :
           \/ i + drop = Len(undo) + 1 /\ undo'[i] = e
           \/ i + drop \in 1 .. Len(undo) /\ undo'[i] = undo[i + drop]
    BY <1>2, <1>3
  <1>5. StackShape'
    BY <1>4 DEF Basics, StackShape, Entry
  <1>6. Counts'
    <2>1. \A i \in 1 .. Len(undo') : undo'[i].count <= op.count /\ undo'[i].count <= others
      BY <1>3, <1>4 DEF Basics, Counts
    <2>2. \A i, j \in 1 .. Len(undo') : i < j => undo'[i].count <= undo'[j].count
      <3> SUFFICES ASSUME NEW i \in 1 .. Len(undo'), NEW j \in 1 .. Len(undo'), i < j
                   PROVE  undo'[i].count <= undo'[j].count
        OBVIOUS
      <3>1. i + drop \in 1 .. Len(undo) /\ undo'[i] = undo[i + drop]
        BY <1>2, <1>3, <1>4
      <3>2. CASE j + drop = Len(undo) + 1 /\ undo'[j] = e
        BY <3>1, <3>2 DEF Basics, Counts
      <3>3. CASE j + drop \in 1 .. Len(undo) /\ undo'[j] = undo[j + drop]
        BY <1>3, <3>1, <3>3 DEF Basics, Counts
      <3> QED BY <1>4, <3>2, <3>3
    <2> QED BY <2>1, <2>2 DEF Basics, Counts, SameOp
  <1>7. Unheard'
    <2> SUFFICES ASSUME NEW i \in 1 .. Len(undo'), NEW j \in 1 .. Len(undo'), i < j, undo'[j].new
                 PROVE  ~Mentions(undo'[i], undo'[j].other)
      BY DEF Unheard, Mentions
    <2>1. i + drop \in 1 .. Len(undo) /\ undo'[i] = undo[i + drop]
      BY <1>2, <1>3, <1>4
    <2>2. CASE j + drop = Len(undo) + 1 /\ undo'[j] = e
      BY <2>1, <2>2 DEF Basics, Unheard, Made, Mentions
    <2>3. CASE j + drop \in 1 .. Len(undo) /\ undo'[j] = undo[j + drop]
      BY <1>3, <2>1, <2>3 DEF Basics, Unheard, Mentions
    <2> QED BY <1>4, <2>2, <2>3
  <1> QED BY <1>1, <1>5, <1>6, <1>7 DEF Stack

\* A call of a store, or none, somewhere on the way of an operation.
LEMMA OnTheWayStep ==
  ASSUME Basics, op.at \in OnTheWay, SameOp, Shape', Stack', op'.at \in OnTheWay \union Ended,
         \/ PeopleCall /\ UNCHANGED prints
         \/ PrintsCall /\ UNCHANGED people,
         ref' \in {ref, op.person, op.other, Nobody},
         UNCHANGED <<used, begun, others, foreign>>
  PROVE  Basics'
  <1>1. ~pLoading /\ ~vLoading
    BY DEF Basics, PeopleStore, PrintsStore, OnTheWay, Merging, Unmerging, Removing, Moving, Sampling
  <1>2. /\ pDisk' \subseteq used' /\ pMem' \subseteq used' /\ pUnsaved' \subseteq used'
        /\ pFresh' \in BOOLEAN /\ pLoading' = FALSE /\ pReadable' = pReadable /\ (pFresh => pFresh')
        /\ ~slip' /\ pFresh' => pMem' = pDisk'
        /\ ~slip' => pUnsaved' = {}
        /\ vDisk' \in Owners /\ vMem' \in Owners /\ vUnsaved' \subseteq Samples
        /\ \A s \in Samples : vDisk'[s] \in used \union {Nobody} /\ vMem'[s] \in used \union {Nobody}
        /\ vFresh' \in BOOLEAN /\ vLoading' = FALSE /\ vReadable' = vReadable /\ (vFresh => vFresh')
        /\ ~slip' => vUnsaved' = {}
        /\ ~slip' /\ vFresh' => vMem' = vDisk'
        /\ slip' \in BOOLEAN /\ faults' \in 0 .. MaxFaults /\ (slip => slip')
    <2>1. CASE PeopleCall /\ UNCHANGED prints
      <3>1. UNCHANGED <<vDisk, vMem, vFresh, vLoading, vReadable, vUnsaved>>
        BY <2>1 DEF prints
      <3>2. used \subseteq used' /\ used' \subseteq Persons
        BY DEF Basics, TypeOK
      <3>3. /\ pDisk' \subseteq used' /\ pMem' \subseteq used' /\ pUnsaved' \subseteq used'
            /\ pFresh' \in BOOLEAN /\ pLoading' = FALSE /\ pReadable' = pReadable /\ (pFresh => pFresh')
            /\ slip' \in BOOLEAN /\ faults' \in 0 .. MaxFaults /\ (slip => slip')
            /\ ~slip' /\ pFresh' => pMem' = pDisk'
            /\ ~slip' => pUnsaved' = {}
        BY <1>1, <2>1, <3>2, PeopleCallResult
      <3> QED BY <1>1, <3>1, <3>3 DEF Basics, TypeOK, IdsUsed, PrintsStore
    <2>2. CASE PrintsCall /\ UNCHANGED people
      <3>1. UNCHANGED <<pDisk, pMem, pFresh, pLoading, pReadable, pUnsaved>>
        BY <2>2 DEF people
      <3>2. /\ vDisk' \in Owners /\ vMem' \in Owners /\ vUnsaved' \subseteq Samples
            /\ \A s \in Samples : vDisk'[s] \in used \union {Nobody} /\ vMem'[s] \in used \union {Nobody}
            /\ vFresh' \in BOOLEAN /\ vLoading' = FALSE /\ vReadable' = vReadable /\ (vFresh => vFresh')
            /\ slip' \in BOOLEAN /\ faults' \in 0 .. MaxFaults /\ (slip => slip')
            /\ ~slip' => vUnsaved' = {}
            /\ ~slip' /\ vFresh' => vMem' = vDisk'
        BY <1>1, <2>2, PrintsCallResult
      <3> QED BY <1>1, <3>1, <3>2 DEF Basics, TypeOK, IdsUsed, PeopleStore
    <2> QED BY <2>1, <2>2
  <1>3. TypeOK'
    BY <1>2 DEF Basics, TypeOK, IdsUsed, SameOp, Stack
  <1>4. IdsUsed'
    BY <1>2 DEF Basics, TypeOK, IdsUsed, SameOp
  <1>5. PeopleStore' /\ PrintsStore'
    BY <1>2 DEF Basics, PeopleStore, PrintsStore
  <1>6. StillFresh'
    BY <1>2 DEF Basics, StillFresh, Undisturbed, SameOp, OnTheWay, Merging, Unmerging, Removing, Moving,
        Sampling, Ended
  <1> QED BY <1>3, <1>4, <1>5, <1>6 DEF Basics, Stack

----------------------------------------------------------------------------
(* The calls the operations make *)

LEMMA ChangeCall ==
  ASSUME TypeOK, used \subseteq used', NEW id \in used', NEW new,
         new \in {P!Current \union {id}, P!Current \ {id}}, ChangePeople(new, {id})
  PROVE  PeopleCall
  BY DEF PeopleCall

LEMMA FindCall == ASSUME P!Find, UNCHANGED mishaps PROVE PeopleCall
  BY DEF PeopleCall

LEMMA RefusedCalls ==
  ASSUME RefusedCall \/ IgnoredRefusal
  PROVE  PeopleCall /\ PrintsCall /\ UNCHANGED <<people, prints>>
  BY DEF RefusedCall, IgnoredRefusal, PeopleCall, PrintsCall

LEMMA NoCall ==
  ASSUME UNCHANGED <<people, prints, mishaps>>
  PROVE  PeopleCall /\ UNCHANGED prints
  BY DEF PeopleCall

LEMMA RemoveCall ==
  ASSUME Basics, NEW id \in used, UNCHANGED used, RemoveRecord(id)
  PROVE  PeopleCall
  BY ChangeCall, FindCall DEF Basics, RemoveRecord

LEMMA GiveAllCall ==
  ASSUME NEW from, NEW to \in used \union {Nobody}, GiveAll(from, to)
  PROVE  PrintsCall
  BY DEF GiveAll, PrintsCall, SamplesOf

LEMMA SetOneCall ==
  ASSUME NEW s \in Samples, NEW to \in used \union {Nobody}, SetOne(s, to)
  PROVE  PrintsCall
  <1>1. {s} \in SUBSET Samples
    OBVIOUS
  <1> QED BY <1>1 DEF SetOne, PrintsCall

LEMMA GiveOneCall ==
  ASSUME NEW s \in Samples, NEW to \in used \union {Nobody}, GiveOne(s, to)
  PROVE  PrintsCall
  BY SetOneCall DEF GiveOne, PrintsCall

LEMMA FindPrintsCall == ASSUME V!Find, UNCHANGED mishaps PROVE PrintsCall
  BY DEF PrintsCall

\* Goto somewhere on the way, with the stack as it was.
LEMMA GoneOn ==
  ASSUME Basics, NEW at \in OnTheWay \union Ended, Goto(at), op.at \in OnTheWay, UNCHANGED <<undo, rest>>
  PROVE  SameOp /\ op'.at = at /\ op'.samples = op.samples /\ op'.bound = op.bound /\ Stack'
         /\ UNCHANGED <<used, begun, others, foreign>>
  <1>1. at \in Places /\ op \in Operations /\ at # "idle" /\ op.at # "idle" /\ op.at # "done"
    BY DEF Basics, TypeOK, Places, OnTheWay, Merging, Unmerging, Removing, Moving, Sampling, Ended
  <1>2. SameOp /\ op'.at = at /\ op'.samples = op.samples /\ op'.bound = op.bound
    BY <1>1, GotoResult
  <1>3. Stack'
    BY <1>1, <1>2, KeptStack DEF rest
  <1> QED BY <1>2, <1>3 DEF rest

\* Such a step keeps the invariant if the operation may be there.
LEMMA GotoStep ==
  ASSUME Basics, NEW at \in OnTheWay \union Ended, Goto(at), op.at \in OnTheWay, UNCHANGED <<undo, rest>>,
         SameOp /\ op'.at = at => Shape',
         \/ PeopleCall /\ UNCHANGED prints
         \/ PrintsCall /\ UNCHANGED people,
         ref' \in {ref, op.person, op.other, Nobody}
  PROVE  Basics'
  <1>1. SameOp /\ op'.at = at /\ Stack' /\ UNCHANGED <<used, begun, others, foreign>>
    BY GoneOn
  <1> QED BY <1>1, OnTheWayStep

----------------------------------------------------------------------------
(* The steps of the operations *)

LEMMA BothKnownStep == ASSUME Basics, BothKnown PROVE Basics'
  <1>1. PICK at \in {"fold", "refused"} : Goto(at)
    BY DEF BothKnown
  <1>2. SameOp /\ op'.at = at => Shape'
    BY <1>1 DEF BothKnown, Basics, Shape, SameOp, Entry, OnTheWay, Merging, Unmerging, Removing, Moving,
        Sampling, Starting, Ended, rest
  <1>3. PeopleCall /\ UNCHANGED prints
    BY FindCall DEF BothKnown
  <1> QED BY <1>1, <1>2, <1>3, GotoStep DEF BothKnown, OnTheWay, Merging, Ended

LEMMA FoldRecordStep == ASSUME Basics, FoldRecord PROVE Basics'
  <1>1. PICK at \in {"foldPrints", "refused"} : Goto(at)
    BY DEF FoldRecord, Refused
  <1>2. SameOp /\ op'.at = at => Shape'
    BY <1>1 DEF FoldRecord, Basics, Shape, SameOp, Entry, OnTheWay, Merging, Unmerging, Removing, Moving,
        Sampling, Starting, Ended, rest
  <1>3. op.other \in used /\ UNCHANGED <<used, prints>>
    BY DEF FoldRecord, Basics, Shape, Merging, rest, RefusedCall
  <1>4. PeopleCall
    BY <1>3, FindCall, ChangeCall, RefusedCalls DEF FoldRecord, Basics
  <1> QED BY <1>1, <1>2, <1>3, <1>4, GotoStep DEF FoldRecord, OnTheWay, Merging, Ended

LEMMA RestoreStep ==
  ASSUME Basics, NEW at, NEW person, NEW next, RestoreRecord(at, person, next), at \in Unmerging,
         next \in Unmerging, person \in used
  PROVE  Basics'
  <1>1. Goto(next) /\ op.at = at
    BY DEF RestoreRecord
  <1>2. SameOp /\ op'.at = next => Shape'
    BY <1>1 DEF Basics, Shape, SameOp, Entry, OnTheWay, Merging, Unmerging, Removing, Moving,
        Sampling, Starting, Ended, rest, RestoreRecord
  <1>3. PeopleCall /\ UNCHANGED prints
    BY ChangeCall, RefusedCalls DEF RestoreRecord, rest, Basics
  <1> QED BY <1>1, <1>2, <1>3, GotoStep DEF RestoreRecord, OnTheWay

LEMMA RestoresStep == ASSUME Basics, RestoreDrop \/ RestoreKeep PROVE Basics'
  <1>1. CASE RestoreDrop
    <2>1. op.other \in used
      BY <1>1 DEF RestoreDrop, RestoreRecord, Basics, Shape, Unmerging
    <2> QED BY <1>1, <2>1, RestoreStep DEF RestoreDrop, Unmerging
  <1>2. CASE RestoreKeep
    <2>1. op.person \in used
      BY <1>2 DEF RestoreKeep, RestoreRecord, Basics, Shape, Unmerging
    <2> QED BY <1>2, <2>1, RestoreStep DEF RestoreKeep, Unmerging
  <1> QED BY <1>1, <1>2

LEMMA RefreshPrintsStep == ASSUME Basics, RefreshPrints PROVE Basics'
  <1>1. Goto("unfoldPrints")
    BY DEF RefreshPrints
  <1>2. SameOp /\ op'.at = "unfoldPrints" => Shape'
    BY <1>1 DEF RefreshPrints, Basics, Shape, SameOp, Entry, OnTheWay, Merging, Unmerging, Removing, Moving,
        Sampling, Starting, Ended, rest
  <1>3. PrintsCall /\ UNCHANGED people
    BY FindPrintsCall DEF RefreshPrints
  <1> QED BY <1>1, <1>2, <1>3, GotoStep DEF RefreshPrints, OnTheWay, Unmerging

LEMMA UnfoldRefsStep == ASSUME Basics, UnfoldRefs PROVE Basics'
  <1>1. Goto("undone")
    BY DEF UnfoldRefs
  <1>2. SameOp /\ op'.at = "undone" => Shape'
    BY <1>1 DEF UnfoldRefs, Basics, Shape, SameOp, Entry, OnTheWay, Merging, Unmerging, Removing, Moving,
        Sampling, Starting, Ended, rest
  <1>3. PeopleCall /\ UNCHANGED prints
    BY NoCall DEF UnfoldRefs
  <1>4. ref' \in {ref, op.person, op.other, Nobody}
    BY DEF UnfoldRefs
  <1> QED BY <1>1, <1>2, <1>3, <1>4, GotoStep DEF UnfoldRefs, OnTheWay, Unmerging, Ended

\* The samples of the operation change on the way.
LEMMA SamplesGoOn ==
  ASSUME Basics, op.at \in OnTheWay, NEW at \in OnTheWay, NEW ss \in SUBSET Samples,
         op' = [op EXCEPT !.at = at, !.samples = ss], UNCHANGED <<undo, ref, rest>>,
         SameOp /\ op'.at = at => Shape',
         PrintsCall, UNCHANGED people
  PROVE  Basics'
  <1>1. at \in Places /\ op \in Operations /\ at # "idle" /\ op.at # "idle" /\ op.at # "done"
    BY DEF Basics, TypeOK, Places, OnTheWay, Merging, Unmerging, Removing, Moving, Sampling, Ended
  <1>2. SameOp /\ op'.at = at
    BY <1>1 DEF SameOp, Operations
  <1>3. Stack'
    BY <1>1, <1>2, KeptStack DEF rest
  <1> QED BY <1>2, <1>3, OnTheWayStep DEF rest

LEMMA FoldPrintsStep == ASSUME Basics, FoldPrints PROVE Basics'
  <1>1. PICK ss \in SUBSET Samples : op' = [op EXCEPT !.at = "foldRefs", !.samples = ss]
    <2>1. op.samples \in SUBSET Samples /\ SamplesOf(V!Current, op.other) \in SUBSET Samples
      BY DEF Basics, TypeOK, Operations, SamplesOf
    <2>2. CASE Goto("foldRefs")
      <3>1. op' = [op EXCEPT !.at = "foldRefs", !.samples = op.samples]
        BY <2>2 DEF Goto, Basics, TypeOK, Operations
      <3> QED BY <2>1, <3>1
    <2> QED BY <2>1, <2>2 DEF FoldPrints
  <1>2. SameOp /\ op'.at = "foldRefs" => Shape'
    BY <1>1 DEF FoldPrints, Basics, Shape, SameOp, Entry, OnTheWay, Merging, Unmerging, Removing, Moving,
        Sampling, Starting, Ended, rest
  <1>3. op.person \in used
    BY DEF FoldPrints, Basics, Shape, Merging
  <1>4. PrintsCall /\ UNCHANGED people
    BY <1>3, GiveAllCall, RefusedCalls DEF FoldPrints
  <1> QED BY <1>1, <1>2, <1>4, SamplesGoOn DEF FoldPrints, OnTheWay, Merging

LEMMA UnfoldPrintsStep == ASSUME Basics, UnfoldPrints PROVE Basics'
  <1>1. CASE op.samples = {} /\ Goto("unfoldRefs") /\ UNCHANGED <<people, prints, mishaps>>
    <2>1. SameOp /\ op'.at = "unfoldRefs" => Shape'
      BY DEF UnfoldPrints, Basics, Shape, SameOp, Entry, OnTheWay, Merging, Unmerging, Removing, Moving,
          Sampling, Starting, Ended, rest
    <2> QED BY <1>1, <2>1, NoCall, GotoStep DEF UnfoldPrints, OnTheWay, Unmerging
  <1>2. ASSUME NEW s \in op.samples, op' = [op EXCEPT !.samples = @ \ {s}],
               IF vMem[s] # op.person THEN UNCHANGED <<people, prints, mishaps>>
               ELSE IgnoredRefusal \/ (GiveOne(s, op.other) /\ UNCHANGED people)
        PROVE  Basics'
    <2>1. op.samples \ {s} \in SUBSET Samples /\ s \in Samples /\ op.other \in used
      BY <1>2 DEF Basics, TypeOK, Operations, Shape, Unmerging, UnfoldPrints
    <2>2. op' = [op EXCEPT !.at = "unfoldPrints", !.samples = op.samples \ {s}]
      BY <1>2 DEF Basics, TypeOK, Operations, UnfoldPrints
    <2>3. PrintsCall /\ UNCHANGED people
      BY <1>2, <2>1, GiveOneCall, RefusedCalls DEF PrintsCall
    <2>4. SameOp /\ op'.at = "unfoldPrints" => Shape'
      BY DEF UnfoldPrints, Basics, Shape, SameOp, Entry, OnTheWay, Merging, Unmerging, Removing, Moving,
          Sampling, Starting, Ended, rest
    <2> QED BY <2>1, <2>2, <2>3, <2>4, SamplesGoOn DEF UnfoldPrints, OnTheWay, Unmerging
  <1> QED BY <1>1, <1>2 DEF UnfoldPrints

LEMMA KeepPrintsStep == ASSUME Basics, KeepPrints PROVE Basics'
  <1>1. PICK at \in {"givePrintsBack", "delete"} : Goto(at)
    BY DEF KeepPrints
  <1>2. SameOp /\ op'.at = at => Shape'
    BY <1>1 DEF KeepPrints, Basics, Shape, SameOp, Entry, OnTheWay, Merging, Unmerging, Removing, Moving,
        Sampling, Starting, Ended, rest
  <1>3. op.other \in used
    BY DEF KeepPrints, Basics, Shape
  <1>4. PrintsCall /\ UNCHANGED people
    BY <1>3, GiveAllCall, RefusedCalls DEF KeepPrints
  <1> QED BY <1>1, <1>2, <1>4, GotoStep DEF KeepPrints, OnTheWay, Removing

LEMMA DeleteRecordStep == ASSUME Basics, DeleteRecord PROVE Basics'
  <1>1. PICK at \in {"refused", "givePrintsBack", "deletePrints"} :
           Goto(at) /\ (at = "givePrintsBack" => op.other # Nobody)
    BY DEF DeleteRecord
  <1>2. SameOp /\ op'.at = at => Shape'
    BY <1>1 DEF DeleteRecord, Basics, IdsUsed, Shape, SameOp, Entry, OnTheWay, Merging, Unmerging, Removing,
        Moving, Sampling, Starting, Ended, rest
  <1>3. op.person \in used /\ UNCHANGED used
    BY DEF DeleteRecord, Basics, Shape, Removing, rest
  <1>4. PeopleCall /\ UNCHANGED prints
    BY <1>3, RemoveCall, RefusedCalls DEF DeleteRecord
  <1> QED BY <1>1, <1>2, <1>4, GotoStep DEF DeleteRecord, OnTheWay, Removing, Ended

LEMMA DeletePrintsStep == ASSUME Basics, DeletePrints PROVE Basics'
  <1>1. Goto("deleteRefs")
    BY DEF DeletePrints
  <1>2. SameOp /\ op'.at = "deleteRefs" => Shape'
    BY <1>1 DEF DeletePrints, Basics, Shape, SameOp, Entry, OnTheWay, Merging, Unmerging, Removing, Moving,
        Sampling, Starting, Ended, rest
  <1>3. PrintsCall /\ UNCHANGED people
    BY GiveAllCall, RefusedCalls DEF DeletePrints
  <1> QED BY <1>1, <1>2, <1>3, GotoStep DEF DeletePrints, OnTheWay, Removing

LEMMA GivePrintsBackStep == ASSUME Basics, GivePrintsBack PROVE Basics'
  <1>1. Goto("unmake")
    BY DEF GivePrintsBack
  <1>2. SameOp /\ op'.at = "unmake" => Shape'
    BY <1>1 DEF GivePrintsBack, Basics, Shape, SameOp, Entry, OnTheWay, Merging, Unmerging, Removing, Moving,
        Sampling, Starting, Ended, rest
  <1>3. op.person \in used
    BY DEF GivePrintsBack, Basics, Shape, Removing
  <1>4. PrintsCall /\ UNCHANGED people
    BY <1>3, GiveAllCall, RefusedCalls DEF GivePrintsBack
  <1> QED BY <1>1, <1>2, <1>4, GotoStep DEF GivePrintsBack, OnTheWay, Removing

LEMMA UnmakeStep == ASSUME Basics, Unmake PROVE Basics'
  <1>1. Goto("refused")
    BY DEF Unmake, Refused
  <1>2. SameOp /\ op'.at = "refused" => Shape'
    BY <1>1 DEF Unmake, Basics, Shape, SameOp, Entry, OnTheWay, Merging, Unmerging, Removing, Moving,
        Sampling, Starting, Ended, rest
  <1>3. op.other \in used /\ UNCHANGED used
    BY DEF Unmake, Basics, Shape, rest
  <1>4. PeopleCall /\ UNCHANGED prints
    BY <1>3, RemoveCall, RefusedCalls DEF Unmake
  <1> QED BY <1>1, <1>2, <1>4, GotoStep DEF Unmake, OnTheWay, Ended

LEMMA DeleteRefsStep == ASSUME Basics, DeleteRefs PROVE Basics'
  <1>1. Goto("done") /\ op \in Operations /\ op.at = "deleteRefs"
    BY DEF DeleteRefs, Done, Goto, Basics, TypeOK
  <1>2. SameOp /\ op'.at = "done"
    BY <1>1, GotoResult DEF Places
  <1>3. Shape'
    BY <1>2 DEF DeleteRefs, Basics, Shape, SameOp, Entry, OnTheWay, Merging, Unmerging, Removing, Moving,
        Sampling, Starting, Ended, rest
  <1>4. UNCHANGED <<used, begun, others, foreign>>
    BY DEF DeleteRefs, rest
  <1>5. Stack'
    BY <1>1, <1>2, <1>4, ClearedStack DEF DeleteRefs
  <1>6. PeopleCall /\ UNCHANGED prints /\ ref' \in {ref, op.person, op.other, Nobody}
    BY NoCall DEF DeleteRefs
  <1> QED BY <1>1, <1>2, <1>3, <1>4, <1>5, <1>6, OnTheWayStep DEF OnTheWay, Removing, Ended

LEMMA MoveBackStep == ASSUME Basics, MoveBack PROVE Basics'
  <1>1. Goto("unused")
    BY DEF MoveBack
  <1>2. SameOp /\ op'.at = "unused" => Shape'
    BY <1>1 DEF MoveBack, Basics, Shape, SameOp, Entry, OnTheWay, Merging, Unmerging, Removing, Moving,
        Sampling, Starting, Ended, rest
  <1>3. op.person \in used /\ op.samples \subseteq Samples
    BY DEF MoveBack, Basics, TypeOK, Operations, Shape, Moving
  <1>4. PrintsCall /\ UNCHANGED people
    BY <1>3, GiveOneCall, RefusedCalls DEF MoveBack
  <1> QED BY <1>1, <1>2, <1>4, GotoStep DEF MoveBack, OnTheWay, Moving

LEMMA DropUnusedStep == ASSUME Basics, DropUnused PROVE Basics'
  <1>1. Goto("undone")
    BY DEF DropUnused
  <1>2. SameOp /\ op'.at = "undone" => Shape'
    BY <1>1 DEF DropUnused, Basics, Shape, SameOp, Entry, OnTheWay, Merging, Unmerging, Removing, Moving,
        Sampling, Starting, Ended, rest
  <1>3. op.other \in used /\ UNCHANGED used
    BY DEF DropUnused, Basics, Shape, rest
  <1>4. PeopleCall /\ UNCHANGED prints
    BY <1>3, RemoveCall, RefusedCalls, NoCall DEF DropUnused
  <1> QED BY <1>1, <1>2, <1>4, GotoStep DEF DropUnused, OnTheWay, Moving, Ended

LEMMA AddBackStep == ASSUME Basics, AddBack PROVE Basics'
  <1>1. Goto("undone")
    BY DEF AddBack
  <1>2. SameOp /\ op'.at = "undone" => Shape'
    BY <1>1 DEF AddBack, Basics, Shape, SameOp, Entry, OnTheWay, Merging, Unmerging, Removing, Moving,
        Sampling, Starting, Ended, rest
  <1>3. op.person \in used /\ op.samples \subseteq Samples
    BY DEF AddBack, Basics, TypeOK, Operations, Shape, Sampling
  <1>4. PrintsCall /\ UNCHANGED people
    BY <1>3, SetOneCall, RefusedCalls DEF AddBack
  <1> QED BY <1>1, <1>2, <1>4, GotoStep DEF AddBack, OnTheWay, Sampling, Ended

LEMMA FoldRefsStep == ASSUME Basics, FoldRefs PROVE Basics'
  <1> DEFINE e == [op EXCEPT !.bound = (ref = op.other)]
  <1>1. Goto("done") /\ op \in Operations /\ op.at = "foldRefs" /\ Push(e)
    BY DEF FoldRefs, Done, Goto, Basics, TypeOK
  <1>2. SameOp /\ op'.at = "done"
    BY <1>1, GotoResult DEF Places
  <1>3. Shape'
    BY <1>2 DEF FoldRefs, Basics, Shape, SameOp, Entry, OnTheWay, Merging, Unmerging, Removing, Moving,
        Sampling, Starting, Ended, rest
  <1>4. UNCHANGED <<used, begun, others, foreign>>
    BY DEF FoldRefs, rest
  <1>5. /\ e \in Operations /\ e.kind = op.kind /\ e.person = op.person /\ e.other = op.other
        /\ e.count = op.count /\ e.new = op.new /\ e.base = op.base
    BY <1>1 DEF Operations
  <1>6. Entry(e)
    BY <1>1, <1>5 DEF Entry, Undoable, Basics, Shape, Merging
  <1> HIDE DEF e
  <1>7. Stack'
    BY <1>1, <1>2, <1>4, <1>5, <1>6, PushedStack
  <1>8. PeopleCall /\ UNCHANGED prints /\ ref' \in {ref, op.person, op.other, Nobody}
    BY NoCall DEF FoldRefs
  <1> QED BY <1>1, <1>2, <1>3, <1>4, <1>7, <1>8, OnTheWayStep DEF OnTheWay, Merging, Ended

\* A sample found its new owner: the step can be undone.
LEMMA SampleDoneStep ==
  ASSUME Basics, op.at \in {"move", "removeSample"}, Done, Push(op), PrintsCall, UNCHANGED <<people, ref, rest>>
  PROVE  Basics'
  <1>1. Goto("done") /\ op \in Operations
    BY DEF Done, Goto, Basics, TypeOK
  <1>2. SameOp /\ op'.at = "done"
    BY <1>1, GotoResult DEF Places
  <1>3. Shape'
    BY <1>2 DEF Basics, Shape, SameOp, Entry, OnTheWay, Merging, Unmerging, Removing, Moving,
        Sampling, Starting, Ended, rest
  <1>4. UNCHANGED <<used, begun, others, foreign>>
    BY DEF rest
  <1>5. Entry(op)
    BY DEF Entry, Undoable, Basics, IdsUsed, Shape, Moving, Sampling
  <1>6. Stack'
    BY <1>1, <1>2, <1>4, <1>5, PushedStack
  <1> QED BY <1>2, <1>3, <1>4, <1>6, OnTheWayStep DEF OnTheWay, Moving, Sampling, Ended

LEMMA MoveSampleStep == ASSUME Basics, MoveSample PROVE Basics'
  <1>1. op.other \in used /\ op.samples \subseteq Samples
    BY DEF MoveSample, Basics, TypeOK, Operations, Shape
  <1>2. CASE Done /\ Push(op) /\ UNCHANGED people /\ \E s \in op.samples : GiveOne(s, op.other)
    BY <1>1, <1>2, GiveOneCall, SampleDoneStep DEF MoveSample
  <1>3. CASE /\ NotMoved /\ UNCHANGED <<undo, people>>
             /\ RefusedCall \/ (V!Find /\ UNCHANGED mishaps)
    <2>1. PICK at \in {"unmake", "refused"} : Goto(at) /\ (at = "unmake" => op.new)
      BY <1>3 DEF NotMoved
    <2>2. SameOp /\ op'.at = at => Shape'
      BY <1>1, <2>1 DEF MoveSample, Basics, Shape, SameOp, Entry, OnTheWay, Merging, Unmerging, Removing,
          Moving, Sampling, Starting, Ended, rest
    <2>3. PrintsCall
      BY <1>3, RefusedCalls, FindPrintsCall
    <2> QED BY <1>3, <2>1, <2>2, <2>3, GotoStep DEF MoveSample, OnTheWay, Moving, Ended
  <1> QED BY <1>2, <1>3 DEF MoveSample, RefusedCall

LEMMA RemoveSampleStep == ASSUME Basics, RemoveSample PROVE Basics'
  <1>1. op.samples \subseteq Samples
    BY DEF RemoveSample, Basics, TypeOK, Operations
  <1>2. CASE Done /\ Push(op) /\ UNCHANGED people /\ \E s \in op.samples : SetOne(s, Nobody)
    BY <1>1, <1>2, SetOneCall, SampleDoneStep DEF RemoveSample
  <1>3. CASE /\ Refused /\ UNCHANGED <<undo, people>>
             /\ RefusedCall \/ (V!Find /\ UNCHANGED mishaps)
    <2>1. Goto("refused")
      BY <1>3 DEF Refused
    <2>2. SameOp /\ op'.at = "refused" => Shape'
      BY <1>1, <2>1 DEF RemoveSample, Basics, Shape, SameOp, Entry, OnTheWay, Merging, Unmerging, Removing,
          Moving, Sampling, Starting, Ended, rest
    <2>3. PrintsCall
      BY <1>3, RefusedCalls, FindPrintsCall
    <2> QED BY <1>3, <2>1, <2>2, <2>3, GotoStep DEF RemoveSample, OnTheWay, Sampling, Ended
  <1> QED BY <1>2, <1>3 DEF RemoveSample, RefusedCall

\* A person is made: its id is new to everybody.
LEMMA CreateStep ==
  ASSUME Basics, NEW next \in {"keepPrints", "move"}, Create(next), UNCHANGED <<prints, ref, undo>>,
         op.at = IF next = "move" THEN "make" ELSE "anonymous"
  PROVE  Basics'
  <1>1. PICK id \in Persons \ used :
          /\ ChangePeople(P!Current \union {id}, {id}) /\ used' = used \union {id}
          /\ op' = [op EXCEPT !.at = next, !.other = id]
          /\ UNCHANGED <<begun, others, foreign>>
    BY DEF Create
  <1>2. op \in Operations /\ ~pLoading /\ op.other = Nobody /\ op.kind = IF next = "move" THEN "moved" ELSE "removed"
    BY DEF Basics, TypeOK, PeopleStore, Shape, Moving, Removing
  <1>3. /\ op' \in Operations /\ op'.at = next /\ op'.kind = op.kind /\ op'.person = op.person /\ op'.other = id
        /\ op'.new = op.new /\ op'.base = op.base /\ op'.count = op.count
    BY <1>1, <1>2 DEF Operations, Places
  <1>4. used \subseteq used' /\ used' \subseteq Persons /\ id \in used' /\ id # Nobody
    BY <1>1, PeopleAssumption DEF Basics, TypeOK
  <1>5. PeopleCall
    BY <1>1, <1>4 DEF PeopleCall
  <1>6. /\ pDisk' \subseteq used' /\ pMem' \subseteq used' /\ pUnsaved' \subseteq used'
        /\ pFresh' \in BOOLEAN /\ pLoading' = FALSE /\ pReadable' = pReadable /\ (pFresh => pFresh')
        /\ slip' \in BOOLEAN /\ faults' \in 0 .. MaxFaults /\ (slip => slip')
        /\ ~slip' /\ pFresh' => pMem' = pDisk'
        /\ ~slip' => pUnsaved' = {}
    BY <1>2, <1>4, <1>5, PeopleCallResult
  <1>7. UNCHANGED <<vDisk, vMem, vFresh, vLoading, vReadable, vUnsaved>>
    BY DEF prints
  <1>8. TypeOK'
    BY <1>1, <1>3, <1>4, <1>6, <1>7 DEF Basics, TypeOK
  <1>9. IdsUsed'
    BY <1>1, <1>3, <1>4, <1>6, <1>7 DEF Basics, IdsUsed
  <1>10. Shape'
    BY <1>2, <1>3, <1>4 DEF Basics, Shape, OnTheWay, Merging, Unmerging, Removing, Moving, Sampling, Starting,
        Ended
  <1>11. StackShape'
    BY <1>4 DEF Basics, StackShape, Entry
  <1>12. PeopleStore' /\ PrintsStore'
    BY <1>2, <1>3, <1>6, <1>7 DEF Basics, PeopleStore, PrintsStore
  <1>13. Counts'
    BY <1>1, <1>3 DEF Basics, Counts
  <1>14. StillFresh'
    BY <1>1, <1>3, <1>6, <1>7 DEF Basics, StillFresh, Undisturbed
  <1>15. Unheard'
    <2>1. \A i \in 1 .. Len(undo) : ~Mentions(undo[i], id)
      BY <1>1, <1>4 DEF Basics, StackShape, Entry, Mentions
    <2> QED BY <2>1, <1>3 DEF Basics, Unheard
  <1> QED BY <1>8, <1>9, <1>10, <1>11, <1>12, <1>13, <1>14, <1>15 DEF Basics

\* The call that makes the person was refused.
LEMMA NotMadeStep ==
  ASSUME Basics, op.at \in {"anonymous", "make"}, RefusedCall, Refused, UNCHANGED <<rest, ref, undo>>
  PROVE  Basics'
  <1>1. Goto("refused")
    BY DEF Refused
  <1>2. SameOp /\ op'.at = "refused" => Shape'
    BY DEF Basics, Shape, SameOp, Entry, OnTheWay, Merging, Unmerging, Removing, Moving, Sampling, Starting,
        Ended, rest
  <1> QED BY <1>1, <1>2, RefusedCalls, GotoStep DEF OnTheWay, Removing, Moving, Ended

LEMMA MakeStep == ASSUME Basics, MakeAnonymous \/ MakePerson PROVE Basics'
  <1>1. CASE MakeAnonymous
    <2>1. CASE RefusedCall /\ Refused /\ UNCHANGED rest
      BY <1>1, <2>1, NotMadeStep DEF MakeAnonymous
    <2>2. CASE Create("keepPrints") /\ UNCHANGED prints
      BY <1>1, <2>2, CreateStep DEF MakeAnonymous
    <2> QED BY <1>1, <2>1, <2>2 DEF MakeAnonymous
  <1>2. CASE MakePerson
    <2>1. CASE RefusedCall /\ Refused /\ UNCHANGED rest
      BY <1>2, <2>1, NotMadeStep DEF MakePerson
    <2>2. CASE Create("move") /\ UNCHANGED prints
      BY <1>2, <2>2, CreateStep DEF MakePerson
    <2> QED BY <1>2, <2>1, <2>2 DEF MakePerson
  <1> QED BY <1>1, <1>2

----------------------------------------------------------------------------
(* The beginning and the end of an operation *)

\* The end of load(): the memory is what the file was when it was read.
LEMMA LoadPrintsResult ==
  ASSUME Basics, V!Load
  PROVE  /\ vDisk' = vDisk /\ vMem' \in Owners /\ vUnsaved' \subseteq Samples
         /\ \A s \in Samples : vMem'[s] \in used \union {Nobody}
         /\ vFresh' = vFresh /\ vLoading' = FALSE /\ vReadable' = vReadable
         /\ ~slip => vUnsaved' = {}
         /\ ~slip /\ vFresh => vMem' = vDisk
  <1>1. CASE vLoading /\ vReadable
    <2>1. /\ vMem' = vDisk /\ vUnsaved' = {} /\ vLoading' = FALSE
          /\ vFresh' = vFresh /\ vReadable' = vReadable /\ vDisk' = vDisk
      BY <1>1 DEF V!Load
    <2> QED BY <2>1 DEF Basics, TypeOK, IdsUsed
  <1>2. CASE ~(vLoading /\ vReadable)
    <2>1. /\ vMem' = vMem /\ vUnsaved' = vUnsaved /\ vLoading' = FALSE
          /\ vFresh' = vFresh /\ vReadable' = vReadable /\ vDisk' = vDisk
      BY <1>2 DEF V!Load
    <2> QED BY <1>2, <2>1 DEF Basics, TypeOK, IdsUsed, PrintsStore
  <1> QED BY <1>1, <1>2

LEMMA LoadPeopleResult ==
  ASSUME Basics, P!Load
  PROVE  /\ pDisk' = pDisk /\ pMem' \subseteq used /\ pUnsaved' \subseteq used
         /\ pFresh' = pFresh /\ pLoading' = FALSE /\ pReadable' = pReadable
         /\ ~slip => pUnsaved' = {}
         /\ ~slip /\ pFresh => pMem' = pDisk
  <1>1. CASE pLoading /\ pReadable
    <2>1. /\ pMem' = pDisk /\ pUnsaved' = {} /\ pLoading' = FALSE
          /\ pFresh' = pFresh /\ pReadable' = pReadable /\ pDisk' = pDisk
      BY <1>1 DEF P!Load
    <2> QED BY <2>1 DEF Basics, TypeOK, IdsUsed
  <1>2. CASE ~(pLoading /\ pReadable)
    <2>1. /\ pMem' = pMem /\ pUnsaved' = pUnsaved /\ pLoading' = FALSE
          /\ pFresh' = pFresh /\ pReadable' = pReadable /\ pDisk' = pDisk
      BY <1>2 DEF P!Load
    <2> QED BY <1>2, <2>1 DEF Basics, TypeOK, IdsUsed, PeopleStore
  <1> QED BY <1>1, <1>2

LEMMA IdleResult ==
  /\ Idle \in Operations /\ Idle.at = "idle" /\ Idle.kind = "none" /\ Idle.person = Nobody
  /\ Idle.other = Nobody /\ Idle.new = FALSE /\ Idle.base = <<>> /\ Idle.count = 0
  BY PeopleAssumption DEF Idle, Operations, Places

LEMMA OnDiskTriple == ASSUME Basics PROVE OnDisk \in Triples
  BY DEF Basics, TypeOK, OnDisk, Triples

\* The operation goes back to idle; the last thing it may do is to load the voiceprints.
LEMMA ToIdleStep ==
  ASSUME Basics, op.at # "people", op' = Idle, UNCHANGED <<people, ref, undo, mishaps, rest>>,
         \/ UNCHANGED prints /\ op.at \notin {"prints", "sample"}
         \/ V!Load
  PROVE  Basics'
  <1>1. /\ vDisk' = vDisk /\ vMem' \in Owners /\ vUnsaved' \subseteq Samples
        /\ \A s \in Samples : vMem'[s] \in used \union {Nobody}
        /\ vFresh' = vFresh /\ vLoading' = FALSE /\ vReadable' = vReadable
        /\ ~slip => vUnsaved' = {}
        /\ ~slip /\ vFresh => vMem' = vDisk
    BY LoadPrintsResult DEF Basics, TypeOK, IdsUsed, PrintsStore, prints
  <1>2. UNCHANGED <<pDisk, pMem, pFresh, pLoading, pReadable, pUnsaved, slip, faults, used, begun, others, foreign>>
    BY DEF people, mishaps, rest
  <1>3. /\ op' \in Operations /\ op'.at = "idle" /\ op'.kind = "none" /\ op'.person = Nobody
        /\ op'.other = Nobody /\ op'.new = FALSE /\ op'.base = <<>> /\ op'.count = 0
    BY IdleResult
  <1>4. TypeOK' /\ IdsUsed'
    BY <1>1, <1>2, <1>3 DEF Basics, TypeOK, IdsUsed
  <1>5. Shape'
    BY <1>3 DEF Shape, Merging, Unmerging, Removing, Moving, Sampling
  <1>6. StackShape' /\ Counts'
    BY <1>2, <1>3 DEF Basics, TypeOK, StackShape, Entry, Counts
  <1>7. PeopleStore' /\ PrintsStore' /\ StillFresh'
    BY <1>1, <1>2, <1>3 DEF Basics, PeopleStore, PrintsStore, StillFresh
  <1>8. Unheard'
    BY <1>3 DEF Basics, Unheard, Made
  <1> QED BY <1>4, <1>5, <1>6, <1>7, <1>8 DEF Basics

LEMMA ReloadOnlyStep == ASSUME Basics, ReloadOnly PROVE Basics'
  BY ToIdleStep DEF ReloadOnly, Reloaded, rest

LEMMA FinishStep == ASSUME Basics, Finish PROVE Basics'
  BY ToIdleStep DEF Finish

LEMMA BeginStep == ASSUME Basics, Begin PROVE Basics'
  <1>1. UNCHANGED <<pDisk, pMem, pReadable, pUnsaved>> /\ pFresh' = TRUE /\ pLoading' = ~pFresh
    BY DEF Begin, P!Stamp
  <1>2. UNCHANGED <<vDisk, vMem, vFresh, vLoading, vReadable, vUnsaved, slip, faults,
                    used, begun, others, foreign, ref, undo>>
    BY DEF Begin, prints, mishaps, rest
  <1>3. /\ op' \in Operations /\ op'.at = "people" /\ op'.kind = "none" /\ op'.person = Nobody
        /\ op'.other = Nobody /\ op'.new = FALSE /\ op'.base \in Triples /\ op'.count = others
    BY OnDiskTriple, PeopleAssumption DEF Begin, Idle, Operations, Places, Basics, TypeOK, Triples
  <1>4. TypeOK' /\ IdsUsed'
    BY <1>1, <1>2, <1>3 DEF Basics, TypeOK, IdsUsed
  <1>5. Shape'
    BY <1>3 DEF Shape, OnTheWay, Merging, Unmerging, Removing, Moving, Sampling, Starting
  <1>6. StackShape' /\ Counts'
    BY <1>2, <1>3 DEF Basics, TypeOK, StackShape, Entry, Counts
  <1>7. PeopleStore' /\ PrintsStore' /\ StillFresh'
    BY <1>1, <1>2, <1>3 DEF Basics, TypeOK, PeopleStore, PrintsStore, StillFresh, Begin
  <1>8. Unheard'
    BY <1>2, <1>3 DEF Basics, Unheard, Made
  <1> QED BY <1>4, <1>5, <1>6, <1>7, <1>8 DEF Basics

LEMMA BeginRemoveSampleStep == ASSUME Basics, BeginRemoveSample PROVE Basics'
  <1>1. UNCHANGED <<vDisk, vMem, vReadable, vUnsaved>> /\ vFresh' = TRUE /\ vLoading' = ~vFresh
    BY DEF BeginRemoveSample, V!Stamp
  <1>2. UNCHANGED <<pDisk, pMem, pFresh, pLoading, pReadable, pUnsaved, slip, faults,
                    used, begun, others, foreign, ref, undo>>
    BY DEF BeginRemoveSample, people, mishaps, rest
  <1>3. /\ op' \in Operations /\ op'.at = "sample" /\ op'.kind = "none" /\ op'.person = Nobody
        /\ op'.other = Nobody /\ op'.new = FALSE /\ op'.base \in Triples /\ op'.count = others
    BY OnDiskTriple, PeopleAssumption DEF BeginRemoveSample, Idle, Operations, Places, Basics, TypeOK, Triples
  <1>4. TypeOK' /\ IdsUsed'
    BY <1>1, <1>2, <1>3 DEF Basics, TypeOK, IdsUsed
  <1>5. Shape'
    BY <1>3 DEF Shape, OnTheWay, Merging, Unmerging, Removing, Moving, Sampling, Starting
  <1>6. StackShape' /\ Counts'
    BY <1>2, <1>3 DEF Basics, TypeOK, StackShape, Entry, Counts
  <1>7. PeopleStore' /\ PrintsStore' /\ StillFresh'
    BY <1>1, <1>2, <1>3 DEF Basics, TypeOK, PeopleStore, PrintsStore, StillFresh, BeginRemoveSample
  <1>8. Unheard'
    BY <1>2, <1>3 DEF Basics, Unheard, Made
  <1> QED BY <1>4, <1>5, <1>6, <1>7, <1>8 DEF Basics

\* undo() takes the last entry.
LEMMA PopResult ==
  ASSUME TypeOK, undo # <<>>, undo' = SubSeq(undo, 1, Len(undo) - 1)
  PROVE  /\ Len(undo) \in 1 .. MaxUndo /\ undo[Len(undo)] \in Operations
         /\ undo' \in Seq(Operations) /\ Len(undo') = Len(undo) - 1
         /\ \A i \in 1 .. Len(undo') : undo'[i] = undo[i]
  <1>1. undo \in Seq(Operations) /\ Len(undo) \in Nat /\ Len(undo) <= MaxUndo /\ MaxUndo \in Nat
    BY PeopleAssumption DEF TypeOK
  <1>2. Len(undo) # 0
    BY <1>1
  <1>3. Len(undo) \in 1 .. MaxUndo /\ Len(undo) - 1 \in 0 .. Len(undo) /\ undo[Len(undo)] \in Operations
    BY <1>1, <1>2
  <1>4. undo' \in Seq(Operations) /\ Len(undo') = Len(undo) - 1
    <2>1. 1 \in Int /\ Len(undo) - 1 \in Int /\ \A i \in 1 .. Len(undo) - 1 : undo[i] \in Operations
      BY <1>1, <1>3
    <2>2. /\ undo' \in Seq(Operations)
          /\ Len(undo') = IF 1 <= Len(undo) - 1 THEN Len(undo) - 1 - 1 + 1 ELSE 0
      BY <2>1, SubSeqProperties
    <2>3. \A n \in Nat \ {0} : (IF 1 <= n - 1 THEN n - 1 - 1 + 1 ELSE 0) = n - 1
      OBVIOUS
    <2>4. Len(undo) \in Nat \ {0}
      BY <1>1, <1>2
    <2> QED BY <2>2, <2>3, <2>4
  <1>5. \A i \in 1 .. Len(undo') : undo'[i] = undo[i]
    BY <1>1, <1>3, <1>4
  <1> QED BY <1>3, <1>4, <1>5

LEMMA BeginUndoStep == ASSUME Basics, BeginUndo PROVE Basics'
  <1> DEFINE n == Len(undo)
             e == undo[n]
  <1>1. UNCHANGED <<pDisk, pMem, pReadable, pUnsaved>> /\ pFresh' = TRUE /\ pLoading' = ~pFresh
    BY DEF BeginUndo, P!Stamp
  <1>2. UNCHANGED <<vDisk, vMem, vFresh, vLoading, vReadable, vUnsaved, slip, faults,
                    used, begun, others, foreign, ref>>
    BY DEF BeginUndo, prints, mishaps, rest
  <1>3. /\ n \in 1 .. MaxUndo /\ e \in Operations
        /\ undo' \in Seq(Operations) /\ Len(undo') = n - 1
        /\ \A i \in 1 .. Len(undo') : undo'[i] = undo[i] /\ i \in 1 .. n /\ i < n
    BY PopResult, PeopleAssumption DEF BeginUndo, Basics
  <1>4. Entry(e)
    BY <1>3 DEF Basics, StackShape
  <1>5. /\ op' \in Operations /\ op'.at = "people" /\ op'.kind = e.kind /\ op'.person = e.person
        /\ op'.other = e.other /\ op'.new = e.new /\ op'.base = e.base /\ op'.count = e.count
    BY <1>3 DEF BeginUndo, Operations, Places
  <1> HIDE DEF n, e
  <1>6. TypeOK' /\ IdsUsed'
    BY <1>1, <1>2, <1>3, <1>4, <1>5, PeopleAssumption DEF Basics, TypeOK, IdsUsed, Entry
  <1>7. Shape'
    BY <1>2, <1>4, <1>5 DEF Shape, Entry, Undoable, OnTheWay, Merging, Unmerging, Removing, Moving, Sampling, Starting
  <1>8. StackShape'
    BY <1>2, <1>3 DEF Basics, StackShape, Entry, n
  <1>9. Counts'
    <2>1. e.count <= others /\ \A i \in 1 .. Len(undo') : undo'[i].count <= e.count
      BY <1>3 DEF Basics, Counts, e, n
    <2> QED BY <1>2, <1>3, <1>5, <2>1 DEF Basics, Counts, n
  <1>10. PeopleStore' /\ PrintsStore' /\ StillFresh'
    BY <1>1, <1>2, <1>5 DEF Basics, TypeOK, PeopleStore, PrintsStore, StillFresh, BeginUndo
  <1>11. Unheard'
    <2>1. e.kind # "removed" /\ (e.new => \A i \in 1 .. Len(undo') : ~Mentions(undo'[i], e.other))
      BY <1>3, <1>4 DEF Basics, Unheard, Entry, Undoable, e, n
    <2> QED BY <1>3, <1>5, <2>1 DEF Basics, Unheard, Made, n, Mentions
  <1> QED BY <1>6, <1>7, <1>8, <1>9, <1>10, <1>11 DEF Basics

LEMMA ReloadPeopleStep == ASSUME Basics, ReloadPeople PROVE Basics'
  <1>1. /\ pDisk' = pDisk /\ pMem' \subseteq used /\ pUnsaved' \subseteq used
        /\ pFresh' = pFresh /\ pLoading' = FALSE /\ pReadable' = pReadable
        /\ ~slip => pUnsaved' = {}
        /\ ~slip /\ pFresh => pMem' = pDisk
    BY LoadPeopleResult DEF ReloadPeople
  <1>2. UNCHANGED <<vDisk, vMem, vReadable, vUnsaved>> /\ vFresh' = TRUE /\ vLoading' = ~vFresh
    BY DEF ReloadPeople, V!Stamp
  <1>3. UNCHANGED <<slip, faults, used, begun, others, foreign, ref, undo>> /\ op.at = "people"
    BY DEF ReloadPeople, mishaps, rest
  <1>4. SameOp /\ op'.at = "prints"
    BY GotoResult DEF ReloadPeople, Basics, TypeOK, Places
  <1>5. TypeOK' /\ IdsUsed'
    BY <1>1, <1>2, <1>3, <1>4 DEF Basics, TypeOK, IdsUsed, SameOp
  <1>6. Shape'
    BY <1>3, <1>4 DEF Basics, SameOp, Shape, Entry, Undoable, OnTheWay, Merging, Unmerging, Removing, Moving,
        Sampling, Starting
  <1>7. Stack'
    BY <1>3, <1>4, KeptStack
  <1>8. PeopleStore' /\ PrintsStore' /\ StillFresh'
    BY <1>1, <1>2, <1>3, <1>4 DEF Basics, TypeOK, PeopleStore, PrintsStore, StillFresh, Undisturbed, SameOp
  <1> QED BY <1>5, <1>6, <1>7, <1>8 DEF Basics, Stack

\* The files are loaded: the operation sets out.
LEMMA SetOutStep ==
  ASSUME Basics, op.at \in {"prints", "sample"}, V!Load,
         UNCHANGED <<people, ref, undo, mishaps, used, others, foreign>>, begun' \in 0 .. MaxBegun,
         op' \in Operations, op'.count = op.count, op'.base = op.base, op'.at \in OnTheWay, Shape',
         op'.person \in used \union {Nobody}, op'.other \in used \union {Nobody},
         op.at = "sample" => op'.kind = "sampleRemoved",
         op.kind # "none" => op'.kind = op.kind,
         Made' => op'.other = Nobody \/ (Made /\ op'.other = op.other)
  PROVE  Basics'
  <1>1. /\ vDisk' = vDisk /\ vMem' \in Owners /\ vUnsaved' \subseteq Samples
        /\ \A s \in Samples : vMem'[s] \in used \union {Nobody}
        /\ vFresh' = vFresh /\ vLoading' = FALSE /\ vReadable' = vReadable
        /\ ~slip => vUnsaved' = {}
        /\ ~slip /\ vFresh => vMem' = vDisk
    BY LoadPrintsResult
  <1>2. UNCHANGED <<pDisk, pMem, pFresh, pLoading, pReadable, pUnsaved, slip, faults, used, others, foreign>>
    BY DEF people, mishaps
  <1>3. op'.at \notin {"idle", "sample", "people", "prints", "done"} /\ op.at # "done"
    BY DEF OnTheWay, Merging, Unmerging, Removing, Moving, Sampling
  <1>4. TypeOK' /\ IdsUsed'
    BY <1>1, <1>2 DEF Basics, TypeOK, IdsUsed
  <1>5. StackShape' /\ Counts'
    BY <1>2 DEF Basics, TypeOK, StackShape, Entry, Counts
  <1>6. PeopleStore' /\ PrintsStore'
    BY <1>1, <1>2, <1>3 DEF Basics, PeopleStore, PrintsStore
  <1>7. StillFresh'
    <2>1. op.at = "sample" => op.kind = "none"
      BY DEF Basics, Shape
    <2>2. op'.kind # "sampleRemoved" => op.at = "prints" /\ op.kind # "sampleRemoved"
      BY <2>1
    <2> QED BY <1>1, <1>2, <1>3, <2>2 DEF Basics, StillFresh, Undisturbed
  <1>8. Unheard'
    BY <1>2, <1>3 DEF Basics, Unheard, Made, Mentions
  <1> QED BY <1>4, <1>5, <1>6, <1>7, <1>8 DEF Basics

LEMMA BegunResult ==
  ASSUME Basics, \/ UNCHANGED begun
                 \/ begun < MaxBegun /\ begun' = begun + 1
  PROVE  begun' \in 0 .. MaxBegun
  BY PeopleAssumption DEF Basics, TypeOK

LEMMA StartMergeStep == ASSUME Basics, StartMerge PROVE Basics'
  <1>1. PICK keep \in pMem, drop \in pMem : op' =
          [op EXCEPT !.at = "contains", !.kind = "merged", !.person = keep, !.other = drop]
    BY DEF StartMerge
  <1>2. op \in Operations /\ keep \in used /\ drop \in used /\ keep \in Persons /\ drop \in Persons
        /\ op.at = "prints" /\ op.kind = "none" /\ ~op.new /\ op.base \in Triples
    BY DEF Basics, TypeOK, IdsUsed, Shape, StartMerge, Start, Reloaded
  <1>3. /\ op' \in Operations /\ op'.at = "contains" /\ op'.kind = "merged" /\ op'.person = keep
        /\ op'.other = drop /\ op'.new = op.new /\ op'.base = op.base /\ op'.count = op.count
    BY <1>1, <1>2 DEF Operations, Places
  <1>4. Shape' /\ ~Made' /\ op'.at \in OnTheWay
    BY <1>2, <1>3 DEF Shape, Made, OnTheWay, Merging, Unmerging, Removing, Moving, Sampling, Starting, StartMerge,
        Start, Reloaded
  <1>5. begun' \in 0 .. MaxBegun
    BY BegunResult DEF StartMerge, Start
  <1> QED BY <1>2, <1>3, <1>4, <1>5, SetOutStep DEF StartMerge, Start, Reloaded

LEMMA StartRemoveStep == ASSUME Basics, StartRemove PROVE Basics'
  <1>1. PICK person \in pMem, at \in {"anonymous", "delete"} : op' =
          [op EXCEPT !.at = at, !.kind = "removed", !.person = person]
    BY DEF StartRemove
  <1>2. op \in Operations /\ person \in used /\ person \in Persons
        /\ op.at = "prints" /\ op.kind = "none" /\ ~op.new /\ op.other = Nobody /\ op.base \in Triples
    BY DEF Basics, TypeOK, IdsUsed, Shape, StartRemove, Start, Reloaded
  <1>3. /\ op' \in Operations /\ op'.at = at /\ op'.kind = "removed" /\ op'.person = person
        /\ op'.other = Nobody /\ op'.new = op.new /\ op'.base = op.base /\ op'.count = op.count
    BY <1>1, <1>2 DEF Operations, Places
  <1>4. Shape' /\ op'.at \in OnTheWay
    BY <1>2, <1>3 DEF Shape, OnTheWay, Merging, Unmerging, Removing, Moving, Sampling, Starting, StartRemove,
        Start, Reloaded
  <1>5. begun' \in 0 .. MaxBegun
    BY BegunResult DEF StartRemove, Start
  <1> QED BY <1>2, <1>3, <1>4, <1>5, SetOutStep DEF StartRemove, Start, Reloaded

LEMMA StartMoveStep == ASSUME Basics, StartMove PROVE Basics'
  <1>1. PICK s \in Samples :
          /\ vMem'[s] # Nobody
          /\ \/ \E to \in pMem \ {vMem'[s]} :
                op' = [op EXCEPT !.at = "move", !.kind = "moved", !.person = vMem'[s],
                                 !.other = to, !.samples = {s}]
             \/ op' = [op EXCEPT !.at = "make", !.kind = "moved", !.person = vMem'[s],
                                 !.new = TRUE, !.samples = {s}]
    BY DEF StartMove
  <1>2. op \in Operations /\ op.at = "prints" /\ op.kind = "none" /\ ~op.new /\ op.other = Nobody
        /\ op.base \in Triples
    BY DEF Basics, TypeOK, Shape, StartMove, Start, Reloaded
  <1>3. vMem'[s] \in used /\ vMem'[s] \in Persons /\ pMem \subseteq used /\ used \subseteq Persons
    BY <1>1, LoadPrintsResult DEF Basics, TypeOK, IdsUsed, StartMove, Start, Reloaded
  <1>4. /\ op' \in Operations /\ op'.kind = "moved" /\ op'.person \in used
        /\ op'.base = op.base /\ op'.count = op.count
        /\ \/ op'.at = "move" /\ op'.new = FALSE /\ op'.other \in used
           \/ op'.at = "make" /\ op'.new = TRUE /\ op'.other = Nobody
    <2>1. CASE op' = [op EXCEPT !.at = "make", !.kind = "moved", !.person = vMem'[s],
                                !.new = TRUE, !.samples = {s}]
      BY <1>1, <1>2, <1>3, <2>1 DEF Operations, Places
    <2>2. CASE \E to \in pMem \ {vMem'[s]} :
                op' = [op EXCEPT !.at = "move", !.kind = "moved", !.person = vMem'[s],
                                 !.other = to, !.samples = {s}]
      <3>1. PICK to \in pMem :
                op' = [op EXCEPT !.at = "move", !.kind = "moved", !.person = vMem'[s],
                                 !.other = to, !.samples = {s}]
        BY <2>2
      <3>2. to \in used /\ to \in Persons
        BY <1>3
      <3>3. op' \in Operations
        BY <1>2, <1>3, <3>1, <3>2 DEF Operations, Places
      <3> QED BY <1>2, <1>3, <3>1, <3>2, <3>3 DEF Operations
    <2> QED BY <1>1, <2>1, <2>2
  <1>5. Shape' /\ op'.at \in OnTheWay
    BY <1>2, <1>4 DEF Shape, OnTheWay, Merging, Unmerging, Removing, Moving, Sampling, Starting, StartMove,
        Start, Reloaded
  <1>6. begun' \in 0 .. MaxBegun
    BY BegunResult DEF StartMove, Start
  <1>7. Made' => op'.other = Nobody
    BY <1>4 DEF Made
  <1> QED BY <1>2, <1>4, <1>5, <1>6, <1>7, SetOutStep DEF StartMove, Start, Reloaded

LEMMA StartRemoveSampleStep == ASSUME Basics, StartRemoveSample PROVE Basics'
  <1>1. CASE op' = Idle /\ UNCHANGED begun
    BY <1>1, ToIdleStep DEF StartRemoveSample, rest
  <1>2. CASE begun < MaxBegun /\ begun' = begun + 1
             /\ \E s \in Samples :
                /\ vMem'[s] # Nobody
                /\ op' = [op EXCEPT !.at = "removeSample", !.kind = "sampleRemoved",
                                    !.person = vMem'[s], !.samples = {s}]
    <2>1. PICK s \in Samples :
                /\ vMem'[s] # Nobody
                /\ op' = [op EXCEPT !.at = "removeSample", !.kind = "sampleRemoved",
                                    !.person = vMem'[s], !.samples = {s}]
      BY <1>2
    <2>2. op \in Operations /\ op.at = "sample" /\ op.kind = "none" /\ ~op.new /\ op.other = Nobody
          /\ op.base \in Triples
      BY DEF Basics, TypeOK, Shape, StartRemoveSample
    <2>3. vMem'[s] \in used /\ vMem'[s] \in Persons
      BY <2>1, LoadPrintsResult DEF Basics, TypeOK, IdsUsed, StartRemoveSample
    <2>4. /\ op' \in Operations /\ op'.at = "removeSample" /\ op'.kind = "sampleRemoved" /\ op'.person \in used
          /\ op'.base = op.base /\ op'.count = op.count /\ op'.new = op.new /\ op'.other = Nobody
      BY <2>1, <2>2, <2>3 DEF Operations, Places
    <2>5. Shape' /\ op'.at \in OnTheWay /\ ~Made'
      BY <2>2, <2>4 DEF Shape, Made, OnTheWay, Merging, Unmerging, Removing, Moving, Sampling, Starting,
          StartRemoveSample
    <2>6. begun' \in 0 .. MaxBegun
      BY <1>2, BegunResult
    <2> QED BY <2>2, <2>4, <2>5, <2>6, SetOutStep DEF StartRemoveSample
  <1> QED BY <1>1, <1>2 DEF StartRemoveSample

LEMMA StartUndoStep == ASSUME Basics, UndoMerge \/ UndoMove \/ UndoRemoveSample PROVE Basics'
  <1>1. PICK kind \in Undoable, at \in {"restoreDrop", "moveBack", "addBack"} :
          /\ Goto(at) /\ op.at = "prints" /\ op.kind = kind /\ V!Load
          /\ UNCHANGED <<people, ref, undo, mishaps, used, others, foreign, begun>>
          /\ at = IF kind = "merged" THEN "restoreDrop" ELSE IF kind = "moved" THEN "moveBack" ELSE "addBack"
    BY DEF UndoMerge, UndoMove, UndoRemoveSample, StartUndo, Reloaded, Undoable
  <1>2. op \in Operations /\ Entry(op)
    BY <1>1 DEF Basics, TypeOK, Shape, Undoable
  <1>3. SameOp /\ op'.at = at
    BY <1>1, <1>2, GotoResult DEF Places
  <1>4. Shape' /\ op'.at \in OnTheWay
    BY <1>1, <1>2, <1>3 DEF Basics, Shape, SameOp, Entry, Undoable, OnTheWay, Merging, Unmerging, Removing, Moving,
        Sampling, Starting
  <1>5. begun' \in 0 .. MaxBegun
    BY <1>1, BegunResult
  <1>6. op'.person \in used \union {Nobody} /\ op'.other \in used \union {Nobody} /\ (Made' => Made)
    BY <1>3 DEF Basics, IdsUsed, SameOp, Made
  <1> QED BY <1>1, <1>3, <1>4, <1>5, <1>6, SetOutStep DEF SameOp

----------------------------------------------------------------------------
(* The other process *)

LEMMA OtherResult ==
  ASSUME Basics, NEW ids \in SUBSET used, Other(ids)
  PROVE  /\ others' = others + 1 /\ others' \in 0 .. MaxOthers /\ foreign' = foreign \union ids
         /\ foreign' \subseteq used
         /\ UNCHANGED <<op, undo, slip, faults, begun>>
  BY PeopleAssumption DEF Basics, TypeOK, IdsUsed, Other, mishaps

\* Nobody looks for a change of the other process before the next call.
LEMMA OtherStep ==
  ASSUME Basics, NEW ids \in SUBSET used, Other(ids), used \subseteq used', used' \subseteq Persons,
         ref' \in {ref, Nobody}, pDisk' \subseteq used', vDisk' \in Owners,
         \A s \in Samples : vDisk'[s] \in used \union {Nobody},
         (\E new : P!Overwritten(new)) \/ UNCHANGED people,
         (\E new : V!Overwritten(new)) \/ UNCHANGED prints,
         op.at \in {"anonymous", "make"} => used' = used
  PROVE  Basics'
  <1>1. UNCHANGED <<pMem, pLoading, pReadable, pUnsaved>> /\ (pFresh' = FALSE \/ UNCHANGED <<pFresh, pDisk>>)
    BY DEF P!Overwritten, people
  <1>2. UNCHANGED <<vMem, vLoading, vReadable, vUnsaved>> /\ (vFresh' = FALSE \/ UNCHANGED <<vFresh, vDisk>>)
    BY DEF V!Overwritten, prints
  <1>3. /\ others' = others + 1 /\ others' \in 0 .. MaxOthers /\ foreign' = foreign \union ids
        /\ foreign' \subseteq used
        /\ UNCHANGED <<op, undo, slip, faults, begun>>
    BY OtherResult
  <1>4. others \in Nat /\ op.count \in Nat /\ \A i \in 1 .. Len(undo) : undo[i].count \in Nat
    <2>1. \A e \in Operations : e.count \in Nat
      BY DEF Operations
    <2>2. op \in Operations /\ others \in Nat /\ \A i \in 1 .. Len(undo) : undo[i] \in Operations
      BY DEF Basics, TypeOK
    <2> QED BY <2>1, <2>2
  <1>5. pFresh' \in BOOLEAN /\ vFresh' \in BOOLEAN
    BY <1>1, <1>2 DEF Basics, TypeOK
  <1>6. TypeOK'
    BY <1>1, <1>2, <1>3, <1>5 DEF Basics, TypeOK
  <1>7. IdsUsed'
    BY <1>1, <1>2, <1>3 DEF Basics, TypeOK, IdsUsed
  <1>8. Shape' /\ StackShape'
    BY <1>3 DEF Basics, Shape, StackShape, Entry
  <1>9. PeopleStore' /\ PrintsStore'
    BY <1>1, <1>2, <1>3 DEF Basics, PeopleStore, PrintsStore
  <1>10. Counts' /\ StillFresh'
    BY <1>3, <1>4 DEF Basics, Counts, StillFresh, Undisturbed
  <1>11. Unheard'
    BY <1>3 DEF Basics, Unheard, Made
  <1> QED BY <1>6, <1>7, <1>8, <1>9, <1>10, <1>11 DEF Basics

LEMMA OtherCreatesStep == ASSUME Basics, OtherCreates PROVE Basics'
  <1>1. PICK id \in Persons \ used : P!Overwritten(pDisk \union {id}) /\ used' = used \union {id}
    BY DEF OtherCreates
  <1>2. pDisk' = pDisk \union {id} /\ vDisk' = vDisk
    BY <1>1 DEF P!Overwritten, OtherCreates, prints
  <1>3. pDisk' \subseteq used' /\ vDisk' \in Owners /\ \A s \in Samples : vDisk'[s] \in used \union {Nobody}
    BY <1>1, <1>2 DEF Basics, TypeOK, IdsUsed
  <1>4. {} \in SUBSET used /\ used \subseteq used' /\ used' \subseteq Persons
    BY <1>1 DEF Basics, TypeOK
  <1> QED BY <1>1, <1>3, <1>4, OtherStep DEF OtherCreates

LEMMA OtherRemovesStep == ASSUME Basics, OtherRemoves PROVE Basics'
  <1>1. PICK id \in pDisk :
        /\ Other({id}) /\ P!Overwritten(pDisk \ {id})
        /\ IF SamplesOf(vDisk, id) = {} THEN UNCHANGED prints
           ELSE V!Overwritten(Given(vDisk, SamplesOf(vDisk, id), Nobody))
        /\ ref' = IF ref = id THEN Nobody ELSE ref
        /\ UNCHANGED used
    BY DEF OtherRemoves
  <1>2. pDisk' = pDisk \ {id} /\ pDisk' \subseteq used'
    BY <1>1 DEF P!Overwritten, Basics, TypeOK
  <1>3. vDisk \in Owners /\ vDisk' \in {vDisk, Given(vDisk, SamplesOf(vDisk, id), Nobody)}
    BY <1>1 DEF V!Overwritten, prints, Basics, TypeOK
  <1>4. vDisk' \in Owners /\ \A s \in Samples : vDisk'[s] \in used \union {Nobody}
    BY <1>3, GivenOwners DEF Basics, IdsUsed
  <1>5. {id} \in SUBSET used /\ used' \subseteq Persons
    BY <1>1 DEF Basics, TypeOK
  <1> QED BY <1>1, <1>2, <1>4, <1>5, OtherStep

LEMMA OtherAddsSampleStep == ASSUME Basics, OtherAddsSample PROVE Basics'
  <1>1. PICK id \in pDisk, s \in SamplesOf(vDisk, Nobody) :
        /\ Other({id}) /\ V!Overwritten(Given(vDisk, {s}, id))
        /\ UNCHANGED <<people, ref, used>>
    BY DEF OtherAddsSample
  <1>2. vDisk \in Owners /\ vDisk' = Given(vDisk, {s}, id)
    BY <1>1 DEF V!Overwritten, Basics, TypeOK
  <1>3. {id} \in SUBSET used /\ used' \subseteq Persons /\ id \in Persons
    BY <1>1 DEF Basics, TypeOK
  <1>4. vDisk' \in Owners /\ \A t \in Samples : vDisk'[t] \in used \union {Nobody}
    BY <1>2, <1>3, GivenOwners DEF Basics, IdsUsed
  <1>5. pDisk' \subseteq used'
    BY <1>1 DEF people, Basics, TypeOK
  <1> QED BY <1>1, <1>3, <1>4, <1>5, OtherStep

\* A file that cannot be opened counts as a call that failed unseen.
LEMMA FileStep == ASSUME Basics, BarFile \/ FreeFile PROVE Basics' /\ slip'
  <1>1. UNCHANGED <<pDisk, pMem, pFresh, pLoading, pUnsaved, vDisk, vMem, vFresh, vLoading, vUnsaved,
                    ref, op, undo, used, begun, others, foreign>>
    BY DEF BarFile, FreeFile, people, prints, rest, P!Bar, P!Free, V!Bar, V!Free
  <1>2. pReadable' \in BOOLEAN /\ vReadable' \in BOOLEAN
    BY DEF BarFile, FreeFile, people, prints, P!Bar, P!Free, V!Bar, V!Free, Basics, TypeOK
  <1>3. slip' /\ slip' \in BOOLEAN /\ faults' \in 0 .. MaxFaults
    <2>1. CASE BarFile
      BY <2>1, FaultResult DEF BarFile, Basics
    <2>2. CASE FreeFile
      <3>1. ~pReadable \/ ~vReadable
        BY <2>2 DEF FreeFile, P!Free, V!Free
      <3> QED BY <2>2, <3>1 DEF FreeFile, mishaps, Basics, TypeOK, PeopleStore, PrintsStore
    <2> QED BY <2>1, <2>2
  <1>4. TypeOK' /\ IdsUsed' /\ StackShape'
    BY <1>1, <1>2, <1>3 DEF Basics, TypeOK, IdsUsed, StackShape, Entry
  <1>5. Shape'
    BY <1>1 DEF Basics, Shape, Entry
  <1> QED
    BY <1>1, <1>3, <1>4, <1>5 DEF Basics, PeopleStore, PrintsStore, Counts, StillFresh, Undisturbed, Unheard, Made

----------------------------------------------------------------------------

LEMMA InitBasics == ASSUME Init PROVE Basics
  <1>1. /\ Idle \in Operations /\ Idle.at = "idle" /\ Idle.kind = "none" /\ Idle.person = Nobody
        /\ Idle.other = Nobody /\ Idle.new = FALSE /\ Idle.base = <<>> /\ Idle.count = 0
    BY IdleResult
  <1>2. /\ undo \in Seq(Operations) /\ Len(undo) = 0 /\ MaxUndo \in Nat /\ MaxOthers \in Nat /\ MaxBegun \in Nat
        /\ MaxFaults \in Nat
    BY PeopleAssumption DEF Init
  <1>3. FirstOwner \in Owners /\ \A s \in Samples : FirstOwner[s] \in FirstPersons
    BY PeopleAssumption DEF Owners
  <1>4. TypeOK
    <2>1. 0 \in 0 .. MaxFaults /\ 0 \in 0 .. MaxBegun /\ 0 \in 0 .. MaxOthers /\ 0 <= MaxUndo
      BY <1>2
    <2>2. FirstPersons \subseteq Persons
      BY PeopleAssumption
    <2> QED BY <1>1, <1>2, <1>3, <2>1, <2>2 DEF Init, TypeOK
  <1>5. IdsUsed
    BY <1>1, <1>3 DEF Init, IdsUsed
  <1>6. Shape
    BY <1>1 DEF Init, Shape, Merging, Unmerging, Removing, Moving, Sampling
  <1>7. StackShape /\ Counts /\ Unheard
    BY <1>1, <1>2 DEF Init, StackShape, Counts, Unheard, Made
  <1>8. PeopleStore /\ PrintsStore /\ StillFresh
    BY <1>1 DEF Init, PeopleStore, PrintsStore, StillFresh
  <1> QED BY <1>4, <1>5, <1>6, <1>7, <1>8 DEF Basics

LEMMA StutterStep == ASSUME Basics, UNCHANGED vars PROVE Basics'
  <1>1. UNCHANGED <<pDisk, pMem, pFresh, pLoading, pReadable, pUnsaved,
                    vDisk, vMem, vFresh, vLoading, vReadable, vUnsaved,
                    ref, op, undo, used, slip, begun, faults, others, foreign>>
    BY DEF vars, people, prints, mishaps, rest
  <1>2. TypeOK' /\ IdsUsed' /\ StackShape'
    BY <1>1 DEF Basics, TypeOK, IdsUsed, StackShape, Entry
  <1>3. Shape'
    BY <1>1 DEF Basics, Shape, Entry
  <1> QED BY <1>1, <1>2, <1>3 DEF Basics, PeopleStore, PrintsStore, Counts, StillFresh, Undisturbed, Unheard, Made

LEMMA NextBasics == ASSUME Basics, [Next]_vars PROVE Basics'
  BY BeginStep, BeginUndoStep, ReloadPeopleStep, ReloadOnlyStep, FinishStep, StartMergeStep, BothKnownStep,
     FoldRecordStep, FoldPrintsStep, FoldRefsStep, StartUndoStep, RestoresStep, RefreshPrintsStep,
     UnfoldPrintsStep, UnfoldRefsStep, StartRemoveStep, MakeStep, KeepPrintsStep, DeleteRecordStep,
     DeletePrintsStep, DeleteRefsStep, GivePrintsBackStep, UnmakeStep, StartMoveStep, MoveSampleStep,
     MoveBackStep, DropUnusedStep, BeginRemoveSampleStep, StartRemoveSampleStep, RemoveSampleStep,
     AddBackStep, OtherCreatesStep, OtherRemovesStep, OtherAddsSampleStep, FileStep, StutterStep DEF Next

LEMMA BasicsHold == Spec => []Basics
  BY InitBasics, NextBasics, PTL DEF Spec

\* The stores, the operation and the undo stack keep their types.
THEOREM TypeCorrect == Spec => []TypeOK
  <1>1. Basics => TypeOK
    BY DEF Basics
  <1> QED BY <1>1, BasicsHold, PTL

----------------------------------------------------------------------------
(* No update of people.json is lost *)

SharedStep == Shared!Next \/ UNCHANGED Shared!shared

LEMMA WritersResult ==
  /\ OfWriters(pMem, pDisk)' = OfWriters(pMem', pDisk')
  /\ OfWriters(pUnsaved, {})' = OfWriters(pUnsaved', {})
  /\ OfWriters(pReadable, TRUE)' = OfWriters(pReadable', TRUE)
  /\ OfWriters(Blind, FALSE)' = OfWriters(Blind', FALSE)
  /\ \A a, b : OfWriters(a, b)["service"] = a /\ OfWriters(a, b)["other"] = b
  /\ \A a, b, c : /\ [OfWriters(a, b) EXCEPT !["service"] = c] = OfWriters(c, b)
                  /\ [OfWriters(a, b) EXCEPT !["other"] = c] = OfWriters(a, c)
  BY DEF OfWriters

LEMMA StutterShared ==
  ASSUME UNCHANGED <<pDisk, pMem, pReadable, pUnsaved>>, Blind' = Blind
  PROVE  SharedStep
  BY WritersResult DEF SharedStep, Shared!shared

LEMMA ReadShared ==
  ASSUME pReadable, pMem' = pDisk, pUnsaved' = {}, Blind' = FALSE, UNCHANGED <<pDisk, pReadable>>
  PROVE  SharedStep
  <1>1. Shared!Read("service")
    <2>1. OfWriters(pReadable, TRUE)["service"]
      BY WritersResult
    <2>2. OfWriters(pMem, pDisk)' = [OfWriters(pMem, pDisk) EXCEPT !["service"] = pDisk]
      BY WritersResult
    <2>3. OfWriters(pUnsaved, {})' = [OfWriters(pUnsaved, {}) EXCEPT !["service"] = {}]
      BY WritersResult
    <2>4. OfWriters(Blind, FALSE)' = [OfWriters(Blind, FALSE) EXCEPT !["service"] = FALSE]
      BY DEF OfWriters
    <2>5. UNCHANGED <<pDisk, OfWriters(pReadable, TRUE)>>
      BY WritersResult
    <2> QED BY <2>1, <2>2, <2>3, <2>4, <2>5 DEF Shared!Read
  <1> QED BY <1>1 DEF SharedStep, Shared!Next

\* A write of the store is one change of the file, or, if it is blind, of what it remembers.
LEMMA WriteShared ==
  ASSUME Basics, ~pLoading, NEW id \in Persons, NEW new \in SUBSET Persons, new \ {id} = P!Current \ {id},
         P!Rewrite(new, {id}, TRUE)
  PROVE  SharedStep
  <1>1. /\ pDisk' = new /\ pMem' = new /\ pUnsaved' = {} /\ UNCHANGED <<pReadable, pLoading>>
        /\ pReadable \in BOOLEAN /\ pFresh \in BOOLEAN
    BY DEF P!Rewrite, Basics, TypeOK
  <1>2. Blind' = ~pReadable
    BY <1>1 DEF Blind
  <1>3. \/ pDisk \ (pUnsaved \union {id}) = new \ (pUnsaved \union {id})
        \/ Blind /\ pMem \ {id} = new \ {id}
    BY <1>1 DEF P!Current, P!Stays, Blind
  <1>4. Shared!Write("service")
    <2>1. \E i \in Persons :
             \/ Shared!SameBut(OfWriters(pUnsaved, {})["service"] \union {i}, pDisk, pDisk')
             \/ OfWriters(Blind, FALSE)["service"] /\ Shared!SameBut({i}, OfWriters(pMem, pDisk)["service"], pDisk')
      BY <1>1, <1>3, WritersResult DEF Shared!SameBut
    <2>2. OfWriters(pMem, pDisk)' \in [{"service", "other"} -> SUBSET Persons]
      BY <1>1 DEF OfWriters
    <2>3. \A v \in {"service", "other"} :
             OfWriters(pMem, pDisk)'[v] \in {OfWriters(pMem, pDisk)[v], pDisk'}
      BY <1>1, WritersResult
    <2>4. OfWriters(Blind, FALSE)' = [v \in {"service", "other"} |-> ~OfWriters(pReadable, TRUE)[v]]
      BY <1>2 DEF OfWriters
    <2>5. OfWriters(pUnsaved, {})' = [OfWriters(pUnsaved, {}) EXCEPT !["service"] = {}]
      BY <1>1, WritersResult
    <2>6. OfWriters(pMem, pDisk)'["service"] = pDisk' /\ UNCHANGED OfWriters(pReadable, TRUE)
      BY <1>1, WritersResult
    <2> QED BY <1>1, <2>1, <2>2, <2>3, <2>4, <2>5, <2>6 DEF Shared!Write
  <1> QED BY <1>4 DEF SharedStep, Shared!Next

LEMMA FailToWriteShared ==
  ASSUME Basics, ~pLoading, NEW id \in Persons, NEW new \in SUBSET Persons, new \ {id} = P!Current \ {id},
         P!Rewrite(new, {id}, FALSE)
  PROVE  SharedStep
  <1>1. /\ pMem' = new /\ pUnsaved' = P!Carried \union {id} /\ pFresh' = TRUE
        /\ UNCHANGED <<pDisk, pReadable, pLoading>>
        /\ pReadable \in BOOLEAN /\ pFresh \in BOOLEAN /\ pDisk \subseteq Persons
    BY DEF P!Rewrite, Basics, TypeOK
  <1>2. \/ pUnsaved' = pUnsaved \union {id} /\ pMem \ {id} = pMem' \ {id}
        \/ pUnsaved' = {id} /\ pReadable /\ pDisk \ {id} = pMem' \ {id}
    BY <1>1 DEF P!Current, P!Carried, P!Stays
  <1>3. Blind' \in {Blind, FALSE}
    <2>1. CASE ~pReadable
      BY <1>1, <2>1 DEF Blind
    <2>2. CASE pReadable /\ pFresh
      <3>1. pMem \ {id} = pMem' \ {id} /\ pUnsaved' = pUnsaved \union {id}
        BY <1>1, <2>2 DEF P!Current, P!Carried, P!Stays
      <3>2. pMem \ pUnsaved = pDisk \ pUnsaved => pMem' \ pUnsaved' = pDisk' \ pUnsaved'
        BY <1>1, <3>1
      <3> QED BY <1>1, <2>2, <3>2 DEF Blind
    <2>3. CASE pReadable /\ ~pFresh
      <3>1. pDisk \ {id} = pMem' \ {id} /\ pUnsaved' = {id}
        BY <1>1, <2>3 DEF P!Current, P!Carried, P!Stays
      <3> QED BY <1>1, <2>3, <3>1 DEF Blind
    <2> QED BY <1>1, <2>1, <2>2, <2>3
  <1>4. Shared!FailToWrite("service")
    <2>1. \/ /\ OfWriters(pUnsaved, {})' = [OfWriters(pUnsaved, {}) EXCEPT !["service"] = @ \union {id}]
             /\ Shared!SameBut({id}, OfWriters(pMem, pDisk)["service"], OfWriters(pMem, pDisk)'["service"])
          \/ /\ OfWriters(pUnsaved, {})' = [OfWriters(pUnsaved, {}) EXCEPT !["service"] = {id}]
             /\ OfWriters(pReadable, TRUE)["service"]
             /\ Shared!SameBut({id}, pDisk, OfWriters(pMem, pDisk)'["service"])
      <3>1. CASE pUnsaved' = pUnsaved \union {id} /\ pMem \ {id} = pMem' \ {id}
        <4>1. OfWriters(pUnsaved, {})' = [OfWriters(pUnsaved, {}) EXCEPT !["service"] = pUnsaved \union {id}]
              /\ OfWriters(pUnsaved, {})["service"] = pUnsaved
          BY <3>1 DEF OfWriters
        <4>2. Shared!SameBut({id}, OfWriters(pMem, pDisk)["service"], OfWriters(pMem, pDisk)'["service"])
          BY <3>1, WritersResult DEF Shared!SameBut
        <4> QED BY <4>1, <4>2
      <3>2. CASE pUnsaved' = {id} /\ pReadable /\ pDisk \ {id} = pMem' \ {id}
        <4>1. OfWriters(pUnsaved, {})' = [OfWriters(pUnsaved, {}) EXCEPT !["service"] = {id}]
          BY <3>2 DEF OfWriters
        <4>2. OfWriters(pReadable, TRUE)["service"]
              /\ Shared!SameBut({id}, pDisk, OfWriters(pMem, pDisk)'["service"])
          BY <3>2, WritersResult DEF Shared!SameBut
        <4> QED BY <4>1, <4>2
      <3> QED BY <1>2, <3>1, <3>2
    <2>2. OfWriters(pMem, pDisk)' \in [{"service", "other"} -> SUBSET Persons]
      BY <1>1 DEF OfWriters
    <2>3. \A v \in {"service", "other"} \ {"service"} : OfWriters(pMem, pDisk)'[v] = OfWriters(pMem, pDisk)[v]
      BY <1>1, WritersResult
    <2>4. OfWriters(Blind, FALSE)' \in
             {OfWriters(Blind, FALSE), [OfWriters(Blind, FALSE) EXCEPT !["service"] = FALSE]}
      BY <1>3, WritersResult
    <2>5. UNCHANGED <<pDisk, OfWriters(pReadable, TRUE)>>
      BY <1>1, WritersResult
    <2> QED BY <2>1, <2>2, <2>3, <2>4, <2>5 DEF Shared!FailToWrite
  <1> QED BY <1>4 DEF SharedStep, Shared!Next

\* A call of the store changes one record, fails to, or reads the file.
LEMMA CallShared ==
  ASSUME Basics, ~pLoading, used' \subseteq Persons, used \subseteq used', PeopleCall
  PROVE  SharedStep
  <1>1. pReadable \in BOOLEAN /\ pFresh \in BOOLEAN /\ pMem \subseteq Persons /\ pDisk \subseteq Persons
    BY DEF Basics, TypeOK
  <1>2. CASE UNCHANGED people
    BY <1>2, StutterShared DEF people, Blind
  <1>3. CASE P!Find /\ P!Stays
    <2>1. UNCHANGED <<pDisk, pMem, pReadable, pUnsaved, pLoading>> /\ pFresh' = TRUE
      BY <1>3 DEF P!Find, P!Current, P!Carried
    <2>2. Blind' = Blind
      BY <1>1, <1>3, <2>1 DEF Blind, P!Stays
    <2> QED BY <2>1, <2>2, StutterShared
  <1>4. CASE P!Find /\ ~P!Stays
    <2>1. pReadable /\ pMem' = pDisk /\ pUnsaved' = {} /\ UNCHANGED <<pDisk, pReadable>>
      BY <1>4 DEF P!Find, P!Current, P!Carried, P!Stays
    <2> QED BY <2>1, ReadShared DEF Blind
  <1>5. CASE \E id \in used' : ChangePeople(P!Current \union {id}, {id}) \/ ChangePeople(P!Current \ {id}, {id})
    <2>1. PICK id \in used' : \E new \in {P!Current \union {id}, P!Current \ {id}} : ChangePeople(new, {id})
      BY <1>5
    <2> PICK new \in {P!Current \union {id}, P!Current \ {id}} : ChangePeople(new, {id})
      BY <2>1
    <2>2. id \in Persons /\ new \in SUBSET Persons /\ new \ {id} = P!Current \ {id}
      BY <1>1, <2>1 DEF P!Current
    <2> QED BY <2>1, <2>2, WriteShared, FailToWriteShared DEF ChangePeople
  <1> QED BY <1>2, <1>3, <1>4, <1>5 DEF PeopleCall

\* load() without the lock: it reads the file if its stamp was another one and it can be opened.
LEMMA LoadShared ==
  ASSUME Basics, (P!Stamp /\ ~pLoading) \/ P!Load
  PROVE  SharedStep
  <1>1. pReadable \in BOOLEAN /\ pFresh \in BOOLEAN /\ pLoading \in BOOLEAN
    BY DEF Basics, TypeOK
  <1>2. CASE P!Stamp /\ ~pLoading
    BY <1>1, <1>2, StutterShared DEF P!Stamp, Blind
  <1>3. CASE P!Load /\ pLoading /\ pReadable
    BY <1>3, ReadShared DEF P!Load, Blind
  <1>4. CASE P!Load /\ ~(pLoading /\ pReadable)
    BY <1>1, <1>4, StutterShared DEF P!Load, Blind
  <1> QED BY <1>2, <1>3, <1>4

LEMMA OverwrittenShared ==
  ASSUME Basics, NEW id \in Persons, NEW new \in {pDisk \union {id}, pDisk \ {id}}, P!Overwritten(new)
  PROVE  SharedStep
  <1>1. /\ pDisk' = new /\ UNCHANGED <<pMem, pReadable, pUnsaved>> /\ pDisk' \subseteq Persons
        /\ pMem' \subseteq Persons /\ Blind' = ~pReadable
    BY DEF P!Overwritten, Basics, TypeOK, Blind
  <1>2. Shared!Write("other")
    <2>1. \E i \in Persons : Shared!SameBut(OfWriters(pUnsaved, {})["other"] \union {i}, pDisk, pDisk')
      <3>1. Shared!SameBut({} \union {id}, pDisk, pDisk')
        BY <1>1 DEF Shared!SameBut
      <3> QED BY <3>1, WritersResult
    <2>2. OfWriters(pMem, pDisk)' \in [{"service", "other"} -> SUBSET Persons]
      BY <1>1 DEF OfWriters
    <2>3. \A v \in {"service", "other"} :
             OfWriters(pMem, pDisk)'[v] \in {OfWriters(pMem, pDisk)[v], pDisk'}
      BY <1>1, WritersResult
    <2>4. OfWriters(Blind, FALSE)' = [v \in {"service", "other"} |-> ~OfWriters(pReadable, TRUE)[v]]
      BY <1>1 DEF OfWriters
    <2>5. OfWriters(pUnsaved, {})' = [OfWriters(pUnsaved, {}) EXCEPT !["other"] = {}]
      BY <1>1, WritersResult
    <2>6. OfWriters(pMem, pDisk)'["other"] = pDisk' /\ UNCHANGED OfWriters(pReadable, TRUE)
      BY <1>1, WritersResult
    <2> QED BY <1>1, <2>1, <2>2, <2>3, <2>4, <2>5, <2>6 DEF Shared!Write
  <1> QED BY <1>2 DEF SharedStep, Shared!Next

LEMMA FileShared == ASSUME Basics, P!Bar \/ P!Free PROVE SharedStep
  <1>1. pReadable \in BOOLEAN
    BY DEF Basics, TypeOK
  <1>2. CASE P!Bar
    <2>1. UNCHANGED <<pDisk, pMem, pUnsaved>> /\ pReadable' = FALSE /\ Blind' = TRUE
      BY <1>2 DEF P!Bar, Blind
    <2>2. /\ OfWriters(pReadable, TRUE)' = [OfWriters(pReadable, TRUE) EXCEPT !["service"] = FALSE]
          /\ OfWriters(Blind, FALSE)' = [OfWriters(Blind, FALSE) EXCEPT !["service"] = TRUE]
      BY <2>1 DEF OfWriters
    <2>3. UNCHANGED <<pDisk, OfWriters(pMem, pDisk), OfWriters(pUnsaved, {})>>
      BY <2>1, WritersResult
    <2>4. Shared!Bar("service")
      BY <2>2, <2>3 DEF Shared!Bar
    <2> QED BY <2>4 DEF SharedStep, Shared!Next
  <1>3. CASE P!Free
    <2>1. UNCHANGED <<pDisk, pMem, pUnsaved>> /\ pReadable' = TRUE /\ Blind' \in {Blind, FALSE}
      BY <1>3 DEF P!Free, Blind
    <2>2. /\ OfWriters(pReadable, TRUE)' = [OfWriters(pReadable, TRUE) EXCEPT !["service"] = TRUE]
          /\ OfWriters(Blind, FALSE)' \in
                {OfWriters(Blind, FALSE), [OfWriters(Blind, FALSE) EXCEPT !["service"] = FALSE]}
      BY <2>1 DEF OfWriters
    <2>3. UNCHANGED <<pDisk, OfWriters(pMem, pDisk), OfWriters(pUnsaved, {})>>
      BY <2>1, WritersResult
    <2>4. Shared!Free("service")
      BY <2>2, <2>3 DEF Shared!Free
    <2> QED BY <2>4 DEF SharedStep, Shared!Next
  <1> QED BY <1>2, <1>3

\* Every action calls the store once at most.
LEMMA NextPeople ==
  ASSUME Basics, [Next]_vars
  PROVE  \/ UNCHANGED people
         \/ PeopleCall /\ op.at \in OnTheWay
         \/ P!Stamp /\ op.at = "idle"
         \/ P!Load
         \/ (P!Bar \/ P!Free)
         \/ \E id \in Persons : P!Overwritten(pDisk \union {id}) \/ P!Overwritten(pDisk \ {id})
  <1> DEFINE Goal == \/ UNCHANGED people
                     \/ PeopleCall /\ op.at \in OnTheWay
                     \/ P!Stamp /\ op.at = "idle"
                     \/ P!Load
                     \/ (P!Bar \/ P!Free)
                     \/ \E id \in Persons : P!Overwritten(pDisk \union {id}) \/ P!Overwritten(pDisk \ {id})
  <1>1. CASE \/ ReloadOnly \/ Finish \/ StartMerge \/ FoldPrints \/ FoldRefs \/ UndoMerge \/ RefreshPrints
             \/ UnfoldPrints \/ UnfoldRefs \/ StartRemove \/ KeepPrints \/ DeletePrints \/ DeleteRefs
             \/ GivePrintsBack \/ StartMove \/ MoveSample \/ UndoMove \/ MoveBack \/ BeginRemoveSample
             \/ StartRemoveSample \/ RemoveSample \/ UndoRemoveSample \/ AddBack \/ OtherAddsSample \/ UNCHANGED vars
    <2>1. UNCHANGED people
      BY <1>1 DEF ReloadOnly, Finish, StartMerge, FoldPrints, FoldRefs, UndoMerge, RefreshPrints,
          UnfoldPrints, UnfoldRefs, StartRemove, KeepPrints, DeletePrints, DeleteRefs, GivePrintsBack, StartMove,
          MoveSample, UndoMove, MoveBack, BeginRemoveSample, StartRemoveSample, RemoveSample, UndoRemoveSample,
          AddBack, OtherAddsSample, vars, StartUndo, Start, Reloaded, RefusedCall, IgnoredRefusal
    <2> QED BY <2>1
  <1>2. CASE Begin \/ BeginUndo \/ ReloadPeople
    BY <1>2 DEF Begin, BeginUndo, ReloadPeople
  <1>3. CASE OtherCreates \/ OtherRemoves
    BY <1>3 DEF OtherCreates, OtherRemoves, Basics, TypeOK
  <1>4. CASE BothKnown
    BY <1>4, FindCall DEF BothKnown, OnTheWay, Merging
  <1>5. CASE FoldRecord
    <2>1. op.other \in used /\ UNCHANGED used
      BY <1>5 DEF FoldRecord, Basics, Shape, Merging, rest
    <2> QED BY <1>5, <2>1, FindCall, ChangeCall, RefusedCalls DEF FoldRecord, Basics, OnTheWay, Merging
  <1>6. CASE RestoreDrop \/ RestoreKeep
    <2>1. op.other \in used /\ op.person \in used /\ UNCHANGED used
      BY <1>6 DEF RestoreDrop, RestoreKeep, RestoreRecord, Basics, Shape, Unmerging, rest
    <2> QED BY <1>6, <2>1, ChangeCall, RefusedCalls DEF RestoreDrop, RestoreKeep, RestoreRecord, Basics, OnTheWay,
          Unmerging
  <1>7. CASE DeleteRecord
    <2>1. op.person \in used /\ UNCHANGED used
      BY <1>7 DEF DeleteRecord, Basics, Shape, Removing, rest
    <2> QED BY <1>7, <2>1, RemoveCall, RefusedCalls DEF DeleteRecord, OnTheWay, Removing
  <1>8. CASE Unmake \/ DropUnused
    <2>1. op.other \in used /\ UNCHANGED used
      BY <1>8 DEF Unmake, DropUnused, Basics, Shape, rest
    <2> QED BY <1>8, <2>1, RemoveCall, RefusedCalls DEF Unmake, DropUnused, OnTheWay, Moving
  <1>9. CASE MakeAnonymous \/ MakePerson
    <2>1. RefusedCall \/ \E next : Create(next)
      BY <1>9 DEF MakeAnonymous, MakePerson
    <2>2. (\E next : Create(next)) => PeopleCall
      BY DEF Create, PeopleCall
    <2> QED BY <1>9, <2>1, <2>2, RefusedCalls DEF MakeAnonymous, MakePerson, OnTheWay, Removing, Moving
  <1>10. CASE BarFile \/ FreeFile
    BY <1>10 DEF BarFile, FreeFile
  <1> QED BY <1>1, <1>2, <1>3, <1>4, <1>5, <1>6, <1>7, <1>8, <1>9, <1>10 DEF Next

\* Ids are never taken back.
LEMMA UsedGrows ==
  ASSUME Basics, [Next]_vars
  PROVE  used \subseteq used'
  <1>1. CASE UNCHANGED used
    BY <1>1
  <1>2. CASE \E id : used' = used \union {id}
    BY <1>2
  <1> QED BY <1>1, <1>2 DEF Next, rest, vars, Begin, BeginUndo, ReloadPeople, ReloadOnly, Finish, StartMerge, BothKnown,
      FoldRecord, FoldPrints, FoldRefs, UndoMerge, RestoreDrop, RestoreKeep, RestoreRecord, RefreshPrints,
      UnfoldPrints, UnfoldRefs, StartRemove, MakeAnonymous, KeepPrints, DeleteRecord, DeletePrints, DeleteRefs,
      GivePrintsBack, Unmake, StartMove, MakePerson, MoveSample, UndoMove, MoveBack, DropUnused, BeginRemoveSample,
      StartRemoveSample, RemoveSample, UndoRemoveSample, AddBack, OtherCreates, OtherRemoves, OtherAddsSample,
      BarFile, FreeFile, StartUndo, Start, Reloaded, Create

LEMMA NextShared == ASSUME Basics, Basics', [Next]_vars PROVE SharedStep
  <1>1. used \subseteq used' /\ used' \subseteq Persons
    BY UsedGrows DEF Basics, TypeOK
  <1>2. op.at \in OnTheWay \union {"idle"} => ~pLoading
    BY DEF Basics, PeopleStore, OnTheWay, Merging, Unmerging, Removing, Moving, Sampling
  <1>3. CASE UNCHANGED people
    BY <1>3, StutterShared DEF people, Blind
  <1>4. CASE PeopleCall /\ op.at \in OnTheWay
    BY <1>1, <1>2, <1>4, CallShared
  <1>5. CASE (P!Stamp /\ op.at = "idle") \/ P!Load
    BY <1>2, <1>5, LoadShared
  <1>6. CASE \E id \in Persons : P!Overwritten(pDisk \union {id}) \/ P!Overwritten(pDisk \ {id})
    BY <1>6, OverwrittenShared
  <1>7. CASE P!Bar \/ P!Free
    BY <1>7, FileShared
  <1> QED BY <1>3, <1>4, <1>5, <1>6, <1>7, NextPeople

\* PeopleStore under two processes implements the shared set: however often a save fails, every write
\* of people.json, by the service or by the command-line tool, is one change of the records as they
\* are on disk.  The exception is a store that could not open the file when it last looked: it
\* writes one change of the records it remembers, and only until it can read the file again.
THEOREM NoLostUpdateHolds == Spec => NoLostUpdate
  <1>1. Init => Shared!Init
    BY PeopleAssumption DEF Init, Shared!Init, OfWriters, Blind
  <1>2. Basics /\ Basics' /\ [Next]_vars => [Shared!Next]_(Shared!shared)
    BY NextShared DEF SharedStep
  <1>3. Spec => [][Shared!Next]_(Shared!shared)
    BY <1>2, BasicsHold, PTL DEF Spec
  <1>4. Spec => Init
    BY DEF Spec
  <1>5. NoLostUpdate <=> Shared!Init /\ [][Shared!Next]_(Shared!shared)
    BY DEF NoLostUpdate, Shared!Spec
  <1> QED BY <1>1, <1>3, <1>4, <1>5
----------------------------------------------------------------------------
(***************************************************************************)
(* What the operations on people take back: one that is refused on its way *)
(* has changed nothing, and an undo brings back what was there.            *)
(*                                                                         *)
(* As long as no other process changed a file and no call failed unseen,   *)
(* the files are a function of the operation: Course says, place by place, *)
(* what an operation has done to the files it began with.  Chain says the  *)
(* same of the undo stack: each entry leads from the files it began with   *)
(* to those the next entry began with, and the last one to what is there   *)
(* when no operation runs.                                                 *)
(*                                                                         *)
(* Owned holds of disturbed files too: what is bound is bound to somebody  *)
(* in people.json, to one the other process dealt with (There), or to the  *)
(* one the operation has just taken out or will put back (Pending); and    *)
(* whom an entry of the undo stack gives a sample back to is there, or     *)
(* comes back by an entry that is undone before.                           *)
(***************************************************************************)

\* What an operation that can be undone makes of the files it began with.
PeopleAfter(e) ==
    IF e.kind = "merged" THEN e.base[1] \ {e.other}
    ELSE IF e.new THEN e.base[1] \union {e.other} ELSE e.base[1]
Taker(e) == IF e.kind = "merged" THEN e.person ELSE IF e.kind = "moved" THEN e.other ELSE Nobody
PrintsAfter(e) == Given(e.base[2], e.samples, Taker(e))
RefAfter(e) == IF e.kind = "merged" /\ e.base[3] = e.other THEN e.person ELSE e.base[3]
After(e) == <<PeopleAfter(e), PrintsAfter(e), RefAfter(e)>>

\* It says enough to be undone.
Reversible(e) ==
    /\ e.kind = "merged" =>
         /\ e.person # e.other /\ {e.person, e.other} \subseteq e.base[1]
         /\ e.samples = SamplesOf(e.base[2], e.other)
         /\ e.bound = (e.base[3] = e.other)
    /\ e.kind # "merged" => \E s \in Samples : e.samples = {s} /\ e.base[2][s] = e.person
    /\ e.kind = "moved" /\ e.new =>
         e.other \notin e.base[1] /\ SamplesOf(e.base[2], e.other) = {} /\ e.base[3] # e.other

----------------------------------------------------------------------------
(* The course of an operation *)

\* Nothing is changed yet, or all of it is taken back.
Clean == {"contains", "fold", "anonymous", "make", "removeSample", "refused", "undone"}

Beginning ==
    /\ op.at \in Starting /\ op.kind = "none" => OnDisk = op.base
    /\ op.at \in Starting /\ op.kind # "none" => Reversible(op) /\ OnDisk = After(op)
    /\ op.at \in Clean => OnDisk = op.base

MergeCourse ==
    /\ op.at \in Merging => op.person # op.other
    /\ op.at \in Merging \ {"contains"} => {op.person, op.other} \subseteq op.base[1]
    /\ op.at = "foldPrints" => OnDisk = <<op.base[1] \ {op.other}, op.base[2], op.base[3]>>
    /\ op.at = "foldRefs" =>
         /\ op.samples = SamplesOf(op.base[2], op.other)
         /\ OnDisk = <<op.base[1] \ {op.other}, Given(op.base[2], op.samples, op.person), op.base[3]>>

UnmergeCourse ==
    /\ op.at \in {"restoreDrop", "restoreKeep", "refreshPrints"} => Reversible(op)
    /\ op.at = "restoreDrop" => OnDisk = After(op)
    /\ op.at \in {"restoreKeep", "refreshPrints"} => OnDisk = <<op.base[1], PrintsAfter(op), RefAfter(op)>>
    /\ op.at \in {"unfoldPrints", "unfoldRefs"} =>
         /\ op.bound = (op.base[3] = op.other) /\ op.person # op.other
         /\ pDisk = op.base[1] /\ ref = RefAfter(op)
    /\ op.at = "unfoldPrints" => op.samples \subseteq SamplesOf(op.base[2], op.other) /\ vDisk = PrintsAfter(op)
    /\ op.at = "unfoldRefs" => vDisk = op.base[2]

WithOther == op.base[1] \union {op.other}
Kept == Given(op.base[2], SamplesOf(op.base[2], op.person), op.other)

RemoveCourse ==
    /\ op.at = "delete" /\ op.other = Nobody => OnDisk = op.base
    /\ op.at \in {"keepPrints", "givePrintsBack"} \/ (op.at = "delete" /\ op.other # Nobody) =>
         /\ op.other \notin op.base[1] /\ SamplesOf(op.base[2], op.other) = {}
         /\ pDisk = WithOther /\ ref = op.base[3]
    /\ op.at = "keepPrints" => vDisk = op.base[2]
    /\ op.at = "delete" /\ op.other # Nobody => vDisk = Kept
    /\ op.at = "givePrintsBack" => vDisk \in {op.base[2], Kept}
    /\ op.at = "unmake" => op.other \notin op.base[1] /\ OnDisk = <<WithOther, op.base[2], op.base[3]>>

MoveCourse ==
    /\ op.at = "make" => op.new /\ \E s \in Samples : op.samples = {s} /\ op.base[2][s] = op.person
    /\ op.at \in {"move", "moveBack", "unused", "removeSample", "addBack"} => Reversible(op)
    /\ op.at \in {"move", "unused"} => OnDisk = <<PeopleAfter(op), op.base[2], op.base[3]>>
    /\ op.at \in {"moveBack", "addBack"} => OnDisk = After(op)

Course == Undisturbed => Beginning /\ MergeCourse /\ UnmergeCourse /\ RemoveCourse /\ MoveCourse

----------------------------------------------------------------------------
(* The undo stack *)

\* What is there when no operation is under way.
Ground == IF op.at \in {"idle", "done"} THEN OnDisk ELSE op.base

Chain ==
    /\ \A i \in 1 .. Len(undo) :
          undo[i].count = others /\ ~slip =>
             /\ Reversible(undo[i])
             /\ After(undo[i]) = IF i = Len(undo) THEN Ground ELSE undo[i + 1].base
    /\ op.at = "done" /\ op.kind = "removed" => undo = <<>>

Reversal == Basics /\ Course /\ Chain

----------------------------------------------------------------------------
(* What the calls do to the files when none of them fails unseen *)

LEMMA SlipStays == ASSUME Basics, UNCHANGED mishaps \/ Fault(TRUE) \/ Fault(FALSE) PROVE slip => slip'
  BY DEF Fault, mishaps, Basics, TypeOK

\* A modification starts from what is in the file.
LEMMA Steady ==
  ASSUME Basics, ~slip
  PROVE  /\ ~pLoading => P!Current = pDisk
         /\ ~vLoading => V!Current = vDisk
  BY DEF Basics, TypeOK, PeopleStore, PrintsStore, P!Current, P!Stays, V!Current, V!Stays

LEMMA ChangedPeople ==
  ASSUME Basics, NEW new, NEW ids, ChangePeople(new, ids), ~slip'
  PROVE  pDisk' = new /\ pMem' = new /\ ~slip
  <1>1. CASE P!Rewrite(new, ids, TRUE) /\ UNCHANGED mishaps
    BY <1>1 DEF P!Rewrite, mishaps
  <1>2. ~Fault(TRUE)
    BY DEF Fault
  <1> QED BY <1>1, <1>2 DEF ChangePeople

LEMMA RemovedRecord ==
  ASSUME Basics, ~pLoading, NEW id, RemoveRecord(id), ~slip'
  PROVE  pDisk' = pDisk \ {id} /\ pMem' = pDisk' /\ ~slip
  <1>1. CASE id \in P!Current
    <2>1. ~slip /\ pDisk' = P!Current \ {id} /\ pMem' = pDisk'
      BY <1>1, ChangedPeople DEF RemoveRecord
    <2> QED BY <2>1, Steady
  <1>2. CASE id \notin P!Current
    <2>1. pDisk' = pDisk /\ pMem' = P!Current /\ ~slip
      BY <1>2 DEF RemoveRecord, P!Find, mishaps
    <2> QED BY <1>2, <2>1, Steady
  <1> QED BY <1>1, <1>2

LEMMA ChangedPrints ==
  ASSUME Basics, NEW new, NEW ss, ChangePrints(new, ss), ~slip'
  PROVE  /\ vDisk' = (IF ss = {} THEN vDisk ELSE new) /\ ~slip /\ vLoading' = vLoading
         /\ vMem' = IF ss = {} THEN V!Current ELSE new
  BY DEF ChangePrints, V!Rewrite, V!Find, Fault, mishaps

LEMMA GaveAll ==
  ASSUME Basics, ~vLoading, NEW from, NEW to \in Persons \union {Nobody}, GiveAll(from, to), ~slip'
  PROVE  vDisk' = Given(vDisk, SamplesOf(vDisk, from), to) /\ vMem' = vDisk' /\ ~slip /\ ~vLoading'
  <1> DEFINE ss == SamplesOf(V!Current, from)
  <1>1. /\ ~slip /\ vDisk' = (IF ss = {} THEN vDisk ELSE Given(V!Current, ss, to)) /\ ~vLoading'
        /\ vMem' = IF ss = {} THEN V!Current ELSE Given(V!Current, ss, to)
    BY ChangedPrints DEF GiveAll
  <1>2. V!Current = vDisk
    BY <1>1, Steady
  <1>3. vDisk = Given(vDisk, {}, to)
    BY DEF Basics, TypeOK, Owners, Given
  <1> QED BY <1>1, <1>2, <1>3

LEMMA GaveSample ==
  ASSUME Basics, ~vLoading, NEW s \in Samples, NEW to, ~slip',
         SetOne(s, to) \/ (GiveOne(s, to) /\ V!Current[s] # Nobody)
  PROVE  vDisk' = Given(vDisk, {s}, to) /\ vMem' = vDisk' /\ ~slip /\ ~vLoading'
  <1>1. CASE SetOne(s, to)
    <2>1. ~slip /\ vDisk' = Given(V!Current, {s}, to) /\ vMem' = vDisk' /\ ~vLoading'
      BY <1>1, ChangedPrints DEF SetOne
    <2> QED BY <2>1, Steady
  <1>2. CASE GiveOne(s, to) /\ V!Current[s] # Nobody /\ ~SetOne(s, to)
    <2>1. V!Current[s] = to /\ vDisk' = vDisk /\ vMem' = V!Current /\ ~slip /\ ~vLoading'
      BY <1>2 DEF GiveOne, V!Find, mishaps
    <2>2. vDisk[s] = to /\ V!Current = vDisk
      BY <2>1, Steady
    <2>3. vDisk = Given(vDisk, {s}, to)
      BY <2>2 DEF Basics, TypeOK, Owners, Given
    <2> QED BY <2>1, <2>2, <2>3
  <1> QED BY <1>1, <1>2

\* The sample may be gone.
LEMMA GaveIfThere ==
  ASSUME Basics, ~vLoading, NEW s \in Samples, NEW to, SetOne(s, to) \/ GiveOne(s, to), ~slip'
  PROVE  (\E ss : vDisk' = Given(vDisk, ss, to)) /\ vMem' = vDisk'
  <1>1. CASE SetOne(s, to) \/ (GiveOne(s, to) /\ V!Current[s] # Nobody)
    BY <1>1, GaveSample
  <1>2. CASE GiveOne(s, to) /\ V!Current[s] = Nobody
    <2>1. vDisk' = vDisk /\ vMem' = V!Current /\ ~slip
      BY <1>2 DEF GiveOne, V!Find, mishaps
    <2>2. vDisk = Given(vDisk, {}, to)
      BY DEF Basics, TypeOK, Owners, Given
    <2> QED BY <2>1, <2>2, Steady
  <1> QED BY <1>1, <1>2

----------------------------------------------------------------------------
(* Giving samples, and giving them back *)

LEMMA GiveNone ==
  ASSUME NEW owner \in Owners, NEW to
  PROVE  Given(owner, {}, to) = owner
  BY DEF Owners, Given

\* All that one person gave to another who had none.
LEMMA GiveAllBack ==
  ASSUME NEW owner \in Owners, NEW from \in Persons, NEW to \in Persons, SamplesOf(owner, to) = {},
         NEW now \in {owner, Given(owner, SamplesOf(owner, from), to)}
  PROVE  Given(now, SamplesOf(now, to), from) = owner
  <1>1. \A s \in Samples : owner[s] # to
    BY DEF SamplesOf
  <1>2. now \in Owners
    BY DEF Given, Owners
  <1>3. \A s \in Samples : Given(now, SamplesOf(now, to), from)[s] = IF now[s] = to THEN from ELSE now[s]
    BY DEF Given, SamplesOf
  <1>4. \A s \in Samples : now[s] = owner[s] \/ now[s] = IF owner[s] = from THEN to ELSE owner[s]
    BY DEF Given, SamplesOf
  <1>5. \A s \in Samples : now[s] = to => owner[s] = from
    BY <1>1, <1>4
  <1>6. \A s \in Samples : Given(now, SamplesOf(now, to), from)[s] = owner[s]
    <2> TAKE s \in Samples
    <2>1. CASE now[s] = to
      BY <1>3, <1>5, <2>1
    <2>2. CASE now[s] # to
      <3>1. now[s] = owner[s]
        BY <1>4, <2>2
      <3> QED BY <1>3, <2>2, <3>1
    <2> QED BY <2>1, <2>2
  <1> QED BY <1>6 DEF Given, Owners

\* One of the samples that a person got from another.
LEMMA GiveOneBack ==
  ASSUME NEW owner \in Owners, NEW from, NEW to, NEW ss, ss \subseteq SamplesOf(owner, from), NEW s \in ss
  PROVE  Given(Given(owner, ss, to), {s}, from) = Given(owner, ss \ {s}, to)
  BY DEF Given, SamplesOf, Owners

LEMMA GiveBack ==
  ASSUME NEW owner \in Owners, NEW s \in Samples, NEW to
  PROVE  Given(Given(owner, {s}, to), {s}, owner[s]) = owner
  BY DEF Given, Owners

----------------------------------------------------------------------------
(* Entries and the stack *)

LEMMA SameEntry ==
  ASSUME NEW e, NEW f, f.kind = e.kind, f.person = e.person, f.other = e.other, f.new = e.new,
         f.samples = e.samples, f.bound = e.bound, f.base = e.base
  PROVE  /\ Reversible(f) = Reversible(e) /\ After(f) = After(e)
         /\ PeopleAfter(f) = PeopleAfter(e) /\ PrintsAfter(f) = PrintsAfter(e) /\ RefAfter(f) = RefAfter(e)
  BY DEF Reversible, After, PeopleAfter, PrintsAfter, RefAfter, Taker

LEMMA TripleParts ==
  ASSUME NEW t \in Triples
  PROVE  /\ t = <<t[1], t[2], t[3]>> /\ t[1] \subseteq Persons /\ t[2] \in Owners
         /\ t[3] \in Persons \union {Nobody}
  BY DEF Triples

\* The operation goes on and the stack stays: what it began with is what the last entry led to.
LEMMA KeptChain ==
  ASSUME Basics, Chain, op.at \notin {"idle", "done"}, op'.at \notin {"idle", "done"}, op'.base = op.base,
         UNCHANGED <<undo, others>>, slip => slip'
  PROVE  Chain'
  <1>1. Ground' = op.base /\ Ground = op.base
    BY DEF Ground
  <1> HIDE DEF Ground
  <1> QED BY <1>1 DEF Chain

\* The operation leaves an entry that leads from what it began with to what is there now.
LEMMA PushedChain ==
  ASSUME Basics, Chain, op.at \notin {"idle", "done"}, op'.at = "done", op'.kind # "removed",
         UNCHANGED others, slip => slip',
         NEW e \in Operations, e.base = op.base, e.count = op.count, Push(e),
         op.count = others /\ ~slip' => Reversible(e) /\ After(e) = OnDisk'
  PROVE  Chain'
  <1>1. PICK drop \in {0, 1} :
              /\ Len(undo') = Len(undo) + 1 - drop
              /\ \A i \in 1 .. Len(undo') :
                   undo'[i] = IF i + drop = Len(undo) + 1 THEN e ELSE undo[i + drop]
    BY PushResult DEF Basics
  <1>2. Len(undo) \in Nat
    BY DEF Basics, TypeOK
  <1>3. Ground' = OnDisk' /\ Ground = op.base
    BY DEF Ground
  <1> HIDE DEF Ground
  <1>4. SUFFICES ASSUME NEW i \in 1 .. Len(undo'), undo'[i].count = others, ~slip'
                 PROVE  /\ Reversible(undo'[i])
                        /\ After(undo'[i]) = IF i = Len(undo') THEN Ground' ELSE undo'[i + 1].base
    BY DEF Chain
  <1>5. CASE i + drop = Len(undo) + 1
    <2>1. undo'[i] = e /\ i = Len(undo')
      BY <1>1, <1>2, <1>5
    <2> QED BY <1>3, <1>4, <2>1
  <1>6. CASE i + drop # Len(undo) + 1
    <2>1. i + drop \in 1 .. Len(undo) /\ i # Len(undo') /\ i + 1 \in 1 .. Len(undo')
      BY <1>1, <1>2, <1>6
    <2>2. undo'[i] = undo[i + drop]
          /\ undo'[i + 1] = IF i + drop = Len(undo) THEN e ELSE undo[i + drop + 1]
      BY <1>1, <1>2, <1>6, <2>1
    <2>3. /\ Reversible(undo[i + drop])
          /\ After(undo[i + drop]) = IF i + drop = Len(undo) THEN Ground ELSE undo[i + drop + 1].base
      BY <1>4, <2>1, <2>2 DEF Chain
    <2> QED BY <1>3, <2>1, <2>2, <2>3
  <1> QED BY <1>5, <1>6

----------------------------------------------------------------------------
(* Steps of an operation on its way *)

LEMMA WentOn ==
  ASSUME Reversal, NEW at \in OnTheWay \union {"undone", "refused"}, Goto(at), op.at \in OnTheWay,
         UNCHANGED <<undo, rest>>, slip => slip'
  PROVE  /\ SameOp /\ op'.at = at /\ op'.samples = op.samples /\ op'.bound = op.bound
         /\ Reversible(op') = Reversible(op) /\ After(op') = After(op)
         /\ PeopleAfter(op') = PeopleAfter(op) /\ PrintsAfter(op') = PrintsAfter(op)
         /\ RefAfter(op') = RefAfter(op)
         /\ Chain' /\ ~pLoading /\ ~vLoading /\ op.base \in Triples
         /\ Undisturbed' => Undisturbed /\ ~slip /\ ~slip'
  <1>1. at # "idle" /\ at # "done" /\ op.at # "idle" /\ op.at # "done"
    BY DEF OnTheWay, Merging, Unmerging, Removing, Moving, Sampling
  <1>2. /\ SameOp /\ op'.at = at /\ op'.samples = op.samples /\ op'.bound = op.bound /\ others' = others
    BY GoneOn DEF Ended, Reversal
  <1>3. /\ Reversible(op') = Reversible(op) /\ After(op') = After(op)
        /\ PeopleAfter(op') = PeopleAfter(op) /\ PrintsAfter(op') = PrintsAfter(op)
        /\ RefAfter(op') = RefAfter(op)
    BY <1>2, SameEntry DEF SameOp
  <1>4. Chain'
    BY <1>1, <1>2, KeptChain DEF SameOp, Reversal
  <1>5. ~pLoading /\ ~vLoading /\ op.base \in Triples
    BY <1>1 DEF Reversal, Basics, PeopleStore, PrintsStore, Shape, OnTheWay, Merging, Unmerging, Removing, Moving,
        Sampling
  <1>6. Undisturbed' => Undisturbed /\ ~slip /\ ~slip'
    BY <1>2 DEF Undisturbed, SameOp
  <1> QED BY <1>2, <1>3, <1>4, <1>5, <1>6

LEMMA BothKnownCourse == ASSUME Reversal, BothKnown, slip => slip' PROVE Course' /\ Chain'
  <1> DEFINE at == IF {op.person, op.other} \subseteq P!Current THEN "fold" ELSE "refused"
  <1>1. at \in OnTheWay \union {"undone", "refused"} /\ op.at \in OnTheWay
    BY DEF BothKnown, OnTheWay, Merging
  <1>2. Goto(at) /\ UNCHANGED <<undo, rest>>
    BY DEF BothKnown
  <1>3. UNCHANGED OnDisk /\ op.at = "contains"
    BY DEF BothKnown, OnDisk, P!Find, prints
  <1> HIDE DEF at
  <1>4. /\ SameOp /\ op'.at = at /\ Chain' /\ ~pLoading
        /\ Undisturbed' => Undisturbed /\ ~slip
    BY <1>1, <1>2, WentOn
  <1>5. CASE ~Undisturbed'
    BY <1>4, <1>5 DEF Course
  <1>6. CASE Undisturbed'
    <2>1. OnDisk = op.base /\ op.person # op.other
      BY <1>3, <1>4, <1>6 DEF Reversal, Course, Beginning, Clean, MergeCourse, Merging
    <2>2. P!Current = op.base[1]
      BY <2>1, <1>4, <1>6, Steady DEF OnDisk, Reversal
    <2>3. at = "refused" \/ (at = "fold" /\ {op.person, op.other} \subseteq op.base[1])
      BY <2>2 DEF at
    <2>4. OnDisk' = op'.base /\ op'.person # op'.other
      BY <1>3, <1>4, <2>1 DEF SameOp
    <2>5. at \in {"fold", "refused"} /\ op'.at = at
      BY <1>4 DEF at
    <2>6. Beginning' /\ UnmergeCourse' /\ RemoveCourse' /\ MoveCourse'
      BY <2>4, <2>5 DEF Beginning, UnmergeCourse, RemoveCourse, MoveCourse, Starting
    <2>7. MergeCourse'
      BY <1>4, <2>3, <2>4, <2>5 DEF MergeCourse, Merging, SameOp
    <2> QED BY <1>4, <2>6, <2>7 DEF Course
  <1> QED BY <1>5, <1>6

LEMMA FoldRecordCourse == ASSUME Reversal, FoldRecord, slip => slip' PROVE Course' /\ Chain'
  <1>1. PICK at \in {"refused", "foldPrints"} :
          /\ Goto(at) /\ UNCHANGED prints
          /\ at = "refused" => UNCHANGED people
          /\ at = "foldPrints" =>
                IF {op.person, op.other} \subseteq P!Current
                THEN ChangePeople(P!Current \ {op.other}, {op.other})
                ELSE P!Find /\ UNCHANGED mishaps
    BY DEF FoldRecord, Refused, RefusedCall
  <1>2. op.at = "fold" /\ UNCHANGED <<undo, ref, rest>> /\ op.at \in OnTheWay
        /\ at \in OnTheWay \union {"undone", "refused"}
    BY <1>1 DEF FoldRecord, OnTheWay, Merging
  <1>3. /\ SameOp /\ op'.at = at /\ Chain' /\ ~pLoading /\ op.base \in Triples
        /\ Undisturbed' => Undisturbed /\ ~slip /\ ~slip'
    BY <1>1, <1>2, WentOn
  <1>4. CASE ~Undisturbed'
    BY <1>3, <1>4 DEF Course
  <1>5. CASE Undisturbed'
    <2>1. OnDisk = op.base /\ op.person # op.other /\ {op.person, op.other} \subseteq op.base[1]
      BY <1>2, <1>3, <1>5 DEF Reversal, Course, Beginning, Clean, MergeCourse, Merging
    <2>2. P!Current = op.base[1]
      BY <2>1, <1>3, <1>5, Steady DEF OnDisk, Reversal
    <2>3. vDisk' = op.base[2] /\ ref' = op.base[3]
      BY <1>1, <1>2, <2>1 DEF prints, OnDisk
    <2>4. at = "refused" => pDisk' = op.base[1]
      BY <1>1, <2>1 DEF people, OnDisk
    <2>5. at = "foldPrints" => pDisk' = op.base[1] \ {op.other}
      BY <1>1, <1>3, <1>5, <2>1, <2>2, ChangedPeople DEF Reversal
    <2>6. Beginning' /\ UnmergeCourse' /\ RemoveCourse' /\ MoveCourse'
      BY <1>1, <1>3, <2>3, <2>4, TripleParts DEF Beginning, Clean, UnmergeCourse, RemoveCourse, MoveCourse, Starting, OnDisk, SameOp
    <2>7. MergeCourse'
      BY <1>1, <1>3, <2>1, <2>3, <2>5 DEF MergeCourse, Merging, OnDisk, SameOp
    <2> QED BY <1>3, <2>6, <2>7 DEF Course
  <1> QED BY <1>4, <1>5

LEMMA FoldPrintsCourse == ASSUME Reversal, FoldPrints, slip => slip' PROVE Course' /\ Chain'
  <1>1. op.at = "foldPrints" /\ UNCHANGED <<undo, ref, rest>> /\ op.at \in OnTheWay /\ UNCHANGED people
    BY DEF FoldPrints, OnTheWay, Merging, IgnoredRefusal
  <1>2. CASE IgnoredRefusal /\ Goto("foldRefs")
    <2>1. Chain' /\ slip'
      BY <1>1, <1>2, WentOn DEF IgnoredRefusal, Fault, OnTheWay, Merging
    <2> QED BY <2>1 DEF Course, Undisturbed
  <1>3. CASE /\ GiveAll(op.other, op.person)
             /\ op' = [op EXCEPT !.at = "foldRefs", !.samples = SamplesOf(V!Current, op.other)]
    <2>1. op \in Operations /\ ~vLoading /\ op.base \in Triples /\ op.kind = "merged" /\ op.person \in Persons
      BY <1>1 DEF Reversal, Basics, TypeOK, PrintsStore, Shape, Merging
    <2>2. /\ op'.at = "foldRefs" /\ op'.samples = SamplesOf(V!Current, op.other)
          /\ op'.person = op.person /\ op'.other = op.other /\ op'.base = op.base /\ op'.count = op.count
          /\ op'.kind = op.kind
      BY <1>3, <2>1 DEF Operations
    <2>3. Chain'
      BY <1>1, <2>2, KeptChain DEF Reversal, rest
    <2>4. CASE ~Undisturbed'
      BY <2>3, <2>4 DEF Course
    <2>5. CASE Undisturbed'
      <3>1. Undisturbed /\ ~slip'
        BY <1>1, <2>2, <2>5 DEF Undisturbed, rest
      <3>2. /\ OnDisk = <<op.base[1] \ {op.other}, op.base[2], op.base[3]>>
            /\ op.person # op.other /\ {op.person, op.other} \subseteq op.base[1]
        BY <1>1, <3>1 DEF Reversal, Course, MergeCourse, Merging
      <3>3. vDisk' = Given(vDisk, SamplesOf(vDisk, op.other), op.person) /\ ~slip
        BY <1>3, <2>1, <3>1, GaveAll DEF Reversal
      <3>4. V!Current = op.base[2]
        BY <2>1, <3>2, <3>3, Steady DEF OnDisk, Reversal
      <3>5. /\ pDisk' = op.base[1] \ {op.other} /\ ref' = op.base[3]
            /\ vDisk' = Given(op.base[2], op'.samples, op.person)
            /\ op'.samples = SamplesOf(op.base[2], op.other)
        BY <1>1, <2>2, <3>2, <3>3, <3>4 DEF OnDisk, people
      <3>6. Beginning' /\ MergeCourse' /\ UnmergeCourse' /\ RemoveCourse' /\ MoveCourse'
        BY <2>2, <3>2, <3>5 DEF Beginning, Clean, MergeCourse, UnmergeCourse, RemoveCourse, MoveCourse, Starting,
            Merging, OnDisk
      <3> QED BY <2>3, <3>6 DEF Course
    <2> QED BY <2>4, <2>5
  <1> QED BY <1>2, <1>3 DEF FoldPrints

\* At the end of an operation nothing is left to say of its course.
LEMMA NoCourse == ASSUME op'.at \in {"idle", "done", "deletePrints", "deleteRefs"} PROVE Course'
  BY DEF Course, Beginning, Clean, MergeCourse, Merging, UnmergeCourse, RemoveCourse, MoveCourse, Starting

LEMMA FoldRefsCourse == ASSUME Reversal, FoldRefs, slip => slip' PROVE Course' /\ Chain'
  <1> DEFINE e == [op EXCEPT !.bound = (ref = op.other)]
  <1>1. /\ op.at = "foldRefs" /\ op \in Operations /\ op.kind = "merged" /\ op.base \in Triples /\ ~op.new
        /\ ref' = IF ref = op.other THEN op.person ELSE ref
        /\ UNCHANGED <<pDisk, vDisk, others>> /\ Push(e)
    BY DEF FoldRefs, Reversal, Basics, TypeOK, Shape, Merging, people, prints, rest
  <1>2. /\ e \in Operations /\ e.kind = "merged" /\ e.person = op.person /\ e.other = op.other
        /\ e.new = op.new /\ e.samples = op.samples /\ e.base = op.base /\ e.count = op.count
        /\ e.bound = (ref = op.other)
    BY <1>1 DEF Operations
  <1>3. op'.at = "done" /\ op'.kind = "merged"
    BY <1>1 DEF FoldRefs, Done, Operations
  <1> HIDE DEF e
  <1>4. ASSUME op.count = others, ~slip'
        PROVE  Reversible(e) /\ After(e) = OnDisk'
    <2>1. Undisturbed
      BY <1>4 DEF Undisturbed
    <2>2. /\ op.person # op.other /\ {op.person, op.other} \subseteq op.base[1]
          /\ op.samples = SamplesOf(op.base[2], op.other)
          /\ OnDisk = <<op.base[1] \ {op.other}, Given(op.base[2], op.samples, op.person), op.base[3]>>
      BY <1>1, <2>1 DEF Reversal, Course, MergeCourse, Merging
    <2>3. ref = op.base[3]
      BY <2>2 DEF OnDisk
    <2>4. Reversible(e)
      BY <1>2, <2>2, <2>3 DEF Reversible
    <2>5. /\ PeopleAfter(e) = pDisk' /\ PrintsAfter(e) = vDisk' /\ RefAfter(e) = ref'
      BY <1>1, <1>2, <2>2, <2>3 DEF PeopleAfter, PrintsAfter, RefAfter, Taker, OnDisk
    <2> QED BY <2>4, <2>5 DEF After, OnDisk
  <1>5. Chain'
    BY <1>1, <1>2, <1>3, <1>4, PushedChain DEF Reversal
  <1> QED BY <1>3, <1>5, NoCourse

LEMMA RestoreCourse ==
  ASSUME Reversal, slip => slip', RestoreDrop \/ RestoreKeep
  PROVE  Course' /\ Chain'
  <1> DEFINE person == IF op.at = "restoreDrop" THEN op.other ELSE op.person
             next == IF op.at = "restoreDrop" THEN "restoreKeep" ELSE "refreshPrints"
  <1>1. op.at \in {"restoreDrop", "restoreKeep"} /\ RestoreRecord(op.at, person, next)
    BY DEF RestoreDrop, RestoreKeep, RestoreRecord
  <1>2. op.at \in OnTheWay /\ next \in OnTheWay \union {"undone", "refused"} /\ op.kind = "merged"
    BY <1>1 DEF OnTheWay, Unmerging, Reversal, Basics, Shape
  <1>3. Goto(next) /\ UNCHANGED <<undo, rest, ref>>
    BY <1>1 DEF RestoreRecord
  <1>4. UNCHANGED prints /\ (IgnoredRefusal \/ ChangePeople(P!Current \union {person}, {person}))
    BY <1>1 DEF RestoreRecord, IgnoredRefusal
  <1> HIDE DEF person, next
  <1>5. /\ SameOp /\ op'.at = next /\ Chain' /\ ~pLoading /\ op.base \in Triples
        /\ Reversible(op') = Reversible(op) /\ PrintsAfter(op') = PrintsAfter(op) /\ RefAfter(op') = RefAfter(op)
        /\ Undisturbed' => Undisturbed /\ ~slip /\ ~slip'
    BY <1>2, <1>3, WentOn
  <1>6. CASE ~Undisturbed'
    BY <1>5, <1>6 DEF Course
  <1>7. CASE Undisturbed'
    <2>1. /\ Reversible(op) /\ vDisk = PrintsAfter(op) /\ ref = RefAfter(op)
          /\ pDisk = IF op.at = "restoreDrop" THEN op.base[1] \ {op.other} ELSE op.base[1]
      BY <1>1, <1>2, <1>5, <1>7 DEF Reversal, Course, UnmergeCourse, OnDisk, After, PeopleAfter
    <2>2. pDisk' = pDisk \union {person}
      BY <1>4, <1>5, <1>7, Steady, ChangedPeople DEF IgnoredRefusal, Fault, Reversal
    <2>3. person \in op.base[1] /\ person = IF op.at = "restoreDrop" THEN op.other ELSE op.person
      BY <1>2, <2>1 DEF Reversible, person
    <2>4. pDisk' = op.base[1] /\ vDisk' = vDisk /\ ref' = ref
      BY <1>3, <1>4, <2>1, <2>2, <2>3 DEF prints
    <2>5. Beginning' /\ MergeCourse' /\ UnmergeCourse' /\ RemoveCourse' /\ MoveCourse'
      BY <1>5, <2>1, <2>4 DEF Beginning, Clean, MergeCourse, UnmergeCourse, RemoveCourse, MoveCourse, Starting,
            Merging, OnDisk, SameOp, next
    <2> QED BY <1>5, <2>5 DEF Course
  <1> QED BY <1>6, <1>7

LEMMA RefreshPrintsCourse == ASSUME Reversal, RefreshPrints, slip => slip' PROVE Course' /\ Chain'
  <1>1. op.at = "refreshPrints" /\ Goto("unfoldPrints") /\ UNCHANGED <<undo, rest, OnDisk>>
    BY DEF RefreshPrints, V!Find, people, OnDisk
  <1>2. /\ op.at \in OnTheWay /\ "unfoldPrints" \in OnTheWay \union {"undone", "refused"}
        /\ op.kind = "merged"
    BY <1>1 DEF OnTheWay, Unmerging, Reversal, Basics, Shape
  <1>3. /\ SameOp /\ op'.at = "unfoldPrints" /\ Chain' /\ op'.samples = op.samples /\ op'.bound = op.bound
        /\ PrintsAfter(op') = PrintsAfter(op) /\ RefAfter(op') = RefAfter(op)
        /\ Undisturbed' => Undisturbed
    BY <1>1, <1>2, WentOn
  <1>4. CASE ~Undisturbed'
    BY <1>3, <1>4 DEF Course
  <1>5. CASE Undisturbed'
    <2>1. Reversible(op) /\ OnDisk' = <<op.base[1], PrintsAfter(op), RefAfter(op)>>
      BY <1>1, <1>3, <1>5 DEF Reversal, Course, UnmergeCourse
    <2>2. /\ op.person # op.other /\ op.bound = (op.base[3] = op.other)
          /\ op.samples = SamplesOf(op.base[2], op.other)
      BY <1>2, <2>1 DEF Reversible
    <2>3. Beginning' /\ MergeCourse' /\ UnmergeCourse' /\ RemoveCourse' /\ MoveCourse'
      BY <1>3, <2>1, <2>2 DEF Beginning, Clean, MergeCourse, UnmergeCourse, RemoveCourse, MoveCourse, Starting,
            Merging, OnDisk, SameOp
    <2> QED BY <1>3, <2>3 DEF Course
  <1> QED BY <1>4, <1>5

LEMMA UnfoldPrintsCourse == ASSUME Reversal, UnfoldPrints, slip => slip' PROVE Course' /\ Chain'
  <1>1. /\ op.at = "unfoldPrints" /\ op.at \in OnTheWay /\ op.kind = "merged" /\ op \in Operations
        /\ UNCHANGED <<undo, ref, rest, people>> /\ op.base \in Triples
    BY DEF UnfoldPrints, OnTheWay, Unmerging, Reversal, Basics, Shape, TypeOK, IgnoredRefusal
  <1>2. ASSUME Undisturbed
        PROVE  /\ op.bound = (op.base[3] = op.other) /\ op.person # op.other
               /\ pDisk = op.base[1] /\ ref = RefAfter(op)
               /\ op.samples \subseteq SamplesOf(op.base[2], op.other)
               /\ vDisk = Given(op.base[2], op.samples, op.person)
    BY <1>1, <1>2 DEF Reversal, Course, UnmergeCourse, PrintsAfter, Taker
  <1>3. CASE op.samples = {} /\ Goto("unfoldRefs") /\ UNCHANGED <<people, prints, mishaps>>
    <2>1. /\ SameOp /\ op'.at = "unfoldRefs" /\ Chain' /\ op'.bound = op.bound
          /\ RefAfter(op') = RefAfter(op)
          /\ Undisturbed' => Undisturbed
      BY <1>1, <1>3, WentOn DEF OnTheWay, Unmerging
    <2>2. CASE ~Undisturbed'
      BY <2>1, <2>2 DEF Course
    <2>3. CASE Undisturbed'
      <3>1. vDisk = op.base[2]
        BY <1>1, <1>2, <1>3, <2>1, <2>3, GiveNone, TripleParts
      <3>2. UNCHANGED OnDisk
        BY <1>1, <1>3 DEF OnDisk, people, prints
      <3>3. Beginning' /\ MergeCourse' /\ UnmergeCourse' /\ RemoveCourse' /\ MoveCourse'
        BY <1>2, <2>1, <2>3, <3>1, <3>2 DEF Beginning, Clean, MergeCourse, UnmergeCourse, RemoveCourse, MoveCourse,
            Starting, Merging, OnDisk, SameOp
      <3> QED BY <2>1, <3>3 DEF Course
    <2> QED BY <2>2, <2>3
  <1>4. ASSUME NEW s \in op.samples, op' = [op EXCEPT !.samples = @ \ {s}],
               IF vMem[s] # op.person THEN UNCHANGED <<people, prints, mishaps>>
               ELSE IgnoredRefusal \/ GiveOne(s, op.other)
        PROVE  Course' /\ Chain'
    <2>1. /\ op'.at = op.at /\ op'.kind = op.kind /\ op'.person = op.person /\ op'.other = op.other
          /\ op'.base = op.base /\ op'.count = op.count /\ op'.bound = op.bound /\ op'.samples = op.samples \ {s}
      BY <1>1, <1>4 DEF Operations
    <2>2. Chain'
      BY <1>1, <2>1, KeptChain DEF Reversal, rest
    <2>3. CASE ~Undisturbed'
      BY <2>2, <2>3 DEF Course
    <2>4. CASE Undisturbed'
      <3>1. Undisturbed /\ ~slip /\ ~slip'
        BY <1>1, <2>1, <2>4 DEF Undisturbed, rest
      <3>2. ~vLoading /\ vMem = vDisk /\ s \in Samples /\ op.other \in Persons
        BY <1>1, <1>4, <3>1 DEF Reversal, Basics, PrintsStore, StillFresh, TypeOK, Shape, Operations
      <3>3. vMem[s] = op.person
        BY <1>2, <3>1, <3>2 DEF Given
      <3>4. vDisk' = Given(vDisk, {s}, op.other)
        <4>1. V!Current[s] # Nobody
          BY <1>1, <3>1, <3>2, <3>3, Steady, PeopleAssumption DEF Reversal, Basics, Shape, TypeOK
        <4> QED BY <1>4, <3>1, <3>2, <3>3, <4>1, GaveSample DEF IgnoredRefusal, Fault, Reversal
      <3>5. vDisk' = Given(op.base[2], op.samples \ {s}, op.person)
        BY <1>1, <1>2, <3>1, <3>4, GiveOneBack, TripleParts
      <3>6. vDisk' = PrintsAfter(op') /\ RefAfter(op') = RefAfter(op) /\ pDisk' = pDisk /\ ref' = ref
        BY <1>1, <2>1, <3>5 DEF PrintsAfter, Taker, RefAfter, people
      <3>7. Beginning' /\ MergeCourse' /\ UnmergeCourse' /\ RemoveCourse' /\ MoveCourse'
        BY <1>1, <1>2, <2>1, <3>1, <3>6 DEF Beginning, Clean, MergeCourse, UnmergeCourse, RemoveCourse,
            MoveCourse, Starting, Merging, OnDisk
      <3> QED BY <2>2, <3>7 DEF Course
    <2> QED BY <2>3, <2>4
  <1> QED BY <1>3, <1>4 DEF UnfoldPrints

LEMMA UnfoldRefsCourse == ASSUME Reversal, UnfoldRefs, slip => slip' PROVE Course' /\ Chain'
  <1>1. /\ op.at = "unfoldRefs" /\ Goto("undone") /\ UNCHANGED <<undo, rest, people, prints>>
        /\ op.at \in OnTheWay /\ "undone" \in OnTheWay \union {"undone", "refused"} /\ op.kind = "merged"
        /\ ref' = IF op.bound /\ ref = op.person THEN op.other ELSE ref
    BY DEF UnfoldRefs, OnTheWay, Unmerging, Reversal, Basics, Shape
  <1>2. /\ SameOp /\ op'.at = "undone" /\ Chain' /\ op.base \in Triples
        /\ Undisturbed' => Undisturbed
    BY <1>1, WentOn
  <1>3. CASE ~Undisturbed'
    BY <1>2, <1>3 DEF Course
  <1>4. CASE Undisturbed'
    <2>1. /\ op.bound = (op.base[3] = op.other) /\ op.person # op.other
          /\ pDisk = op.base[1] /\ ref = RefAfter(op) /\ vDisk = op.base[2]
      BY <1>1, <1>2, <1>4 DEF Reversal, Course, UnmergeCourse
    <2>2. ref' = op.base[3]
      BY <1>1, <2>1 DEF RefAfter
    <2>3. OnDisk' = op'.base
      BY <1>1, <1>2, <2>1, <2>2, TripleParts DEF OnDisk, people, prints, SameOp
    <2>4. Beginning' /\ MergeCourse' /\ UnmergeCourse' /\ RemoveCourse' /\ MoveCourse'
      BY <1>2, <2>3 DEF Beginning, Clean, MergeCourse, UnmergeCourse, RemoveCourse, MoveCourse, Starting,
            Merging, SameOp
    <2> QED BY <1>2, <2>4 DEF Course
  <1> QED BY <1>3, <1>4

LEMMA KeepPrintsCourse == ASSUME Reversal, KeepPrints, slip => slip' PROVE Course' /\ Chain'
  <1>1. PICK at \in {"givePrintsBack", "delete"} :
          /\ Goto(at)
          /\ at = "givePrintsBack" => UNCHANGED prints
          /\ at = "delete" => GiveAll(op.person, op.other)
    BY DEF KeepPrints, RefusedCall
  <1>2. /\ op.at = "keepPrints" /\ UNCHANGED <<undo, ref, rest, people>> /\ op.at \in OnTheWay
        /\ at \in OnTheWay \union {"undone", "refused"}
        /\ op.other \in Persons /\ op.other # Nobody
    BY <1>1, PeopleAssumption DEF KeepPrints, OnTheWay, Removing, RefusedCall, Reversal, Basics, Shape, TypeOK
  <1>3. /\ SameOp /\ op'.at = at /\ Chain' /\ ~vLoading /\ op.base \in Triples
        /\ Undisturbed' => Undisturbed /\ ~slip /\ ~slip'
    BY <1>1, <1>2, WentOn
  <1>4. CASE ~Undisturbed'
    BY <1>3, <1>4 DEF Course
  <1>5. CASE Undisturbed'
    <2>1. /\ op.other \notin op.base[1] /\ SamplesOf(op.base[2], op.other) = {}
          /\ pDisk = WithOther /\ ref = op.base[3] /\ vDisk = op.base[2]
      BY <1>2, <1>3, <1>5 DEF Reversal, Course, RemoveCourse
    <2>2. at = "givePrintsBack" => vDisk' = op.base[2]
      BY <1>1, <2>1 DEF prints
    <2>3. at = "delete" => vDisk' = Kept
      BY <1>1, <1>2, <1>3, <1>5, <2>1, GaveAll DEF Reversal, Kept
    <2>4. pDisk' = pDisk /\ ref' = ref /\ WithOther' = WithOther /\ Kept' = Kept
      BY <1>2, <1>3 DEF people, WithOther, Kept, SameOp
    <2>5. Beginning' /\ MergeCourse' /\ UnmergeCourse' /\ RemoveCourse' /\ MoveCourse'
      BY <1>1, <1>2, <1>3, <2>1, <2>2, <2>3, <2>4 DEF Beginning, Clean, MergeCourse, UnmergeCourse, RemoveCourse,
            MoveCourse, Starting, Merging, SameOp
    <2> QED BY <1>3, <2>5 DEF Course
  <1> QED BY <1>4, <1>5

LEMMA DeleteRecordCourse == ASSUME Reversal, DeleteRecord, slip => slip' PROVE Course' /\ Chain'
  <1>1. PICK at \in {"refused", "givePrintsBack", "deletePrints"} :
          /\ Goto(at)
          /\ at # "deletePrints" => UNCHANGED people
          /\ at = "refused" => op.other = Nobody
          /\ at = "givePrintsBack" => op.other # Nobody
    BY DEF DeleteRecord, RefusedCall
  <1>2. /\ op.at = "delete" /\ UNCHANGED <<undo, ref, rest, prints>> /\ op.at \in OnTheWay
        /\ at \in OnTheWay \union {"undone", "refused"}
    BY <1>1 DEF DeleteRecord, OnTheWay, Removing, RefusedCall
  <1>3. /\ SameOp /\ op'.at = at /\ Chain' /\ op.base \in Triples
        /\ Undisturbed' => Undisturbed
    BY <1>1, <1>2, WentOn
  <1>4. CASE at = "deletePrints" \/ ~Undisturbed'
    BY <1>3, <1>4, NoCourse DEF Course
  <1>5. CASE at # "deletePrints" /\ Undisturbed'
    <2>1. /\ op.other = Nobody => OnDisk = op.base
          /\ op.other # Nobody =>
               /\ op.other \notin op.base[1] /\ SamplesOf(op.base[2], op.other) = {}
               /\ pDisk = WithOther /\ ref = op.base[3] /\ vDisk = Kept
      BY <1>2, <1>3, <1>5 DEF Reversal, Course, RemoveCourse
    <2>2. pDisk' = pDisk /\ vDisk' = vDisk /\ ref' = ref
      BY <1>1, <1>2, <1>5 DEF people, prints
    <2>3. WithOther' = WithOther /\ Kept' = Kept /\ OnDisk' = OnDisk
      BY <1>3, <2>2 DEF WithOther, Kept, SameOp, OnDisk
    <2>4. Beginning' /\ MergeCourse' /\ UnmergeCourse' /\ RemoveCourse' /\ MoveCourse'
      BY <1>1, <1>3, <1>5, <2>1, <2>2, <2>3 DEF Beginning, Clean, MergeCourse, UnmergeCourse, RemoveCourse,
            MoveCourse, Starting, Merging, SameOp
    <2> QED BY <1>3, <2>4 DEF Course
  <1> QED BY <1>4, <1>5

LEMMA DeletePrintsCourse == ASSUME Reversal, DeletePrints, slip => slip' PROVE Course' /\ Chain'
  <1>1. /\ Goto("deleteRefs") /\ op.at = "deletePrints" /\ UNCHANGED <<undo, rest>> /\ op.at \in OnTheWay
        /\ "deleteRefs" \in OnTheWay \union {"undone", "refused"}
    BY DEF DeletePrints, OnTheWay, Removing
  <1>2. op'.at = "deleteRefs" /\ Chain'
    BY <1>1, WentOn
  <1> QED BY <1>2, NoCourse

LEMMA DeleteRefsCourse == ASSUME Reversal, DeleteRefs, slip => slip' PROVE Course' /\ Chain'
  <1>1. op'.at = "done" /\ undo' = <<>> /\ Len(undo') = 0
    BY DEF DeleteRefs, Done, Reversal, Basics, TypeOK, Operations
  <1>2. Chain'
    BY <1>1 DEF Chain
  <1> QED BY <1>1, <1>2, NoCourse

LEMMA GivePrintsBackCourse == ASSUME Reversal, GivePrintsBack, slip => slip' PROVE Course' /\ Chain'
  <1>1. /\ op.at = "givePrintsBack" /\ Goto("unmake") /\ UNCHANGED <<undo, ref, rest, people>>
        /\ op.at \in OnTheWay /\ "unmake" \in OnTheWay \union {"undone", "refused"}
        /\ op.other \in Persons /\ op.person \in Persons
        /\ IgnoredRefusal \/ GiveAll(op.other, op.person)
    BY DEF GivePrintsBack, OnTheWay, Removing, IgnoredRefusal, Reversal, Basics, Shape, TypeOK
  <1>2. /\ SameOp /\ op'.at = "unmake" /\ Chain' /\ ~vLoading /\ op.base \in Triples
        /\ Undisturbed' => Undisturbed /\ ~slip /\ ~slip'
    BY <1>1, WentOn
  <1>3. CASE ~Undisturbed'
    BY <1>2, <1>3 DEF Course
  <1>4. CASE Undisturbed'
    <2>1. /\ op.other \notin op.base[1] /\ SamplesOf(op.base[2], op.other) = {}
          /\ pDisk = WithOther /\ ref = op.base[3] /\ vDisk \in {op.base[2], Kept}
      BY <1>1, <1>2, <1>4 DEF Reversal, Course, RemoveCourse
    <2>2. vDisk' = Given(vDisk, SamplesOf(vDisk, op.other), op.person)
      BY <1>1, <1>2, <1>4, GaveAll DEF Reversal, IgnoredRefusal, Fault
    <2>3. vDisk' = op.base[2]
      BY <1>1, <1>2, <2>1, <2>2, GiveAllBack, TripleParts DEF Kept
    <2>4. OnDisk' = <<WithOther', op'.base[2], op'.base[3]>> /\ op'.other \notin op'.base[1]
      BY <1>1, <1>2, <2>1, <2>3 DEF OnDisk, people, WithOther, SameOp
    <2>5. Beginning' /\ MergeCourse' /\ UnmergeCourse' /\ RemoveCourse' /\ MoveCourse'
      BY <1>2, <2>4 DEF Beginning, Clean, MergeCourse, UnmergeCourse, RemoveCourse, MoveCourse, Starting, Merging
    <2> QED BY <1>2, <2>5 DEF Course
  <1> QED BY <1>3, <1>4

LEMMA UnmakeCourse == ASSUME Reversal, Unmake, slip => slip' PROVE Course' /\ Chain'
  <1>1. /\ op.at = "unmake" /\ Goto("refused") /\ UNCHANGED <<undo, ref, rest, prints>>
        /\ op.at \in OnTheWay /\ "refused" \in OnTheWay \union {"undone", "refused"}
        /\ IgnoredRefusal \/ RemoveRecord(op.other)
    BY DEF Unmake, Refused, OnTheWay, IgnoredRefusal
  <1>2. /\ SameOp /\ op'.at = "refused" /\ Chain' /\ ~pLoading /\ op.base \in Triples
        /\ Undisturbed' => Undisturbed /\ ~slip /\ ~slip'
    BY <1>1, WentOn
  <1>3. CASE ~Undisturbed'
    BY <1>2, <1>3 DEF Course
  <1>4. CASE Undisturbed'
    <2>1. op.other \notin op.base[1] /\ OnDisk = <<WithOther, op.base[2], op.base[3]>>
      BY <1>1, <1>2, <1>4 DEF Reversal, Course, RemoveCourse
    <2>2. pDisk' = pDisk \ {op.other}
      BY <1>1, <1>2, <1>4, RemovedRecord DEF Reversal, IgnoredRefusal, Fault
    <2>3. pDisk' = op.base[1] /\ vDisk' = op.base[2] /\ ref' = op.base[3]
      BY <1>1, <2>1, <2>2 DEF OnDisk, WithOther, prints
    <2>4. OnDisk' = op'.base
      BY <1>2, <2>3, TripleParts DEF OnDisk, SameOp
    <2>5. Beginning' /\ MergeCourse' /\ UnmergeCourse' /\ RemoveCourse' /\ MoveCourse'
      BY <1>2, <2>4 DEF Beginning, Clean, MergeCourse, UnmergeCourse, RemoveCourse, MoveCourse, Starting, Merging
    <2> QED BY <1>2, <2>5 DEF Course
  <1> QED BY <1>3, <1>4

\* A person was made under a new id: nobody and nothing is bound to it.
LEMMA CreateCourse ==
  ASSUME Reversal, slip => slip', NEW next \in {"keepPrints", "move"}, Create(next),
         UNCHANGED <<prints, ref, undo>>, op.at = IF next = "move" THEN "make" ELSE "anonymous"
  PROVE  Course' /\ Chain'
  <1>1. PICK id \in Persons \ used :
          /\ ChangePeople(P!Current \union {id}, {id})
          /\ op' = [op EXCEPT !.at = next, !.other = id]
          /\ UNCHANGED others
    BY DEF Create
  <1>2. op \in Operations /\ ~pLoading /\ op.base \in Triples /\ op.kind = (IF next = "move" THEN "moved" ELSE "removed")
    BY DEF Reversal, Basics, TypeOK, PeopleStore, Shape, Moving, Removing
  <1>3. /\ op'.at = next /\ op'.kind = op.kind /\ op'.person = op.person /\ op'.other = id /\ op'.new = op.new
        /\ op'.base = op.base /\ op'.count = op.count /\ op'.samples = op.samples
    BY <1>1, <1>2 DEF Operations
  <1>4. Chain'
    BY <1>1, <1>3, KeptChain DEF Reversal
  <1>5. CASE ~Undisturbed'
    BY <1>4, <1>5 DEF Course
  <1>6. CASE Undisturbed'
    <2>1. Undisturbed /\ ~slip' /\ id # Nobody
      BY <1>1, <1>3, <1>6, PeopleAssumption DEF Undisturbed
    <2>2. /\ OnDisk = op.base
          /\ next = "move" => op.new /\ \E s \in Samples : op.samples = {s} /\ op.base[2][s] = op.person
      BY <2>1 DEF Reversal, Course, Beginning, Clean, MoveCourse
    <2>3. /\ id \notin op.base[1] /\ op.base[3] # id /\ \A s \in Samples : op.base[2][s] # id
      BY <1>1, <2>1, <2>2 DEF OnDisk, Reversal, Basics, TypeOK, IdsUsed
    <2>4. SamplesOf(op.base[2], id) = {}
      BY <2>3 DEF SamplesOf
    <2>5. pDisk' = pDisk \union {id}
      BY <1>1, <1>2, <2>1, ChangedPeople, Steady DEF Reversal
    <2>6. pDisk' = op.base[1] \union {id} /\ vDisk' = op.base[2] /\ ref' = op.base[3]
      BY <2>2, <2>5 DEF OnDisk, prints
    <2>7. next = "move" => Reversible(op') /\ PeopleAfter(op') = op.base[1] \union {id}
      BY <1>2, <1>3, <2>2, <2>3, <2>4 DEF Reversible, PeopleAfter
    <2>8. Beginning' /\ MergeCourse' /\ UnmergeCourse' /\ RemoveCourse' /\ MoveCourse'
      BY <1>3, <2>1, <2>3, <2>4, <2>6, <2>7 DEF Beginning, Clean, MergeCourse, UnmergeCourse, RemoveCourse,
          MoveCourse, Starting, Merging, WithOther, OnDisk
    <2> QED BY <1>4, <2>8 DEF Course
  <1> QED BY <1>5, <1>6

\* The files are again, or still, what they were.
LEMMA NotChanged ==
  ASSUME Reversal, op'.at \in {"refused", "undone"}, op.base \in Triples, SameOp,
         pDisk' = op.base[1], vDisk' = op.base[2], ref' = op.base[3]
  PROVE  Course'
  <1>1. OnDisk' = op'.base
    BY TripleParts DEF OnDisk, SameOp
  <1> QED BY <1>1 DEF Course, Beginning, Clean, MergeCourse, UnmergeCourse, RemoveCourse, MoveCourse, Starting, Merging

\* The operation is refused before it changed anything.
LEMMA RefusedCourse ==
  ASSUME Reversal, slip => slip', op.at \in Clean \cap OnTheWay, Refused, UNCHANGED <<undo, ref, rest, pDisk, vDisk>>
  PROVE  Course' /\ Chain'
  <1>1. Goto("refused") /\ op.at \in OnTheWay /\ "refused" \in OnTheWay \union {"undone", "refused"}
    BY DEF Refused
  <1>2. /\ SameOp /\ op'.at = "refused" /\ Chain'
        /\ Undisturbed' => Undisturbed
    BY <1>1, WentOn
  <1>3. Undisturbed => OnDisk = op.base
    BY DEF Reversal, Course, Beginning
  <1>4. Undisturbed' => OnDisk' = op'.base
    BY <1>2, <1>3 DEF OnDisk, SameOp
  <1>5. op'.at = "refused" /\ OnDisk' = op'.base => Beginning' /\ MergeCourse' /\ UnmergeCourse' /\ RemoveCourse' /\ MoveCourse'
    BY DEF Beginning, Clean, MergeCourse, UnmergeCourse, RemoveCourse, MoveCourse, Starting, Merging
  <1> QED BY <1>2, <1>4, <1>5 DEF Course

LEMMA MakeCourse ==
  ASSUME Reversal, slip => slip', MakeAnonymous \/ MakePerson
  PROVE  Course' /\ Chain'
  <1>1. CASE RefusedCall /\ Refused /\ UNCHANGED rest
    <2>1. op.at \in Clean \cap OnTheWay /\ UNCHANGED <<undo, ref, rest, pDisk, vDisk>>
      BY <1>1 DEF MakeAnonymous, MakePerson, Clean, OnTheWay, Removing, Moving, RefusedCall, people, prints
    <2> QED BY <1>1, <2>1, RefusedCourse
  <1>2. CASE MakeAnonymous /\ Create("keepPrints") /\ UNCHANGED prints
    BY <1>2, CreateCourse DEF MakeAnonymous
  <1>3. CASE MakePerson /\ Create("move") /\ UNCHANGED prints
    BY <1>3, CreateCourse DEF MakePerson
  <1> QED BY <1>1, <1>2, <1>3 DEF MakeAnonymous, MakePerson

\* A sample was moved or removed.
LEMMA SampleDoneCourse ==
  ASSUME Reversal, slip => slip', op.at \in {"move", "removeSample"}, NEW s \in op.samples,
         SetOne(s, Taker(op)) \/ (GiveOne(s, Taker(op)) /\ V!Current[s] # Nobody), Done, Push(op), UNCHANGED <<people, ref, rest>>
  PROVE  Course' /\ Chain'
  <1>1. /\ op \in Operations /\ op.base \in Triples /\ op.kind \in {"moved", "sampleRemoved"} /\ ~vLoading
        /\ op.samples \subseteq Samples /\ (op.at = "removeSample" => ~op.new)
    BY DEF Reversal, Basics, TypeOK, Shape, Moving, Sampling, PrintsStore, Operations
  <1>2. op'.at = "done" /\ op'.kind = op.kind
    BY <1>1 DEF Done, Operations
  <1>3. ASSUME op.count = others, ~slip'
        PROVE  Reversible(op) /\ After(op) = OnDisk'
    <2>1. Undisturbed
      BY <1>3 DEF Undisturbed
    <2>2. /\ Reversible(op)
          /\ op.at = "move" => OnDisk = <<PeopleAfter(op), op.base[2], op.base[3]>>
          /\ op.at = "removeSample" => OnDisk = op.base
      BY <2>1 DEF Reversal, Course, Beginning, Clean, MoveCourse
    <2>3. pDisk = PeopleAfter(op) /\ vDisk = op.base[2] /\ ref = op.base[3]
      BY <1>1, <2>2 DEF OnDisk, PeopleAfter
    <2>4. vDisk' = Given(vDisk, {s}, Taker(op)) /\ op.samples = {s}
      BY <1>1, <1>3, <2>2, GaveSample DEF Reversal, Reversible
    <2>5. pDisk' = PeopleAfter(op) /\ vDisk' = PrintsAfter(op) /\ ref' = RefAfter(op)
      BY <1>1, <2>3, <2>4 DEF PrintsAfter, RefAfter, people
    <2> QED BY <2>2, <2>5 DEF After, OnDisk
  <1>4. Chain'
    BY <1>1, <1>2, <1>3, PushedChain DEF Reversal, rest
  <1> QED BY <1>2, <1>4, NoCourse

LEMMA MoveSampleCourse == ASSUME Reversal, MoveSample, slip => slip' PROVE Course' /\ Chain'
  <1>1. op.at = "move" /\ UNCHANGED <<ref, rest>> /\ op.kind = "moved" /\ op.base \in Triples
    BY DEF MoveSample, Reversal, Basics, Shape, Moving
  <1>2. CASE Done /\ Push(op) /\ UNCHANGED people /\ \E s \in op.samples : V!Current[s] # Nobody /\ GiveOne(s, op.other)
    BY <1>1, <1>2, SampleDoneCourse DEF Taker
  <1>3. CASE NotMoved /\ UNCHANGED <<undo, people, vDisk>>
    <2>1. PICK at \in {"unmake", "refused"} : Goto(at) /\ at = IF op.new THEN "unmake" ELSE "refused"
      BY <1>3 DEF NotMoved
    <2>2. op.at \in OnTheWay /\ at \in OnTheWay \union {"undone", "refused"}
      BY <1>1, <2>1 DEF OnTheWay, Moving
    <2>3. /\ SameOp /\ op'.at = at /\ Chain'
          /\ Undisturbed' => Undisturbed
      BY <1>1, <1>3, <2>1, <2>2, WentOn
    <2>4. CASE ~Undisturbed'
      BY <2>3, <2>4 DEF Course
    <2>5. CASE Undisturbed'
      <3>1. Reversible(op) /\ OnDisk = <<PeopleAfter(op), op.base[2], op.base[3]>>
        BY <1>1, <2>3, <2>5 DEF Reversal, Course, MoveCourse
      <3>2. OnDisk' = OnDisk
        BY <1>1, <1>3 DEF OnDisk, people
      <3>3. at = "refused" => OnDisk' = op'.base
        BY <1>1, <2>1, <2>3, <3>1, <3>2, TripleParts DEF PeopleAfter, SameOp
      <3>4. at = "unmake" => OnDisk' = <<WithOther', op'.base[2], op'.base[3]>> /\ op'.other \notin op'.base[1]
        BY <1>1, <2>1, <2>3, <3>1, <3>2 DEF PeopleAfter, SameOp, Reversible, WithOther
      <3>5. Beginning' /\ MergeCourse' /\ UnmergeCourse' /\ RemoveCourse' /\ MoveCourse'
        BY <2>1, <2>3, <3>3, <3>4 DEF Beginning, Clean, MergeCourse, UnmergeCourse, RemoveCourse, MoveCourse,
            Starting, Merging
      <3> QED BY <2>3, <3>5 DEF Course
    <2> QED BY <2>4, <2>5
  <1> QED BY <1>2, <1>3 DEF MoveSample, RefusedCall, V!Find, prints

LEMMA RemoveSampleCourse == ASSUME Reversal, RemoveSample, slip => slip' PROVE Course' /\ Chain'
  <1>1. op.at = "removeSample" /\ UNCHANGED <<ref, rest>> /\ op.kind = "sampleRemoved" /\ op.at \in Clean \cap OnTheWay
    BY DEF RemoveSample, Reversal, Basics, Shape, Sampling, Clean, OnTheWay
  <1>2. CASE Done /\ Push(op) /\ UNCHANGED people /\ \E s \in op.samples : SetOne(s, Nobody)
    BY <1>1, <1>2, SampleDoneCourse DEF Taker
  <1>3. CASE Refused /\ UNCHANGED <<undo, people, vDisk>>
    <2>1. UNCHANGED pDisk
      BY <1>3 DEF people
    <2> QED BY <1>1, <1>3, <2>1, RefusedCourse
  <1> QED BY <1>2, <1>3 DEF RemoveSample, RefusedCall, V!Find, prints

LEMMA MoveBackCourse ==
  ASSUME Reversal, slip => slip', MoveBack \/ AddBack
  PROVE  Course' /\ Chain'
  <1> DEFINE next == IF op.at = "moveBack" THEN "unused" ELSE "undone"
  <1>1. /\ op.at \in {"moveBack", "addBack"} /\ Goto(next) /\ UNCHANGED <<undo, ref, rest, people>>
        /\ op.at \in OnTheWay /\ next \in OnTheWay \union {"undone", "refused"}
        /\ op.kind = (IF op.at = "moveBack" THEN "moved" ELSE "sampleRemoved")
        /\ op.samples \subseteq Samples /\ op.person \in Persons
        /\ op.at = "moveBack" => op.other # Nobody
        /\ op.at = "addBack" => ~op.new
    BY PeopleAssumption DEF MoveBack, AddBack, OnTheWay, Moving, Sampling, IgnoredRefusal, Reversal, Basics, Shape, TypeOK,
        Operations
  <1>2. PICK s \in op.samples :
          slip' \/ SetOne(s, op.person) \/ (op.at = "moveBack" /\ GiveOne(s, op.person))
    BY DEF MoveBack, AddBack, IgnoredRefusal, Fault
  <1> HIDE DEF next
  <1>3. /\ SameOp /\ op'.at = next /\ Chain' /\ ~vLoading /\ op.base \in Triples
        /\ Reversible(op') = Reversible(op) /\ PeopleAfter(op') = PeopleAfter(op)
        /\ Undisturbed' => Undisturbed /\ ~slip /\ ~slip'
    BY <1>1, WentOn
  <1>4. CASE ~Undisturbed'
    BY <1>3, <1>4 DEF Course
  <1>5. CASE Undisturbed'
    <2>1. Reversible(op) /\ OnDisk = After(op)
      BY <1>1, <1>3, <1>5 DEF Reversal, Course, MoveCourse
    <2>2. op.samples = {s} /\ op.base[2][s] = op.person
      BY <1>1, <2>1 DEF Reversible
    <2>3. vDisk = Given(op.base[2], {s}, Taker(op)) /\ pDisk = PeopleAfter(op) /\ ref = op.base[3]
      BY <1>1, <2>1, <2>2 DEF OnDisk, After, PrintsAfter, RefAfter
    <2>4. SetOne(s, op.person) \/ (GiveOne(s, op.person) /\ V!Current[s] # Nobody)
      <3>1. V!Current = vDisk
        BY <1>3, <1>5, Steady DEF Reversal
      <3>2. op.at = "moveBack" => vDisk[s] = op.other
        BY <1>1, <2>3 DEF Given, Taker
      <3> QED BY <1>1, <1>2, <1>3, <1>5, <3>1, <3>2
    <2>5. vDisk' = Given(vDisk, {s}, op.person)
      BY <1>1, <1>3, <1>5, <2>4, GaveSample DEF Reversal
    <2>6. vDisk' = op.base[2]
      BY <1>1, <1>3, <2>2, <2>3, <2>5, GiveBack, TripleParts
    <2>7. OnDisk' = <<PeopleAfter(op), op.base[2], op.base[3]>>
      BY <1>1, <2>3, <2>6 DEF OnDisk, people
    <2>8. op.at = "addBack" => OnDisk' = op.base
      BY <1>1, <1>3, <2>7, TripleParts DEF PeopleAfter
    <2>9. Beginning' /\ MergeCourse' /\ UnmergeCourse' /\ RemoveCourse' /\ MoveCourse'
      BY <1>1, <1>3, <2>1, <2>7, <2>8 DEF Beginning, Clean, MergeCourse, UnmergeCourse, RemoveCourse, MoveCourse, Starting,
            Merging, SameOp, next
    <2> QED BY <1>3, <2>9 DEF Course
  <1> QED BY <1>4, <1>5

LEMMA DropUnusedCourse == ASSUME Reversal, DropUnused, slip => slip' PROVE Course' /\ Chain'
  <1>1. /\ op.at = "unused" /\ Goto("undone") /\ UNCHANGED <<undo, ref, rest, prints>>
        /\ op.at \in OnTheWay /\ "undone" \in OnTheWay \union {"undone", "refused"} /\ op.kind = "moved"
    BY DEF DropUnused, OnTheWay, Moving, IgnoredRefusal, Reversal, Basics, Shape
  <1>2. /\ SameOp /\ op'.at = "undone" /\ Chain' /\ ~pLoading /\ ~vLoading /\ op.base \in Triples
        /\ Undisturbed' => Undisturbed /\ ~slip /\ ~slip'
    BY <1>1, WentOn
  <1>3. CASE ~Undisturbed'
    BY <1>2, <1>3 DEF Course
  <1>4. CASE Undisturbed'
    <2>1. Reversible(op) /\ OnDisk = <<PeopleAfter(op), op.base[2], op.base[3]>>
      BY <1>1, <1>2, <1>4 DEF Reversal, Course, MoveCourse
    <2>2. pMem = pDisk /\ vMem = vDisk
      BY <1>1, <1>2, <1>4 DEF Reversal, Basics, PeopleStore, PrintsStore, StillFresh
    <2>3. CASE op.new
      <3>1. /\ op.other \notin op.base[1] /\ SamplesOf(op.base[2], op.other) = {} /\ op.base[3] # op.other
            /\ PeopleAfter(op) = op.base[1] \union {op.other}
        BY <1>1, <2>1, <2>3 DEF Reversible, PeopleAfter
      <3>2. SamplesOf(vMem, op.other) = {} /\ op.other \in pMem /\ ref # op.other
        BY <2>1, <2>2, <3>1 DEF OnDisk
      <3>3. RemoveRecord(op.other)
        BY <1>2, <1>4, <2>3, <3>2 DEF DropUnused, IgnoredRefusal, Fault
      <3>4. pDisk' = pDisk \ {op.other}
        BY <1>2, <1>4, <3>3, RemovedRecord DEF Reversal
      <3> QED BY <1>1, <1>2, <2>1, <3>1, <3>4, NotChanged DEF OnDisk, prints
    <2>4. CASE ~op.new
      <3>1. UNCHANGED people /\ PeopleAfter(op) = op.base[1]
        BY <1>1, <2>4 DEF DropUnused, PeopleAfter
      <3> QED BY <1>1, <1>2, <2>1, <3>1, NotChanged DEF OnDisk, prints, people
    <2> QED BY <2>3, <2>4
  <1> QED BY <1>3, <1>4

----------------------------------------------------------------------------
(* Beginning and ending *)

\* Between operations, the last entry of the stack leads to what is there.
LEMMA SameGround ==
  ASSUME Reversal, UNCHANGED <<undo, others>>, slip => slip', op'.at # "done",
         op.at = "idle" \/ op.count = others => slip' \/ Ground' = Ground
  PROVE  Chain'
  <1>1. SUFFICES ASSUME NEW i \in 1 .. Len(undo), undo[i].count = others, ~slip'
                 PROVE  /\ Reversible(undo[i])
                        /\ After(undo[i]) = IF i = Len(undo) THEN Ground' ELSE undo[i + 1].base
    BY DEF Chain
  <1>2. op.at = "idle" \/ op.count = others
    <2>1. undo[i].count <= op.count \/ op.at = "idle"
      BY <1>1 DEF Reversal, Basics, Counts
    <2>2. op.count <= others /\ op.count \in Nat /\ others \in Nat
      BY DEF Reversal, Basics, Counts, TypeOK, Operations
    <2> QED BY <1>1, <2>1, <2>2
  <1>3. Ground' = Ground
    BY <1>1, <1>2
  <1> HIDE DEF Ground
  <1> QED BY <1>1, <1>3 DEF Reversal, Chain

LEMMA IdleCourse ==
  ASSUME Reversal, op' = Idle, UNCHANGED <<undo, others, OnDisk, slip>>, op.at # "people",
         op.at \in Starting => op.kind = "none",
         op.at \in {"idle", "done", "refused", "undone"} \union Starting
  PROVE  Course' /\ Chain'
  <1>1. op'.at = "idle"
    BY IdleResult
  <1>2. op.count = others /\ ~slip /\ op.at \notin {"idle", "done"} => OnDisk = op.base
    BY DEF Reversal, Course, Undisturbed, Beginning, Clean
  <1>3. op.at = "idle" \/ op.count = others => slip' \/ Ground' = Ground
    BY <1>1, <1>2 DEF Ground
  <1>4. Chain'
    BY <1>1, <1>3, SameGround
  <1> QED BY <1>1, <1>4, NoCourse

LEMMA FinishCourse == ASSUME Reversal, Finish PROVE Course' /\ Chain'
  BY IdleCourse DEF Finish, people, prints, mishaps, rest, OnDisk, Starting

LEMMA ReloadOnlyCourse == ASSUME Reversal, ReloadOnly PROVE Course' /\ Chain'
  BY IdleCourse DEF ReloadOnly, Reloaded, V!Load, people, mishaps, OnDisk, Starting

\* An operation of the user begins with what is there.
LEMMA BeginCourse ==
  ASSUME Reversal, Begin \/ BeginRemoveSample
  PROVE  Course' /\ Chain'
  <1>1. /\ op.at = "idle" /\ UNCHANGED <<undo, others, slip, pDisk, vDisk, ref>>
        /\ op'.at \in {"people", "sample"} /\ op'.kind = "none" /\ op'.base = OnDisk
    BY DEF Begin, BeginRemoveSample, Idle, P!Stamp, V!Stamp, people, prints, mishaps, rest
  <1>2. OnDisk' = op'.base
    BY <1>1 DEF OnDisk
  <1>3. Course'
    BY <1>1, <1>2 DEF Course, Beginning, Clean, MergeCourse, UnmergeCourse, RemoveCourse, MoveCourse, Starting, Merging
  <1>4. Ground' = Ground
    BY <1>1, <1>2 DEF Ground
  <1>5. Chain'
    BY <1>1, <1>4, SameGround
  <1> QED BY <1>3, <1>5

\* An undo begins with what the last entry led to.
LEMMA BeginUndoCourse == ASSUME Reversal, BeginUndo PROVE Course' /\ Chain'
  <1> DEFINE n == Len(undo)
             e == undo[n]
  <1>1. /\ op.at = "idle" /\ UNCHANGED <<others, slip, pDisk, vDisk, ref>>
        /\ op' = [e EXCEPT !.at = "people"]
    BY DEF BeginUndo, P!Stamp, prints, mishaps, rest
  <1>2. /\ n \in 1 .. MaxUndo /\ e \in Operations /\ Len(undo') = n - 1
        /\ \A i \in 1 .. Len(undo') : undo'[i] = undo[i]
    BY PopResult DEF BeginUndo, Reversal, Basics
  <1>3. /\ op'.at = "people" /\ op'.kind = e.kind /\ op'.person = e.person /\ op'.other = e.other
        /\ op'.new = e.new /\ op'.base = e.base /\ op'.count = e.count /\ op'.samples = e.samples
        /\ op'.bound = e.bound
    BY <1>1, <1>2 DEF Operations
  <1>4. n \in Nat \ {0} /\ e.kind # "none"
    BY <1>2, PeopleAssumption DEF Reversal, Basics, StackShape, Entry, Undoable
  <1>5. Reversible(op') = Reversible(e) /\ After(op') = After(e)
    BY <1>3, SameEntry
  <1>6. Ground = OnDisk /\ Ground' = e.base
    BY <1>1, <1>3 DEF Ground
  <1> HIDE DEF Ground, e
  <1>7. e.count = others /\ ~slip => Reversible(e) /\ After(e) = OnDisk
    BY <1>4, <1>6 DEF Reversal, Chain, e
  <1>8. Course'
    <2>1. Undisturbed' => Reversible(op') /\ OnDisk' = After(op')
      BY <1>1, <1>3, <1>5, <1>7 DEF Undisturbed, OnDisk
    <2> QED BY <1>3, <1>4, <2>1 DEF Course, Beginning, Clean, MergeCourse, UnmergeCourse, RemoveCourse, MoveCourse,
          Starting, Merging
  <1>9. Chain'
    <2>1. SUFFICES ASSUME NEW i \in 1 .. n - 1, undo[i].count = others, ~slip
                   PROVE  /\ Reversible(undo[i])
                          /\ After(undo[i]) = IF i = n - 1 THEN e.base ELSE undo'[i + 1].base
      BY <1>1, <1>2, <1>3, <1>6 DEF Chain
    <2>2. i \in 1 .. n /\ i # n /\ (i = n - 1 => i + 1 = n) /\ (i # n - 1 => i + 1 \in 1 .. n - 1)
      BY <1>4
    <2>3. Reversible(undo[i]) /\ After(undo[i]) = undo[i + 1].base
      BY <2>1, <2>2 DEF Reversal, Chain
    <2> QED BY <1>2, <2>2, <2>3 DEF e
  <1> QED BY <1>8, <1>9

LEMMA ReloadPeopleCourse == ASSUME Reversal, ReloadPeople PROVE Course' /\ Chain'
  <1>1. /\ op.at = "people" /\ UNCHANGED <<undo, others, slip, OnDisk>>
    BY DEF ReloadPeople, P!Load, V!Stamp, OnDisk, mishaps, rest
  <1>2. SameOp /\ op'.at = "prints" /\ op'.samples = op.samples /\ op'.bound = op.bound
    BY GotoResult DEF ReloadPeople, Reversal, Basics, TypeOK, Places
  <1>3. Reversible(op') = Reversible(op) /\ After(op') = After(op)
    BY <1>2, SameEntry DEF SameOp
  <1>4. Chain'
    BY <1>1, <1>2, KeptChain DEF SameOp, Reversal
  <1>5. Undisturbed' => /\ op.kind = "none" => OnDisk = op.base
                        /\ op.kind # "none" => Reversible(op) /\ OnDisk = After(op)
    BY <1>1, <1>2 DEF Reversal, Course, Beginning, Starting, Undisturbed, SameOp
  <1>6. Course'
    BY <1>1, <1>2, <1>3, <1>5 DEF Course, Beginning, Clean, MergeCourse, UnmergeCourse, RemoveCourse, MoveCourse,
          Starting, Merging, SameOp
  <1> QED BY <1>4, <1>6

\* The files are loaded: as they are, if nobody changed them since the operation began.
LEMMA SetOut ==
  ASSUME Reversal, op.at \in {"prints", "sample"}, V!Load, UNCHANGED <<people, ref, undo, slip, others>>,
         op'.base = op.base, op'.count = op.count, op'.at \notin {"idle", "done"}
  PROVE  /\ Chain' /\ UNCHANGED OnDisk
         /\ Undisturbed' => Undisturbed /\ vMem' = vDisk
  <1>1. UNCHANGED OnDisk
    BY DEF V!Load, OnDisk, people
  <1>2. Chain'
    BY KeptChain DEF Reversal
  <1>3. Undisturbed' => Undisturbed /\ ~slip
    BY DEF Undisturbed
  <1>4. Undisturbed => vFresh /\ ~slip
    BY DEF Reversal, Basics, StillFresh, Undisturbed
  <1>5. Undisturbed => vMem' = vDisk
    BY <1>4, LoadPrintsResult DEF Reversal
  <1> QED BY <1>1, <1>2, <1>3, <1>5

\* An operation of the user has changed nothing yet.
LEMMA StartCourse ==
  ASSUME Reversal, slip => slip', op.at \in {"prints", "sample"}, op.kind = "none", V!Load,
         UNCHANGED <<people, ref, undo, slip, others>>, op'.base = op.base, op'.count = op.count,
         op'.at \in {"contains", "anonymous", "delete", "make", "move", "removeSample"},
         op'.at = "contains" => op'.person # op'.other,
         op'.at = "delete" => op'.other = Nobody,
         op'.at = "make" => op'.new,
         op'.at = "move" => op'.kind = "moved" /\ ~op'.new,
         op'.at = "removeSample" => op'.kind = "sampleRemoved" /\ ~op'.new,
         op'.at \in {"make", "move", "removeSample"} =>
           \E s \in Samples : op'.samples = {s} /\ op'.person = vMem'[s]
  PROVE  Course' /\ Chain'
  <1>1. /\ Chain' /\ UNCHANGED OnDisk
        /\ Undisturbed' => Undisturbed /\ vMem' = vDisk
    BY SetOut
  <1>2. CASE ~Undisturbed'
    BY <1>1, <1>2 DEF Course
  <1>3. CASE Undisturbed'
    <2>1. OnDisk = op.base /\ op.base \in Triples
      BY <1>1, <1>3 DEF Reversal, Course, Beginning, Starting, Basics, Shape
    <2>2. OnDisk' = op'.base /\ op'.base \in Triples /\ op'.base[2] = vMem'
      BY <1>1, <1>3, <2>1 DEF OnDisk
    <2>3. op'.at \in {"move", "removeSample"} => Reversible(op')
      BY <2>2 DEF Reversible
    <2>4. op'.at = "move" => OnDisk' = <<PeopleAfter(op'), op'.base[2], op'.base[3]>>
      BY <2>2, TripleParts DEF PeopleAfter
    <2>5. Beginning' /\ MergeCourse' /\ UnmergeCourse' /\ RemoveCourse'
      BY <2>2 DEF Beginning, Clean, MergeCourse, UnmergeCourse, RemoveCourse, Starting, Merging
    <2>6. MoveCourse'
      BY <2>2, <2>3, <2>4 DEF MoveCourse
    <2> QED BY <1>1, <2>5, <2>6 DEF Course
  <1> QED BY <1>2, <1>3

LEMMA StartMergeCourse == ASSUME Reversal, StartMerge PROVE Course' /\ Chain'
  <1>1. /\ op \in Operations /\ op.at = "prints" /\ op.kind = "none" /\ V!Load
        /\ UNCHANGED <<people, ref, undo, slip, others>>
    BY DEF StartMerge, Start, Reloaded, Reversal, Basics, TypeOK, mishaps
  <1>2. /\ op'.at = "contains" /\ op'.person # op'.other /\ op'.base = op.base /\ op'.count = op.count
    BY <1>1 DEF StartMerge, Operations
  <1> QED BY <1>1, <1>2, StartCourse

LEMMA StartRemoveCourse == ASSUME Reversal, StartRemove PROVE Course' /\ Chain'
  <1>1. /\ op \in Operations /\ op.at = "prints" /\ op.kind = "none" /\ op.other = Nobody /\ V!Load
        /\ UNCHANGED <<people, ref, undo, slip, others>>
    BY DEF StartRemove, Start, Reloaded, Reversal, Basics, TypeOK, Shape, mishaps
  <1>2. /\ op'.at \in {"anonymous", "delete"} /\ op'.other = Nobody /\ op'.base = op.base /\ op'.count = op.count
    BY <1>1 DEF StartRemove, Operations
  <1> QED BY <1>1, <1>2, StartCourse

LEMMA StartMoveCourse == ASSUME Reversal, StartMove PROVE Course' /\ Chain'
  <1>1. /\ op \in Operations /\ op.at = "prints" /\ op.kind = "none" /\ ~op.new /\ V!Load
        /\ UNCHANGED <<people, ref, undo, slip, others>>
    BY DEF StartMove, Start, Reloaded, Reversal, Basics, TypeOK, Shape, mishaps
  <1>2. PICK s \in Samples :
           \/ \E to \in pMem \ {vMem'[s]} :
                op' = [op EXCEPT !.at = "move", !.kind = "moved", !.person = vMem'[s],
                                 !.other = to, !.samples = {s}]
           \/ op' = [op EXCEPT !.at = "make", !.kind = "moved", !.person = vMem'[s],
                               !.new = TRUE, !.samples = {s}]
    BY DEF StartMove
  <1>3. /\ op'.kind = "moved" /\ op'.base = op.base /\ op'.count = op.count
        /\ op'.samples = {s} /\ op'.person = vMem'[s]
        /\ \/ op'.at = "move" /\ op'.new = op.new
           \/ op'.at = "make" /\ op'.new = TRUE
    BY <1>1, <1>2 DEF Operations
  <1> QED BY <1>1, <1>3, StartCourse

LEMMA StartRemoveSampleCourse == ASSUME Reversal, StartRemoveSample PROVE Course' /\ Chain'
  <1>1. /\ op \in Operations /\ op.at = "sample" /\ op.kind = "none" /\ ~op.new /\ V!Load
        /\ UNCHANGED <<people, ref, undo, slip, others>>
    BY DEF StartRemoveSample, Reversal, Basics, TypeOK, Shape, mishaps
  <1>2. CASE op' = Idle
    BY <1>1, <1>2, IdleCourse DEF OnDisk, people, V!Load, Starting
  <1>3. CASE \E s \in Samples :
               op' = [op EXCEPT !.at = "removeSample", !.kind = "sampleRemoved",
                                !.person = vMem'[s], !.samples = {s}]
    <2>1. /\ op'.at = "removeSample" /\ op'.kind = "sampleRemoved" /\ op'.new = op.new
          /\ op'.base = op.base /\ op'.count = op.count
          /\ \E s \in Samples : op'.samples = {s} /\ op'.person = vMem'[s]
      BY <1>1, <1>3 DEF Operations
    <2> QED BY <1>1, <2>1, StartCourse
  <1> QED BY <1>2, <1>3 DEF StartRemoveSample

LEMMA StartUndoCourse ==
  ASSUME Reversal, UndoMerge \/ UndoMove \/ UndoRemoveSample
  PROVE  Course' /\ Chain'
  <1>1. PICK at \in {"restoreDrop", "moveBack", "addBack"} :
          /\ Goto(at) /\ op.at = "prints" /\ op.kind # "none" /\ V!Load
          /\ UNCHANGED <<people, ref, undo, slip, others>>
    BY DEF UndoMerge, UndoMove, UndoRemoveSample, StartUndo, Reloaded, mishaps
  <1>2. SameOp /\ op'.at = at /\ op'.samples = op.samples /\ op'.bound = op.bound
    BY <1>1, GotoResult DEF Places, Reversal, Basics, TypeOK
  <1>3. Reversible(op') = Reversible(op) /\ After(op') = After(op)
    BY <1>2, SameEntry DEF SameOp
  <1>4. /\ Chain' /\ UNCHANGED OnDisk
        /\ Undisturbed' => Undisturbed
    BY <1>1, <1>2, SetOut DEF SameOp
  <1>5. Undisturbed' => Reversible(op') /\ OnDisk' = After(op')
    BY <1>1, <1>3, <1>4 DEF Reversal, Course, Beginning, Starting
  <1>6. Course'
    BY <1>1, <1>2, <1>5 DEF Course, Beginning, Clean, MergeCourse, UnmergeCourse, RemoveCourse, MoveCourse,
          Starting, Merging
  <1> QED BY <1>4, <1>6

----------------------------------------------------------------------------
(* Every step *)

\* After a change of the other process nothing is said of what was begun before it.
LEMMA OtherCourse ==
  ASSUME Reversal, OtherCreates \/ OtherRemoves \/ OtherAddsSample
  PROVE  Course' /\ Chain'
  <1>1. others' = others + 1 /\ UNCHANGED <<op, undo>>
    BY DEF OtherCreates, OtherRemoves, OtherAddsSample, Other
  <1>2. op.count # others'
    BY <1>1 DEF Reversal, Basics, Counts, TypeOK, Operations
  <1>3. Course'
    BY <1>1, <1>2 DEF Course, Undisturbed
  <1>4. \A i \in 1 .. Len(undo) : undo[i].count # others'
    <2> TAKE i \in 1 .. Len(undo)
    <2>1. undo[i] \in Operations
      BY DEF Reversal, Basics, TypeOK
    <2>2. undo[i].count <= others /\ undo[i].count \in Nat /\ others \in Nat
      BY <2>1 DEF Reversal, Basics, Counts, TypeOK, Operations
    <2> QED BY <1>1, <2>2
  <1>5. Chain'
    BY <1>1, <1>4 DEF Reversal, Chain
  <1> QED BY <1>3, <1>5

LEMMA InitReversal == ASSUME Init PROVE Reversal
  <1>1. op.at = "idle" /\ op.kind = "none" /\ undo = <<>> /\ Len(undo) = 0
    BY DEF Init, Idle
  <1>2. Course /\ Chain
    BY <1>1 DEF Course, Chain, Beginning, Clean, MergeCourse, UnmergeCourse, RemoveCourse, MoveCourse, Starting, Merging
  <1> QED BY <1>2, InitBasics DEF Reversal

LEMMA StutterReversal == ASSUME Reversal, UNCHANGED vars PROVE Course' /\ Chain'
  <1>1. UNCHANGED <<op, undo, others, slip, pDisk, vDisk, ref>>
    BY DEF vars, people, prints, mishaps, rest
  <1> QED BY <1>1 DEF Reversal, Course, Chain, Ground, Undisturbed, Beginning, MergeCourse, UnmergeCourse, RemoveCourse,
        MoveCourse, OnDisk, WithOther, Kept

\* A call that failed unseen is never forgotten.
LEMMA NextSlip ==
  ASSUME Basics, [Next]_vars
  PROVE  slip => slip'
  <1>1. CASE UNCHANGED mishaps \/ Fault(TRUE) \/ Fault(FALSE)
    BY <1>1, SlipStays
  <1>2. \/ UNCHANGED mishaps \/ Fault(TRUE) \/ Fault(FALSE)
        \/ \E new, ids : ChangePeople(new, ids)
        \/ \E new, ss : ChangePrints(new, ss)
    BY DEF Next, vars, Begin, BeginUndo, ReloadPeople, ReloadOnly, Finish, StartMerge, BothKnown,
      FoldRecord, FoldPrints, FoldRefs, UndoMerge, RestoreDrop, RestoreKeep, RestoreRecord, RefreshPrints,
      UnfoldPrints, UnfoldRefs, StartRemove, MakeAnonymous, KeepPrints, DeleteRecord, DeletePrints, DeleteRefs,
      GivePrintsBack, Unmake, StartMove, MakePerson, MoveSample, UndoMove, MoveBack, DropUnused, BeginRemoveSample,
      StartRemoveSample, RemoveSample, UndoRemoveSample, AddBack, OtherCreates, OtherRemoves, OtherAddsSample,
      BarFile, FreeFile, StartUndo, Start, Reloaded, Create, Other, RefusedCall, IgnoredRefusal, RemoveRecord, GiveAll, GiveOne, SetOne
  <1>3. ASSUME NEW new, NEW ids, ChangePeople(new, ids)
        PROVE  UNCHANGED mishaps \/ Fault(TRUE)
    BY <1>3 DEF ChangePeople
  <1>4. ASSUME NEW new, NEW ss, ChangePrints(new, ss)
        PROVE  UNCHANGED mishaps \/ Fault(TRUE)
    BY <1>4 DEF ChangePrints
  <1> QED BY <1>1, <1>2, <1>3, <1>4

LEMMA FileCourse == ASSUME Reversal, BarFile \/ FreeFile PROVE Course' /\ Chain'
  <1>1. slip' /\ UNCHANGED <<op, undo>>
    BY FileStep DEF Reversal, BarFile, FreeFile
  <1> QED BY <1>1 DEF Reversal, Course, Chain, Undisturbed

LEMMA NextReversal == ASSUME Reversal, [Next]_vars PROVE Course' /\ Chain'
  <1>1. slip => slip'
    BY NextSlip DEF Reversal
  <1> QED BY <1>1, BeginCourse, BeginUndoCourse, ReloadPeopleCourse, ReloadOnlyCourse, FinishCourse, StartMergeCourse,
        BothKnownCourse, FoldRecordCourse, FoldPrintsCourse, FoldRefsCourse, StartUndoCourse, RestoreCourse,
        RefreshPrintsCourse, UnfoldPrintsCourse, UnfoldRefsCourse, StartRemoveCourse, MakeCourse, KeepPrintsCourse,
        DeleteRecordCourse, DeletePrintsCourse, DeleteRefsCourse, GivePrintsBackCourse, UnmakeCourse,
        StartMoveCourse, MoveSampleCourse, MoveBackCourse, DropUnusedCourse, StartRemoveSampleCourse,
        RemoveSampleCourse, OtherCourse, FileCourse, StutterReversal DEF Next

LEMMA ReversalHolds == Spec => []Reversal
  <1>1. Basics' /\ Course' /\ Chain' => Reversal'
    BY DEF Reversal
  <1>2. Reversal /\ Basics' /\ [Next]_vars => Reversal'
    BY <1>1, NextReversal
  <1> QED BY <1>2, InitReversal, BasicsHold, PTL DEF Spec

\* "Nothing is deleted, and what already happened goes back" (PeopleService): wherever on its way an
\* operation is refused, be it the record, the samples or the person it made, the three files are
\* what they were when it began.
THEOREM RefusedHolds == Spec => []RefusedChangesNothing
  <1>1. Reversal => RefusedChangesNothing
    BY DEF Reversal, Course, Beginning, Clean, RefusedChangesNothing
  <1> QED BY <1>1, ReversalHolds, PTL

\* The undo of a merge, of a moved and of a removed sample (PeopleService::undo) brings the three
\* files back to what they were before that operation, however many later ones were undone first
\* and whichever entries the full stack has dropped.
THEOREM UndoHolds == Spec => []UndoRestores
  <1>1. Reversal => UndoRestores
    BY DEF Reversal, Course, Beginning, Clean, UndoRestores
  <1> QED BY <1>1, ReversalHolds, PTL

----------------------------------------------------------------------------
(* Nobody is orphaned *)

There == pDisk \union foreign

\* Whom an operation has taken out of people.json, or will put back, while something is bound to them.
Pending ==
    IF op.kind = "merged" /\ op.at \in {"people", "prints", "restoreDrop", "foldPrints", "foldRefs"} THEN {op.other}
    ELSE IF op.at \in {"deletePrints", "deleteRefs"} THEN {op.person} ELSE {}
PendingPrints == IF op.at \in {"foldRefs", "deleteRefs"} THEN {} ELSE Pending

RecordsOwned ==
    /\ pMem \subseteq There
    /\ ref \in {Nobody} \union There \union Pending
    /\ \A s \in Samples : /\ vDisk[s] \in {Nobody} \union There \union PendingPrints
                          /\ vMem[s] \in {Nobody} \union There \union PendingPrints
    /\ ~vLoading => \A s \in Samples : vDisk[s] = vMem[s] \/ vDisk[s] \in {Nobody} \union foreign

\* The operation made other, and something may be bound to it only by now.
Making == op.at \in {"keepPrints", "unmake"} \/ (op.at = "move" /\ op.new)

RolesOwned ==
    /\ op.at \in {"fold", "foldPrints", "foldRefs", "anonymous", "keepPrints", "delete", "givePrintsBack"} =>
         op.person \in There
    /\ op.at \in {"people", "prints", "make", "move", "moveBack", "removeSample", "addBack"}
       /\ op.kind \in {"moved", "sampleRemoved"} => op.person \in There
    /\ op.at \in {"contains", "fold", "keepPrints", "delete", "givePrintsBack"} => op.person # op.other
    /\ op.at \in {"keepPrints", "move", "restoreKeep", "refreshPrints", "unfoldPrints", "unfoldRefs"} =>
         op.other \in There
    /\ Making => op.other \in foreign \/ \A s \in Samples : vDisk[s] # op.other /\ vMem[s] # op.other
    /\ Making \/ op.at \in {"delete", "givePrintsBack"} => op.other = Nobody \/ ref # op.other

\* Whom an entry of the stack gives a sample back to comes back before, if gone.
StackOwned ==
    \A i \in 1 .. Len(undo) : undo[i].kind # "merged" =>
        \/ undo[i].person \in There \union Pending
        \/ \E j \in i .. Len(undo) : undo[j].kind = "merged" /\ undo[j].other = undo[i].person

Owned == ~slip => RecordsOwned /\ RolesOwned /\ StackOwned

LEMMA SameStackOwned ==
  ASSUME StackOwned, UNCHANGED undo,
         \A i \in 1 .. Len(undo) : undo[i].kind # "merged" /\ undo[i].person \in There \union Pending =>
                                        undo[i].person \in (There \union Pending)'
  PROVE  StackOwned'
  BY DEF StackOwned

\* What every step of an operation on its way starts from.
LEMMA OnWayOwned ==
  ASSUME Basics, Owned, NEW at \in OnTheWay \union Ended, Goto(at), op.at \in OnTheWay, UNCHANGED <<undo, rest>>,
         slip => slip', ~slip'
  PROVE  /\ SameOp /\ op'.at = at /\ op'.samples = op.samples /\ op'.bound = op.bound
         /\ UNCHANGED <<used, others, foreign, undo>>
         /\ RecordsOwned /\ RolesOwned /\ StackOwned /\ ~slip /\ ~pLoading /\ ~vLoading
  <1>1. ~pLoading /\ ~vLoading
    BY DEF Basics, PeopleStore, PrintsStore, OnTheWay, Merging, Unmerging, Removing, Moving, Sampling
  <1> QED BY <1>1, GoneOn DEF Owned

\* The samples of some go to a person there is, or to nobody.
LEMMA GivenOwned ==
  ASSUME Basics, RecordsOwned, UNCHANGED <<people, foreign>>, NEW ss, NEW to \in {Nobody} \union There,
         vDisk' = Given(vDisk, ss, to), vMem' = vDisk',
         \A s \in Samples \ ss : vDisk[s] \in PendingPrints => vDisk[s] \in PendingPrints'
  PROVE  /\ (pMem \subseteq There)' /\ There' = There
         /\ \A s \in Samples : /\ vDisk'[s] = IF s \in ss THEN to ELSE vDisk[s]
                               /\ vDisk'[s] \in {Nobody} \union There' \union PendingPrints'
                               /\ vMem'[s] \in {Nobody} \union There' \union PendingPrints'
                               /\ vDisk'[s] = vMem'[s]
  <1>1. There' = There /\ (pMem \subseteq There)'
    BY DEF RecordsOwned, There, people
  <1>2. \A s \in Samples : vDisk'[s] = IF s \in ss THEN to ELSE vDisk[s]
    BY DEF Given
  <1> QED BY <1>1, <1>2 DEF RecordsOwned

LEMMA BothKnownOwned == ASSUME Basics, Owned, BothKnown, slip => slip', ~slip' PROVE Owned'
  <1> DEFINE at == IF {op.person, op.other} \subseteq P!Current THEN "fold" ELSE "refused"
  <1>1. /\ op.at = "contains" /\ op.at \in OnTheWay /\ at \in OnTheWay \union Ended
        /\ Goto(at) /\ UNCHANGED <<undo, rest, ref, vDisk, vMem, vLoading>>
        /\ pMem' = P!Current /\ pDisk' = pDisk
    BY DEF BothKnown, OnTheWay, Merging, Ended, P!Find, prints
  <1> HIDE DEF at
  <1>2. /\ SameOp /\ op'.at = at /\ UNCHANGED foreign
        /\ RecordsOwned /\ RolesOwned /\ StackOwned /\ ~slip /\ ~pLoading
    BY <1>1, OnWayOwned
  <1>3. P!Current = pDisk
    BY <1>2, Steady
  <1>4. at = "refused" \/ (at = "fold" /\ op.person \in pDisk)
    BY <1>3 DEF at
  <1>5. There' = There /\ Pending' = {} /\ Pending = {} /\ PendingPrints' = {} /\ PendingPrints = {}
    BY <1>1, <1>2, <1>4 DEF There, Pending, PendingPrints
  <1>6. RecordsOwned'
    BY <1>1, <1>2, <1>3, <1>5 DEF RecordsOwned, There
  <1>7. RolesOwned'
    BY <1>1, <1>2, <1>4, <1>5 DEF RolesOwned, Making, SameOp, There
  <1>8. StackOwned'
    BY <1>1, <1>2, <1>5, SameStackOwned
  <1> QED BY <1>6, <1>7, <1>8 DEF Owned

LEMMA FoldRecordOwned == ASSUME Basics, Owned, FoldRecord, slip => slip', ~slip' PROVE Owned'
  <1>1. PICK at \in {"refused", "foldPrints"} :
          /\ Goto(at)
          /\ at = "refused" => UNCHANGED people
          /\ at = "foldPrints" =>
                \/ ChangePeople(P!Current \ {op.other}, {op.other})
                \/ P!Find /\ UNCHANGED mishaps
    BY DEF FoldRecord, Refused, RefusedCall
  <1>2. op.at = "fold" /\ UNCHANGED <<undo, ref, rest, vDisk, vMem, vLoading>> /\ op.at \in OnTheWay
        /\ at \in OnTheWay \union Ended /\ op.kind = "merged"
    BY <1>1 DEF FoldRecord, OnTheWay, Merging, RefusedCall, prints, Ended, Basics, Shape
  <1>3. /\ SameOp /\ op'.at = at /\ UNCHANGED foreign
        /\ RecordsOwned /\ RolesOwned /\ StackOwned /\ ~slip /\ ~pLoading
    BY <1>1, <1>2, OnWayOwned
  <1>4. P!Current = pDisk /\ op.person # op.other /\ op.person \in There
    BY <1>2, <1>3, Steady DEF RolesOwned
  <1>5. /\ pMem' = pDisk' \/ UNCHANGED <<pMem, pDisk>>
        /\ pDisk' = pDisk \/ (at = "foldPrints" /\ pDisk' = pDisk \ {op.other})
    BY <1>1, <1>4, ChangedPeople DEF P!Find, people
  <1>6. /\ Pending = {} /\ PendingPrints = {}
        /\ at = "foldPrints" => Pending' = {op.other} /\ PendingPrints' = {op.other}
        /\ at = "refused" => Pending' = {} /\ PendingPrints' = {}
    BY <1>2, <1>3 DEF Pending, PendingPrints, SameOp
  <1>7. There \subseteq There' \union Pending' /\ op.person \in There' /\ PendingPrints' = Pending'
    BY <1>1, <1>3, <1>4, <1>5, <1>6 DEF There
  <1>8. RecordsOwned'
    BY <1>2, <1>3, <1>5, <1>6, <1>7 DEF RecordsOwned, There
  <1>9. RolesOwned'
    BY <1>1, <1>3, <1>7 DEF RolesOwned, Making, SameOp
  <1>10. StackOwned'
    BY <1>2, <1>3, <1>6, <1>7, SameStackOwned
  <1> QED BY <1>8, <1>9, <1>10 DEF Owned

LEMMA FoldPrintsOwned == ASSUME Basics, Owned, FoldPrints, slip => slip', ~slip' PROVE Owned'
  <1>1. /\ op.at = "foldPrints" /\ UNCHANGED <<undo, ref, foreign, people>> /\ op.kind = "merged"
        /\ op \in Operations /\ ~vLoading /\ op.person \in Persons
        /\ GiveAll(op.other, op.person)
        /\ op' = [op EXCEPT !.at = "foldRefs", !.samples = SamplesOf(V!Current, op.other)]
    BY DEF FoldPrints, IgnoredRefusal, Fault, rest, Basics, TypeOK, Shape, Merging, PrintsStore
  <1>2. op'.at = "foldRefs" /\ op'.kind = "merged" /\ op'.person = op.person /\ op'.other = op.other
    BY <1>1 DEF Operations
  <1>3. RecordsOwned /\ RolesOwned /\ StackOwned
    BY DEF Owned
  <1>4. vDisk' = Given(vDisk, SamplesOf(vDisk, op.other), op.person) /\ vMem' = vDisk'
    BY <1>1, GaveAll
  <1>5. Pending = {op.other} /\ PendingPrints = {op.other} /\ Pending' = {op.other} /\ PendingPrints' = {}
    BY <1>1, <1>2 DEF Pending, PendingPrints
  <1>6. op.person \in There
    BY <1>1, <1>3 DEF RolesOwned
  <1>7. \A s \in Samples \ SamplesOf(vDisk, op.other) : vDisk[s] # op.other
    BY DEF SamplesOf
  <1>8. /\ (pMem \subseteq There)' /\ There' = There
        /\ \A s \in Samples : /\ vDisk'[s] \in {Nobody} \union There' \union PendingPrints'
                              /\ vMem'[s] \in {Nobody} \union There' \union PendingPrints'
                              /\ vDisk'[s] = vMem'[s]
    BY <1>1, <1>3, <1>4, <1>5, <1>6, <1>7, GivenOwned
  <1>9. RecordsOwned'
    BY <1>1, <1>3, <1>5, <1>8 DEF RecordsOwned
  <1>10. RolesOwned'
    BY <1>2, <1>6, <1>8 DEF RolesOwned, Making
  <1>11. StackOwned'
    BY <1>1, <1>3, <1>5, <1>8, SameStackOwned
  <1> QED BY <1>9, <1>10, <1>11 DEF Owned

\* A new entry puts those it took away into the care of the stack.
LEMMA PushedOwned ==
  ASSUME Basics, StackOwned, NEW e \in Operations, Push(e), There' = There,
         Pending = {} \/ (e.kind = "merged" /\ Pending = {e.other}),
         e.kind # "merged" => e.person \in There
  PROVE  StackOwned'
  <1>1. PICK drop \in {0, 1} :
              /\ Len(undo') = Len(undo) + 1 - drop
              /\ \A i \in 1 .. Len(undo') :
                   undo'[i] = IF i + drop = Len(undo) + 1 THEN e ELSE undo[i + drop]
    BY PushResult DEF Basics
  <1>2. Len(undo) \in Nat
    BY DEF Basics, TypeOK
  <1>3. SUFFICES ASSUME NEW i \in 1 .. Len(undo'), undo'[i].kind # "merged"
                 PROVE  \/ undo'[i].person \in There
                        \/ \E j \in i .. Len(undo') : undo'[j].kind = "merged" /\ undo'[j].other = undo'[i].person
    BY DEF StackOwned
  <1>4. CASE i + drop = Len(undo) + 1
    BY <1>1, <1>3, <1>4
  <1>5. CASE i + drop # Len(undo) + 1
    <2>1. i + drop \in 1 .. Len(undo) /\ undo'[i] = undo[i + drop]
      BY <1>1, <1>2, <1>5
    <2>2. CASE undo[i + drop].person \in There
      BY <2>1, <2>2
    <2>3. CASE undo[i + drop].person \in Pending
      <3>1. e.kind = "merged" /\ e.other = undo[i + drop].person
        BY <2>3
      <3>2. Len(undo') \in i .. Len(undo') /\ undo'[Len(undo')] = e
        BY <1>1, <1>2
      <3> QED BY <2>1, <3>1, <3>2
    <2>4. CASE \E j \in i + drop .. Len(undo) : undo[j].kind = "merged" /\ undo[j].other = undo[i + drop].person
      <3>1. PICK j \in i + drop .. Len(undo) : undo[j].kind = "merged" /\ undo[j].other = undo[i + drop].person
        BY <2>4
      <3>2. j - drop \in i .. Len(undo') /\ j - drop \in 1 .. Len(undo') /\ undo'[j - drop] = undo[j]
        BY <1>1, <1>2
      <3> QED BY <2>1, <3>1, <3>2
    <2> QED BY <1>3, <2>1, <2>2, <2>3, <2>4 DEF StackOwned
  <1> QED BY <1>4, <1>5

LEMMA FoldRefsOwned == ASSUME Basics, Owned, FoldRefs, slip => slip', ~slip' PROVE Owned'
  <1> DEFINE e == [op EXCEPT !.bound = (ref = op.other)]
  <1>1. /\ op.at = "foldRefs" /\ op \in Operations /\ op.kind = "merged" /\ UNCHANGED <<vDisk, vMem, pDisk, pMem, foreign, vLoading>>
        /\ ref' = IF ref = op.other THEN op.person ELSE ref
        /\ Push(e) /\ op' = [op EXCEPT !.at = "done"]
    BY DEF FoldRefs, Basics, TypeOK, Shape, Merging, people, prints, rest, Done
  <1>2. e \in Operations /\ e.kind = "merged" /\ e.other = op.other /\ op'.at = "done" /\ op'.kind = "merged"
    BY <1>1 DEF Operations
  <1>3. RecordsOwned /\ RolesOwned /\ StackOwned
    BY <1>1 DEF Owned, FoldRefs, mishaps
  <1>4. There' = There /\ op.person \in There /\ Pending = {op.other} /\ PendingPrints = {} /\ Pending' = {} /\ PendingPrints' = {}
    BY <1>1, <1>2, <1>3 DEF There, RolesOwned, Pending, PendingPrints
  <1> HIDE DEF e
  <1>5. RecordsOwned'
    BY <1>1, <1>3, <1>4 DEF RecordsOwned
  <1>6. RolesOwned'
    BY <1>2 DEF RolesOwned, Making
  <1>7. StackOwned'
    BY <1>1, <1>2, <1>3, <1>4, PushedOwned
  <1> QED BY <1>5, <1>6, <1>7 DEF Owned

LEMMA RestoreOwned == ASSUME Basics, Owned, RestoreDrop \/ RestoreKeep, slip => slip', ~slip' PROVE Owned'
  <1>1. PICK at \in {"restoreKeep", "refreshPrints"}, person \in {op.person, op.other} :
          /\ Goto(at) /\ ChangePeople(P!Current \union {person}, {person})
          /\ op.at = IF at = "restoreKeep" THEN "restoreDrop" ELSE "restoreKeep"
          /\ at = "restoreKeep" => person = op.other
    BY DEF RestoreDrop, RestoreKeep, RestoreRecord, IgnoredRefusal, Fault
  <1>2. UNCHANGED <<undo, rest, ref, vDisk, vMem, vLoading>> /\ op.at \in OnTheWay /\ at \in OnTheWay \union Ended
        /\ op.kind = "merged"
    BY <1>1 DEF RestoreDrop, RestoreKeep, RestoreRecord, IgnoredRefusal, Fault, prints, OnTheWay, Unmerging, Basics, Shape
  <1>3. /\ SameOp /\ op'.at = at /\ UNCHANGED foreign
        /\ RecordsOwned /\ RolesOwned /\ StackOwned /\ ~slip /\ ~pLoading
    BY <1>1, <1>2, OnWayOwned
  <1>4. pMem' = pDisk' /\ pDisk' = pDisk \union {person}
    BY <1>1, <1>3, Steady, ChangedPeople
  <1>5. There' = There \union {person} /\ Pending' = {} /\ PendingPrints' = {} /\ PendingPrints = Pending
        /\ Pending = IF op.at = "restoreDrop" THEN {op.other} ELSE {}
    BY <1>1, <1>2, <1>3, <1>4 DEF There, Pending, PendingPrints, SameOp
  <1>6. There \union Pending \subseteq There' /\ op.other \in There'
    BY <1>1, <1>3, <1>5 DEF RolesOwned
  <1>7. RecordsOwned'
    BY <1>2, <1>3, <1>4, <1>5, <1>6 DEF RecordsOwned, There
  <1>8. RolesOwned'
    BY <1>1, <1>2, <1>3, <1>6 DEF RolesOwned, Making, SameOp
  <1>9. StackOwned'
    BY <1>2, <1>3, <1>5, <1>6, SameStackOwned
  <1> QED BY <1>7, <1>8, <1>9 DEF Owned

LEMMA RefreshPrintsOwned == ASSUME Basics, Owned, RefreshPrints, slip => slip', ~slip' PROVE Owned'
  <1>1. /\ op.at = "refreshPrints" /\ Goto("unfoldPrints") /\ UNCHANGED <<undo, rest, ref, pDisk, pMem, vDisk>>
        /\ vMem' = V!Current /\ op.at \in OnTheWay /\ "unfoldPrints" \in OnTheWay \union Ended
    BY DEF RefreshPrints, V!Find, people, OnTheWay, Unmerging
  <1>2. /\ SameOp /\ op'.at = "unfoldPrints" /\ UNCHANGED foreign
        /\ RecordsOwned /\ RolesOwned /\ StackOwned /\ ~slip /\ ~vLoading
    BY <1>1, OnWayOwned
  <1>3. vMem' = vDisk'
    BY <1>1, <1>2, Steady
  <1>4. There' = There /\ Pending' = {} /\ PendingPrints' = {} /\ PendingPrints = {} /\ Pending = {}
    BY <1>1, <1>2 DEF There, Pending, PendingPrints
  <1>5. RecordsOwned'
    BY <1>1, <1>2, <1>3, <1>4 DEF RecordsOwned
  <1>6. RolesOwned'
    BY <1>1, <1>2, <1>4 DEF RolesOwned, Making, SameOp
  <1>7. StackOwned'
    BY <1>1, <1>2, <1>4, SameStackOwned
  <1> QED BY <1>5, <1>6, <1>7 DEF Owned

LEMMA UnfoldPrintsOwned == ASSUME Basics, Owned, UnfoldPrints, slip => slip', ~slip' PROVE Owned'
  <1>1. /\ op.at = "unfoldPrints" /\ op.kind = "merged" /\ op \in Operations /\ ~vLoading /\ op.samples \subseteq Samples
        /\ UNCHANGED <<undo, ref, foreign, people>>
    BY DEF UnfoldPrints, IgnoredRefusal, Fault, rest, Basics, TypeOK, Shape, Unmerging, PrintsStore, Operations
  <1>2. PICK at \in {"unfoldPrints", "unfoldRefs"} : op'.at = at /\ op'.kind = op.kind /\ op'.other = op.other
    BY <1>1 DEF UnfoldPrints, Goto, Operations
  <1>3. RecordsOwned /\ RolesOwned /\ StackOwned
    BY DEF Owned
  <1>4. op.other \in There
    BY <1>1, <1>3 DEF RolesOwned
  <1>5. Pending = {} /\ PendingPrints = {} /\ Pending' = {} /\ PendingPrints' = {}
    BY <1>1, <1>2 DEF Pending, PendingPrints
  <1>6. RecordsOwned' /\ There' = There
    <2>1. CASE UNCHANGED prints
      BY <1>1, <1>3, <1>5, <2>1 DEF RecordsOwned, There, people, prints
    <2>2. CASE \E s \in op.samples : GiveOne(s, op.other)
      <3>1. PICK s \in op.samples : GiveOne(s, op.other)
        BY <2>2
      <3>2. PICK ss : vDisk' = Given(vDisk, ss, op.other) /\ vMem' = vDisk'
        BY <1>1, <3>1, GaveIfThere
      <3>3. /\ (pMem \subseteq There)' /\ There' = There
            /\ \A r \in Samples : /\ vDisk'[r] \in {Nobody} \union There' \union PendingPrints'
                                  /\ vMem'[r] \in {Nobody} \union There' \union PendingPrints'
                                  /\ vDisk'[r] = vMem'[r]
        BY <1>1, <1>3, <1>4, <1>5, <3>2, GivenOwned
      <3> QED BY <1>1, <1>3, <1>5, <3>3 DEF RecordsOwned
    <2> QED BY <2>1, <2>2 DEF UnfoldPrints, IgnoredRefusal, Fault
  <1>7. RolesOwned'
    BY <1>2, <1>4, <1>6 DEF RolesOwned, Making
  <1>8. StackOwned'
    BY <1>1, <1>3, <1>5, <1>6, SameStackOwned
  <1> QED BY <1>6, <1>7, <1>8 DEF Owned

LEMMA UnfoldRefsOwned == ASSUME Basics, Owned, UnfoldRefs, slip => slip', ~slip' PROVE Owned'
  <1>1. /\ op.at = "unfoldRefs" /\ Goto("undone") /\ UNCHANGED <<undo, rest, people, prints>>
        /\ op.at \in OnTheWay /\ "undone" \in OnTheWay \union Ended
        /\ ref' \in {ref, op.other}
    BY DEF UnfoldRefs, OnTheWay, Unmerging, Ended
  <1>2. /\ op'.at = "undone" /\ UNCHANGED foreign /\ RecordsOwned /\ RolesOwned /\ StackOwned
    BY <1>1, OnWayOwned
  <1>3. There' = There /\ op.other \in There /\ Pending' = {} /\ PendingPrints' = {} /\ PendingPrints = {} /\ Pending = {}
    BY <1>1, <1>2 DEF There, Pending, PendingPrints, people, RolesOwned
  <1>4. RecordsOwned'
    BY <1>1, <1>2, <1>3 DEF RecordsOwned, people, prints
  <1>5. RolesOwned'
    BY <1>2 DEF RolesOwned, Making
  <1>6. StackOwned'
    BY <1>1, <1>2, <1>3, SameStackOwned
  <1> QED BY <1>4, <1>5, <1>6 DEF Owned

\* The samples of an operation on its way go to a person there is, or to nobody.
LEMMA GiveOwned ==
  ASSUME Basics, Owned, slip => slip', ~slip', UNCHANGED <<people, ref, foreign>>, op.at \in OnTheWay,
         PendingPrints = {}, PendingPrints' = {}, Pending' = Pending,
         UNCHANGED prints \/ (V!Find /\ UNCHANGED mishaps)
           \/ (\E from : \E to \in {Nobody} \union There : GiveAll(from, to))
           \/ (\E s \in Samples : \E to \in {Nobody} \union There : SetOne(s, to) \/ GiveOne(s, to))
  PROVE  RecordsOwned' /\ There' = There /\ RolesOwned
  <1>1. RecordsOwned /\ RolesOwned /\ ~slip /\ ~vLoading /\ There \subseteq Persons
    BY DEF Owned, Basics, TypeOK, IdsUsed, PrintsStore, OnTheWay, Merging, Unmerging, Removing, Moving, Sampling, There
  <1>2. ASSUME NEW ss, NEW to \in {Nobody} \union There, vDisk' = Given(vDisk, ss, to), vMem' = vDisk'
        PROVE  RecordsOwned' /\ There' = There
    <2>1. /\ (pMem \subseteq There)' /\ There' = There
          /\ \A r \in Samples : /\ vDisk'[r] \in {Nobody} \union There' \union PendingPrints'
                                /\ vMem'[r] \in {Nobody} \union There' \union PendingPrints'
                                /\ vDisk'[r] = vMem'[r]
      BY <1>1, <1>2, GivenOwned
    <2> QED BY <1>1, <2>1 DEF RecordsOwned
  <1>3. CASE UNCHANGED prints
    BY <1>1, <1>3 DEF RecordsOwned, There, people, prints
  <1>4. CASE V!Find
    <2>1. vMem' = vDisk' /\ vDisk' = vDisk
      BY <1>1, <1>4, Steady DEF V!Find
    <2> QED BY <1>1, <2>1 DEF RecordsOwned, There, people
  <1>5. ASSUME NEW from, NEW to \in {Nobody} \union There, GiveAll(from, to)
        PROVE  RecordsOwned' /\ There' = There
    <2>1. to \in Persons \union {Nobody}
      BY <1>1
    <2>2. vDisk' = Given(vDisk, SamplesOf(vDisk, from), to) /\ vMem' = vDisk'
      BY <1>1, <1>5, <2>1, GaveAll
    <2> QED BY <1>2, <2>2
  <1>6. ASSUME NEW s \in Samples, NEW to \in {Nobody} \union There, SetOne(s, to) \/ GiveOne(s, to)
        PROVE  RecordsOwned' /\ There' = There
    <2>1. PICK ss : vDisk' = Given(vDisk, ss, to) /\ vMem' = vDisk'
      BY <1>1, <1>6, GaveIfThere
    <2> QED BY <1>2, <2>1
  <1> QED BY <1>1, <1>3, <1>4, <1>5, <1>6

LEMMA KeepPrintsOwned == ASSUME Basics, Owned, KeepPrints, slip => slip', ~slip' PROVE Owned'
  <1>1. PICK at \in {"givePrintsBack", "delete"} : Goto(at)
    BY DEF KeepPrints
  <1>2. /\ op.at = "keepPrints" /\ UNCHANGED <<undo, ref, rest, people>> /\ op.at \in OnTheWay
        /\ at \in OnTheWay \union Ended /\ op.kind = "removed"
    BY <1>1 DEF KeepPrints, OnTheWay, Removing, RefusedCall, Basics, Shape
  <1>3. /\ SameOp /\ op'.at = at /\ UNCHANGED foreign /\ RecordsOwned /\ RolesOwned /\ StackOwned
    BY <1>1, <1>2, OnWayOwned
  <1>4. op.other \in There /\ Pending = {} /\ PendingPrints = {} /\ Pending' = {} /\ PendingPrints' = {}
    BY <1>1, <1>2, <1>3 DEF RolesOwned, Pending, PendingPrints, SameOp
  <1>5. RecordsOwned' /\ There' = There
    BY <1>2, <1>3, <1>4, GiveOwned DEF KeepPrints, RefusedCall
  <1>6. RolesOwned'
    BY <1>1, <1>2, <1>3, <1>5 DEF RolesOwned, Making, SameOp
  <1>7. StackOwned'
    BY <1>2, <1>3, <1>4, <1>5, SameStackOwned
  <1> QED BY <1>5, <1>6, <1>7 DEF Owned

LEMMA DeleteRecordOwned == ASSUME Basics, Owned, DeleteRecord, slip => slip', ~slip' PROVE Owned'
  <1>1. PICK at \in {"refused", "givePrintsBack", "deletePrints"} :
          /\ Goto(at)
          /\ at # "deletePrints" => UNCHANGED people
          /\ at = "deletePrints" => RemoveRecord(op.person)
    BY DEF DeleteRecord, RefusedCall
  <1>2. /\ op.at = "delete" /\ UNCHANGED <<undo, ref, rest, vDisk, vMem, vLoading>> /\ op.at \in OnTheWay
        /\ at \in OnTheWay \union Ended /\ op.kind = "removed"
    BY <1>1 DEF DeleteRecord, OnTheWay, Removing, RefusedCall, prints, Ended, Basics, Shape
  <1>3. /\ SameOp /\ op'.at = at /\ UNCHANGED foreign
        /\ RecordsOwned /\ RolesOwned /\ StackOwned /\ ~slip /\ ~pLoading
    BY <1>1, <1>2, OnWayOwned
  <1>4. /\ at = "deletePrints" => pDisk' = pDisk \ {op.person} /\ pMem' = pDisk'
        /\ at # "deletePrints" => UNCHANGED <<pDisk, pMem>>
    BY <1>1, <1>3, RemovedRecord DEF people
  <1>5. /\ Pending = {} /\ PendingPrints = {} /\ PendingPrints' = Pending'
        /\ Pending' = IF at = "deletePrints" THEN {op.person} ELSE {}
    BY <1>1, <1>2, <1>3 DEF Pending, PendingPrints, SameOp
  <1>6. There \subseteq There' \union Pending' /\ (at # "deletePrints" => There' = There)
    BY <1>3, <1>4, <1>5 DEF There
  <1>7. RecordsOwned'
    BY <1>2, <1>3, <1>4, <1>5, <1>6 DEF RecordsOwned, There
  <1>8. RolesOwned'
    BY <1>1, <1>2, <1>3, <1>6 DEF RolesOwned, Making, SameOp
  <1>9. StackOwned'
    BY <1>2, <1>3, <1>5, <1>6, SameStackOwned
  <1> QED BY <1>7, <1>8, <1>9 DEF Owned

LEMMA DeletePrintsOwned == ASSUME Basics, Owned, DeletePrints, slip => slip', ~slip' PROVE Owned'
  <1>1. /\ op.at = "deletePrints" /\ Goto("deleteRefs") /\ UNCHANGED <<undo, ref, rest, people>>
        /\ op.at \in OnTheWay /\ "deleteRefs" \in OnTheWay \union Ended /\ op.kind = "removed"
        /\ GiveAll(op.person, Nobody)
    BY DEF DeletePrints, OnTheWay, Removing, IgnoredRefusal, Fault, Basics, Shape
  <1>2. /\ SameOp /\ op'.at = "deleteRefs" /\ UNCHANGED foreign /\ RecordsOwned /\ RolesOwned /\ StackOwned /\ ~vLoading
    BY <1>1, OnWayOwned
  <1>3. vDisk' = Given(vDisk, SamplesOf(vDisk, op.person), Nobody) /\ vMem' = vDisk'
    BY <1>1, <1>2, GaveAll
  <1>4. Pending = {op.person} /\ PendingPrints = {op.person} /\ Pending' = {op.person} /\ PendingPrints' = {}
    BY <1>1, <1>2 DEF Pending, PendingPrints, SameOp
  <1>5. \A s \in Samples \ SamplesOf(vDisk, op.person) : vDisk[s] # op.person
    BY DEF SamplesOf
  <1>6. /\ (pMem \subseteq There)' /\ There' = There
        /\ \A s \in Samples : /\ vDisk'[s] \in {Nobody} \union There' \union PendingPrints'
                              /\ vMem'[s] \in {Nobody} \union There' \union PendingPrints'
                              /\ vDisk'[s] = vMem'[s]
    BY <1>1, <1>2, <1>3, <1>4, <1>5, GivenOwned
  <1>7. RecordsOwned'
    BY <1>1, <1>2, <1>4, <1>6 DEF RecordsOwned
  <1>8. RolesOwned'
    BY <1>1, <1>2 DEF RolesOwned, Making, SameOp
  <1>9. StackOwned'
    BY <1>1, <1>2, <1>4, <1>6, SameStackOwned
  <1> QED BY <1>7, <1>8, <1>9 DEF Owned

LEMMA DeleteRefsOwned == ASSUME Basics, Owned, DeleteRefs, slip => slip', ~slip' PROVE Owned'
  <1>1. /\ op.at = "deleteRefs" /\ op'.at = "done" /\ op'.kind = "removed" /\ undo' = <<>> /\ Len(undo') = 0
        /\ ref' = IF ref = op.person THEN Nobody ELSE ref
        /\ UNCHANGED <<pDisk, pMem, vDisk, vMem, vLoading, foreign>>
    BY DEF DeleteRefs, Done, Basics, TypeOK, Operations, Shape, Removing, people, prints, rest
  <1>2. RecordsOwned /\ There' = There
    BY <1>1 DEF Owned, There
  <1>3. Pending = {op.person} /\ PendingPrints = {} /\ Pending' = {} /\ PendingPrints' = {}
    BY <1>1 DEF Pending, PendingPrints, Basics, Shape, Removing
  <1>4. RecordsOwned'
    BY <1>1, <1>2, <1>3 DEF RecordsOwned
  <1>5. RolesOwned' /\ StackOwned'
    BY <1>1 DEF RolesOwned, Making, StackOwned
  <1> QED BY <1>4, <1>5 DEF Owned

LEMMA GivePrintsBackOwned == ASSUME Basics, Owned, GivePrintsBack, slip => slip', ~slip' PROVE Owned'
  <1>1. /\ op.at = "givePrintsBack" /\ Goto("unmake") /\ UNCHANGED <<undo, ref, rest, people>>
        /\ op.at \in OnTheWay /\ "unmake" \in OnTheWay \union Ended /\ op.kind = "removed"
        /\ GiveAll(op.other, op.person) /\ op.person \in Persons
    BY DEF GivePrintsBack, OnTheWay, Removing, IgnoredRefusal, Fault, Basics, Shape, TypeOK
  <1>2. /\ SameOp /\ op'.at = "unmake" /\ UNCHANGED foreign /\ RecordsOwned /\ RolesOwned /\ StackOwned /\ ~vLoading
    BY <1>1, OnWayOwned
  <1>3. vDisk' = Given(vDisk, SamplesOf(vDisk, op.other), op.person) /\ vMem' = vDisk'
    BY <1>1, <1>2, GaveAll
  <1>4. /\ op.person \in There /\ op.person # op.other
        /\ Pending = {} /\ PendingPrints = {} /\ Pending' = {} /\ PendingPrints' = {}
    BY <1>1, <1>2 DEF RolesOwned, Pending, PendingPrints, SameOp
  <1>5. RecordsOwned' /\ There' = There
    BY <1>1, <1>2, <1>4, GiveOwned
  <1>6. \A s \in Samples : vDisk'[s] # op.other /\ vMem'[s] # op.other
    BY <1>3, <1>4 DEF Given, SamplesOf
  <1>7. RolesOwned'
    BY <1>1, <1>2, <1>6 DEF RolesOwned, Making, SameOp
  <1>8. StackOwned'
    BY <1>1, <1>2, <1>4, <1>5, SameStackOwned
  <1> QED BY <1>5, <1>7, <1>8 DEF Owned

\* A person the operation made goes again: nothing is bound to it, and no entry of the stack knows it.
LEMMA RemovedAgain ==
  ASSUME Basics, Owned, slip => slip', ~slip', op.at \in OnTheWay, ~(op.at = "deletePrints"), Made, op.other # Nobody,
         UNCHANGED <<undo, ref, rest, prints>>, RemoveRecord(op.other), op'.at \in {"refused", "undone"},
         Pending = {}, PendingPrints = {},
         ref # op.other, op.other \in foreign \/ \A s \in Samples : vDisk[s] # op.other /\ vMem[s] # op.other
  PROVE  Owned'
  <1>1. RecordsOwned /\ RolesOwned /\ StackOwned /\ ~slip /\ ~pLoading /\ op.at # "done" /\ foreign' = foreign
        /\ UNCHANGED <<vDisk, vMem, vLoading>>
    BY DEF Owned, Basics, PeopleStore, OnTheWay, Merging, Unmerging, Removing, Moving, Sampling, rest, prints
  <1>2. pDisk' = pDisk \ {op.other} /\ pMem' = pDisk'
    BY <1>1, RemovedRecord
  <1>3. Pending' = {} /\ PendingPrints' = {}
    BY DEF Pending, PendingPrints
  <1>4. There \ {op.other} \subseteq There' /\ (op.other \in foreign => There \subseteq There') /\ pMem' \subseteq There'
    BY <1>1, <1>2 DEF There
  <1>5. RecordsOwned'
    BY <1>1, <1>3, <1>4 DEF RecordsOwned
  <1>6. RolesOwned'
    BY DEF RolesOwned, Making
  <1>7. \A i \in 1 .. Len(undo) : undo[i].person # op.other
    BY <1>1 DEF Basics, Unheard, Mentions
  <1>8. StackOwned'
    BY <1>1, <1>3, <1>4, <1>7, SameStackOwned
  <1> QED BY <1>5, <1>6, <1>8 DEF Owned

LEMMA UnmakeOwned == ASSUME Basics, Owned, Unmake, slip => slip', ~slip' PROVE Owned'
  <1>1. /\ op.at = "unmake" /\ Goto("refused") /\ UNCHANGED <<undo, ref, rest, prints>>
        /\ op.at \in OnTheWay /\ "refused" \in OnTheWay \union Ended
        /\ RemoveRecord(op.other)
        /\ op.other \in used /\ op.other # Nobody /\ Made
    BY PeopleAssumption DEF Unmake, Refused, OnTheWay, Ended, IgnoredRefusal, Fault, Basics, Shape, TypeOK, Made
  <1>2. op'.at = "refused" /\ RolesOwned
    BY <1>1, OnWayOwned
  <1>3. /\ Pending = {} /\ PendingPrints = {} /\ ref # op.other
        /\ op.other \in foreign \/ \A s \in Samples : vDisk[s] # op.other /\ vMem[s] # op.other
    BY <1>1, <1>2 DEF RolesOwned, Making, Pending, PendingPrints
  <1> QED BY <1>1, <1>2, <1>3, RemovedAgain

LEMMA DropUnusedOwned == ASSUME Basics, Owned, DropUnused, slip => slip', ~slip' PROVE Owned'
  <1>1. /\ op.at = "unused" /\ Goto("undone") /\ UNCHANGED <<undo, ref, rest, prints>>
        /\ op.at \in OnTheWay /\ "undone" \in OnTheWay \union Ended /\ op.kind = "moved"
        /\ op.other \in used /\ op.other # Nobody
    BY PeopleAssumption DEF DropUnused, OnTheWay, Moving, Ended, IgnoredRefusal, Basics, Shape, TypeOK
  <1>2. /\ SameOp /\ op'.at = "undone" /\ UNCHANGED foreign /\ RecordsOwned /\ RolesOwned /\ StackOwned /\ ~vLoading
    BY <1>1, OnWayOwned
  <1>3. Pending = {} /\ PendingPrints = {} /\ Pending' = {} /\ PendingPrints' = {}
    BY <1>1, <1>2 DEF Pending, PendingPrints
  <1>4. CASE op.new /\ SamplesOf(vMem, op.other) = {} /\ ref # op.other /\ RemoveRecord(op.other)
    <2>1. op.other \in foreign \/ \A s \in Samples : vDisk[s] # op.other /\ vMem[s] # op.other
      BY <1>1, <1>2, <1>4 DEF SamplesOf, RecordsOwned
    <2> QED BY <1>1, <1>2, <1>3, <1>4, <2>1, RemovedAgain DEF Made
  <1>5. CASE UNCHANGED people
    <2>1. There' = There /\ UNCHANGED <<pMem, vDisk, vMem, vLoading>>
      BY <1>1, <1>2, <1>5 DEF There, people, prints
    <2>2. RecordsOwned' /\ RolesOwned'
      BY <1>1, <1>2, <1>3, <2>1 DEF RecordsOwned, RolesOwned, Making
    <2> QED BY <1>1, <1>2, <1>3, <2>1, <2>2, SameStackOwned DEF Owned
  <1> QED BY <1>4, <1>5 DEF DropUnused, IgnoredRefusal

LEMMA MoveSampleOwned == ASSUME Basics, Owned, MoveSample, slip => slip', ~slip' PROVE Owned'
  <1>1. /\ op.at = "move" /\ UNCHANGED <<ref, rest, people, foreign>> /\ op.kind = "moved" /\ op \in Operations
        /\ op.samples \subseteq Samples /\ op.at \in OnTheWay
    BY DEF MoveSample, RefusedCall, Basics, TypeOK, Operations, Shape, Moving, OnTheWay, rest
  <1>2. PICK s \in op.samples :
          \/ RefusedCall /\ NotMoved /\ UNCHANGED undo
          \/ V!Find /\ NotMoved /\ UNCHANGED <<people, undo, mishaps>>
          \/ GiveOne(s, op.other) /\ Done /\ Push(op)
    BY DEF MoveSample
  <1>3. PICK at \in {"unmake", "refused", "done"} :
          /\ op'.at = at /\ op'.kind = op.kind /\ op'.person = op.person /\ op'.other = op.other /\ op'.new = op.new
          /\ at = "unmake" => op.new
          /\ at = "done" => Push(op) /\ GiveOne(s, op.other)
          /\ at # "done" => UNCHANGED undo /\ (UNCHANGED prints \/ (V!Find /\ UNCHANGED mishaps))
    BY <1>1, <1>2 DEF NotMoved, Done, Goto, RefusedCall, Operations
  <1>4. RecordsOwned /\ RolesOwned /\ StackOwned /\ ~slip /\ ~vLoading
    BY <1>1 DEF Owned, Basics, PrintsStore
  <1>5. /\ Pending = {} /\ PendingPrints = {} /\ Pending' = {} /\ PendingPrints' = {}
        /\ op.other \in There /\ op.person \in There
    BY <1>1, <1>3, <1>4 DEF RolesOwned, Pending, PendingPrints
  <1>6. RecordsOwned' /\ There' = There
    <2>1. CASE at = "done"
      BY <1>1, <1>3, <1>5, <2>1, GiveOwned
    <2>2. CASE at # "done"
      BY <1>1, <1>3, <1>5, <2>2, GiveOwned
    <2> QED BY <2>1, <2>2
  <1>7. at # "done" => UNCHANGED <<vDisk>> /\ vMem' \in {vDisk, vMem}
    BY <1>3, <1>4, Steady DEF V!Find, prints
  <1>8. RolesOwned'
    <2>1. CASE at = "unmake"
      <3>1. Making
        BY <1>1, <1>3, <2>1 DEF Making
      <3>2. op.other \in foreign \/ \A r \in Samples : vDisk[r] # op.other /\ vMem[r] # op.other
        BY <1>4, <3>1 DEF RolesOwned
      <3>3. op.other \in foreign' \/ \A r \in Samples : vDisk'[r] # op.other /\ vMem'[r] # op.other
        BY <1>1, <1>7, <2>1, <3>2
      <3>4. op.other = Nobody \/ ref' # op.other
        BY <1>1, <1>4, <3>1 DEF RolesOwned
      <3> QED BY <1>3, <2>1, <3>3, <3>4 DEF RolesOwned, Making
    <2>2. CASE at # "unmake"
      BY <1>3, <2>2 DEF RolesOwned, Making
    <2> QED BY <2>1, <2>2
  <1>9. StackOwned'
    <2>1. CASE at = "done"
      BY <1>1, <1>3, <1>4, <1>5, <1>6, <2>1, PushedOwned
    <2>2. CASE at # "done"
      BY <1>3, <1>4, <1>5, <1>6, <2>2, SameStackOwned
    <2> QED BY <2>1, <2>2
  <1> QED BY <1>6, <1>8, <1>9 DEF Owned

LEMMA RemoveSampleOwned == ASSUME Basics, Owned, RemoveSample, slip => slip', ~slip' PROVE Owned'
  <1>1. /\ op.at = "removeSample" /\ UNCHANGED <<ref, rest, people, foreign>> /\ op.kind = "sampleRemoved"
        /\ op \in Operations /\ op.samples \subseteq Samples /\ op.at \in OnTheWay
    BY DEF RemoveSample, RefusedCall, Basics, TypeOK, Operations, Shape, Sampling, OnTheWay, rest
  <1>2. PICK s \in op.samples :
          \/ RefusedCall /\ Refused /\ UNCHANGED undo
          \/ V!Find /\ Refused /\ UNCHANGED <<people, undo, mishaps>>
          \/ SetOne(s, Nobody) /\ Done /\ Push(op)
    BY DEF RemoveSample
  <1>3. PICK at \in {"refused", "done"} :
          /\ op'.at = at /\ op'.kind = op.kind
          /\ at = "done" => Push(op) /\ SetOne(s, Nobody)
          /\ at # "done" => UNCHANGED undo /\ (UNCHANGED prints \/ (V!Find /\ UNCHANGED mishaps))
    BY <1>1, <1>2 DEF Refused, Done, Goto, RefusedCall, Operations
  <1>4. RecordsOwned /\ RolesOwned /\ StackOwned
    BY <1>1 DEF Owned
  <1>5. /\ Pending = {} /\ PendingPrints = {} /\ Pending' = {} /\ PendingPrints' = {} /\ op.person \in There
    BY <1>1, <1>3, <1>4 DEF RolesOwned, Pending, PendingPrints
  <1>6. RecordsOwned' /\ There' = There
    <2>1. CASE at = "done"
      BY <1>1, <1>3, <1>5, <2>1, GiveOwned
    <2>2. CASE at # "done"
      BY <1>1, <1>3, <1>5, <2>2, GiveOwned
    <2> QED BY <2>1, <2>2
  <1>7. RolesOwned'
    BY <1>3 DEF RolesOwned, Making
  <1>8. StackOwned'
    <2>1. CASE at = "done"
      BY <1>1, <1>3, <1>4, <1>5, <1>6, <2>1, PushedOwned
    <2>2. CASE at # "done"
      BY <1>3, <1>4, <1>5, <1>6, <2>2, SameStackOwned
    <2> QED BY <2>1, <2>2
  <1> QED BY <1>6, <1>7, <1>8 DEF Owned

LEMMA MoveBackOwned == ASSUME Basics, Owned, MoveBack \/ AddBack, slip => slip', ~slip' PROVE Owned'
  <1>1. PICK at \in {"unused", "undone"} :
          /\ Goto(at) /\ op.at = IF at = "unused" THEN "moveBack" ELSE "addBack"
    BY DEF MoveBack, AddBack
  <1>2. /\ UNCHANGED <<undo, ref, rest, people, foreign>> /\ op.at \in OnTheWay /\ at \in OnTheWay \union Ended
        /\ op.kind \in {"moved", "sampleRemoved"} /\ op.samples \subseteq Samples
    BY <1>1 DEF MoveBack, AddBack, IgnoredRefusal, OnTheWay, Moving, Sampling, Ended, Basics, Shape, TypeOK, Operations, rest
  <1>3. PICK s \in op.samples :
          UNCHANGED prints \/ SetOne(s, op.person) \/ GiveOne(s, op.person)
    BY DEF MoveBack, AddBack, IgnoredRefusal
  <1>4. /\ SameOp /\ op'.at = at /\ RecordsOwned /\ RolesOwned /\ StackOwned
    BY <1>1, <1>2, OnWayOwned
  <1>5. op.person \in There /\ Pending = {} /\ PendingPrints = {} /\ Pending' = {} /\ PendingPrints' = {}
    BY <1>1, <1>2, <1>4 DEF RolesOwned, Pending, PendingPrints, SameOp
  <1>6. RecordsOwned' /\ There' = There
    BY <1>2, <1>3, <1>5, GiveOwned
  <1>7. RolesOwned'
    BY <1>4 DEF RolesOwned, Making
  <1>8. StackOwned'
    BY <1>2, <1>4, <1>5, <1>6, SameStackOwned
  <1> QED BY <1>6, <1>7, <1>8 DEF Owned

\* Nothing is bound to a person under a new id, and the one whose sample it is about is there.
LEMMA CreateOwned ==
  ASSUME Basics, Owned, slip => slip', ~slip', NEW next \in {"keepPrints", "move"}, Create(next),
         UNCHANGED <<prints, ref, undo>>, op.at = IF next = "move" THEN "make" ELSE "anonymous"
  PROVE  Owned'
  <1>1. PICK id \in Persons \ used :
          /\ ChangePeople(P!Current \union {id}, {id})
          /\ op' = [op EXCEPT !.at = next, !.other = id]
          /\ UNCHANGED <<foreign, vDisk, vMem, vLoading>>
    BY DEF Create, prints
  <1>2. /\ op \in Operations /\ ~pLoading /\ ~vLoading /\ op.person \in used /\ id # op.person
        /\ op.kind = (IF next = "move" THEN "moved" ELSE "removed")
    BY <1>1 DEF Basics, TypeOK, PeopleStore, PrintsStore, Shape, Moving, Removing
  <1>3. /\ op'.at = next /\ op'.kind = op.kind /\ op'.person = op.person /\ op'.other = id /\ op'.new = op.new
    BY <1>1, <1>2 DEF Operations
  <1>4. RecordsOwned /\ RolesOwned /\ StackOwned /\ ~slip
    BY DEF Owned
  <1>5. pDisk' = pDisk \union {id} /\ pMem' = pDisk'
    BY <1>1, <1>2, <1>4, ChangedPeople, Steady
  <1>6. There' = There \union {id} /\ Pending = {} /\ PendingPrints = {} /\ Pending' = {} /\ PendingPrints' = {}
    BY <1>1, <1>2, <1>3, <1>5 DEF There, Pending, PendingPrints
  <1>7. id # Nobody /\ ref # id /\ \A s \in Samples : vDisk[s] # id /\ vMem[s] # id
    BY <1>1, PeopleAssumption DEF Basics, IdsUsed
  <1>8. RecordsOwned'
    BY <1>1, <1>4, <1>5, <1>6 DEF RecordsOwned, There
  <1>9. op.person \in There
    BY <1>2, <1>4 DEF RolesOwned
  <1>10. RolesOwned'
    BY <1>1, <1>2, <1>3, <1>6, <1>7, <1>9 DEF RolesOwned, Making
  <1>11. StackOwned'
    BY <1>4, <1>6, SameStackOwned
  <1> QED BY <1>8, <1>10, <1>11 DEF Owned

LEMMA MakeOwned == ASSUME Basics, Owned, MakeAnonymous \/ MakePerson, slip => slip', ~slip' PROVE Owned'
  <1>1. CASE RefusedCall /\ Refused /\ UNCHANGED rest
    <2>1. /\ Goto("refused") /\ op.at \in {"anonymous", "make"} /\ op.at \in OnTheWay /\ "refused" \in OnTheWay \union Ended
          /\ UNCHANGED <<undo, ref, rest, people, prints>>
      BY <1>1 DEF MakeAnonymous, MakePerson, OnTheWay, Removing, Moving, RefusedCall, Refused, Ended
    <2>2. SameOp /\ op'.at = "refused" /\ UNCHANGED foreign /\ RecordsOwned /\ RolesOwned /\ StackOwned
      BY <2>1, OnWayOwned
    <2>3. There' = There /\ Pending = {} /\ PendingPrints = {} /\ Pending' = {} /\ PendingPrints' = {}
      BY <2>1, <2>2 DEF There, Pending, PendingPrints, people
    <2>4. RecordsOwned'
      BY <2>1, <2>2, <2>3 DEF RecordsOwned, people, prints
    <2>5. RolesOwned'
      BY <2>2 DEF RolesOwned, Making
    <2> QED BY <2>1, <2>2, <2>3, <2>4, <2>5, SameStackOwned DEF Owned
  <1>2. CASE MakeAnonymous /\ Create("keepPrints") /\ UNCHANGED prints
    BY <1>2, CreateOwned DEF MakeAnonymous
  <1>3. CASE MakePerson /\ Create("move") /\ UNCHANGED prints
    BY <1>3, CreateOwned DEF MakePerson
  <1> QED BY <1>1, <1>2, <1>3 DEF MakeAnonymous, MakePerson

\* The voiceprints are loaded, or nothing happens to the files: what the operation goes on with.
LEMMA LoadedOwned ==
  ASSUME Basics, Owned, ~slip', V!Load \/ UNCHANGED prints, UNCHANGED <<people, ref, undo, mishaps, foreign>>,
         PendingPrints' = PendingPrints, Pending' = Pending
  PROVE  /\ RecordsOwned' /\ There' = There /\ StackOwned' /\ RecordsOwned /\ RolesOwned /\ StackOwned
  <1>1. RecordsOwned /\ RolesOwned /\ StackOwned
    BY DEF Owned, mishaps
  <1>2. There' = There /\ UNCHANGED pMem
    BY DEF There, people
  <1>3. /\ vDisk' = vDisk /\ vMem' \in {vMem, vDisk}
        /\ ~vLoading' => vMem' = vDisk' \/ (vMem' = vMem /\ ~vLoading)
    <2>1. vReadable
      BY DEF Basics, PrintsStore, mishaps
    <2> QED BY <2>1 DEF V!Load, prints, Basics, TypeOK
  <1>4. RecordsOwned'
    <2>1. (pMem \subseteq There)' /\ ref' \in {Nobody} \union There' \union Pending'
      BY <1>1, <1>2 DEF RecordsOwned
    <2>2. \A s \in Samples : /\ vDisk'[s] \in {Nobody} \union There' \union PendingPrints'
                             /\ vMem'[s] \in {Nobody} \union There' \union PendingPrints'
      BY <1>1, <1>2, <1>3 DEF RecordsOwned
    <2>3. ~vLoading' => \A s \in Samples : vDisk'[s] = vMem'[s] \/ vDisk'[s] \in {Nobody} \union foreign'
      BY <1>1, <1>3 DEF RecordsOwned
    <2> QED BY <2>1, <2>2, <2>3 DEF RecordsOwned
  <1> QED BY <1>1, <1>2, <1>4, SameStackOwned

LEMMA ToIdleOwned ==
  ASSUME Basics, Owned, ~slip', V!Load \/ UNCHANGED prints, UNCHANGED <<people, ref, undo, mishaps, foreign>>,
         op' = Idle, Pending = {}, PendingPrints = {}
  PROVE  Owned'
  <1>1. op'.at = "idle" /\ op'.kind = "none" /\ Pending' = {} /\ PendingPrints' = {}
    BY IdleResult DEF Pending, PendingPrints
  <1>2. RecordsOwned' /\ StackOwned'
    BY <1>1, LoadedOwned
  <1>3. RolesOwned'
    BY <1>1 DEF RolesOwned, Making
  <1> QED BY <1>2, <1>3 DEF Owned

LEMMA FinishOwned == ASSUME Basics, Owned, Finish, ~slip' PROVE Owned'
  <1>1. Pending = {} /\ PendingPrints = {}
    BY DEF Finish, Pending, PendingPrints
  <1> QED BY <1>1, ToIdleOwned DEF Finish, rest

LEMMA ReloadOnlyOwned == ASSUME Basics, Owned, ReloadOnly, ~slip' PROVE Owned'
  <1>1. Pending = {} /\ PendingPrints = {}
    BY DEF ReloadOnly, Reloaded, Pending, PendingPrints
  <1> QED BY <1>1, ToIdleOwned DEF ReloadOnly, Reloaded

LEMMA BeginOwned == ASSUME Basics, Owned, Begin \/ BeginRemoveSample, ~slip' PROVE Owned'
  <1>1. /\ op.at = "idle" /\ op.kind = "none" /\ op'.at \in {"people", "sample"} /\ op'.kind = "none"
        /\ UNCHANGED <<undo, ref, foreign, slip, pDisk, pMem, vDisk, vMem>>
        /\ ~vLoading
    BY DEF Begin, BeginRemoveSample, Idle, P!Stamp, V!Stamp, people, prints, mishaps, rest, Basics, Shape, PrintsStore
  <1>2. There' = There /\ Pending = {} /\ PendingPrints = {} /\ Pending' = {} /\ PendingPrints' = {}
    BY <1>1 DEF There, Pending, PendingPrints
  <1>3. RecordsOwned' /\ RolesOwned'
    BY <1>1, <1>2 DEF Owned, RecordsOwned, RolesOwned, Making
  <1>4. StackOwned'
    BY <1>1, <1>2, SameStackOwned DEF Owned
  <1> QED BY <1>3, <1>4 DEF Owned

\* The last entry leaves the stack: what it took away is pending now, and whom it is about is there.
LEMMA BeginUndoOwned == ASSUME Basics, Owned, BeginUndo, ~slip' PROVE Owned'
  <1> DEFINE n == Len(undo)
             e == undo[n]
  <1>1. /\ op.at = "idle" /\ op.kind = "none" /\ op' = [e EXCEPT !.at = "people"]
        /\ UNCHANGED <<ref, foreign, slip, pDisk, pMem, vDisk, vMem>>
        /\ ~vLoading
    BY DEF BeginUndo, P!Stamp, prints, mishaps, rest, Basics, Shape, PrintsStore
  <1>2. /\ n \in 1 .. MaxUndo /\ e \in Operations /\ Len(undo') = n - 1
        /\ \A i \in 1 .. Len(undo') : undo'[i] = undo[i]
    BY PopResult DEF BeginUndo, Basics
  <1>3. n \in Nat \ {0} /\ Entry(e)
    BY <1>2, PeopleAssumption DEF Basics, StackShape
  <1>4. op'.at = "people" /\ op'.kind = e.kind /\ op'.person = e.person /\ op'.other = e.other
    BY <1>1, <1>2 DEF Operations
  <1>5. RecordsOwned /\ StackOwned
    BY <1>1 DEF Owned
  <1> HIDE DEF e
  <1>6. /\ There' = There /\ Pending = {} /\ PendingPrints = {} /\ PendingPrints' = Pending'
        /\ e.kind = "merged" => Pending' = {e.other}
    BY <1>1, <1>4 DEF There, Pending, PendingPrints
  <1>7. e.kind # "merged" => e.person \in There
    <2>1. n \in 1 .. Len(undo) /\ \A j \in n .. Len(undo) : undo[j] = e
      BY <1>3 DEF e
    <2> QED BY <1>5, <1>6, <2>1 DEF StackOwned
  <1>8. RecordsOwned'
    BY <1>1, <1>5, <1>6 DEF RecordsOwned
  <1>9. RolesOwned'
    BY <1>4, <1>6, <1>7 DEF RolesOwned, Making
  <1>10. StackOwned'
    <2>1. SUFFICES ASSUME NEW i \in 1 .. n - 1, undo[i].kind # "merged", undo[i].person \notin There \union Pending'
                   PROVE  \E j \in i .. n - 1 : undo'[j].kind = "merged" /\ undo'[j].other = undo[i].person
      BY <1>2, <1>6 DEF StackOwned
    <2>2. PICK j \in i .. n : undo[j].kind = "merged" /\ undo[j].other = undo[i].person
      BY <1>3, <1>5, <1>6, <2>1 DEF StackOwned
    <2>3. j # n
      BY <1>6, <2>1, <2>2 DEF e
    <2>4. j \in i .. n - 1 /\ j \in 1 .. Len(undo')
      <3>1. i \in Nat \ {0} /\ i <= n - 1 /\ j \in Nat /\ i <= j /\ j <= n - 1
        BY <1>3, <2>1, <2>2, <2>3
      <3> QED BY <1>2, <1>3, <3>1
    <2>5. undo'[j] = undo[j]
      BY <1>2, <2>4
    <2> QED BY <2>2, <2>4, <2>5
  <1> QED BY <1>8, <1>9, <1>10 DEF Owned

LEMMA ReloadPeopleOwned == ASSUME Basics, Owned, ReloadPeople, ~slip' PROVE Owned'
  <1>1. /\ op.at = "people" /\ UNCHANGED <<undo, foreign, slip, ref, pDisk, vDisk, vMem>> /\ ~vLoading
        /\ pMem' \in {pMem, pDisk}
    BY DEF ReloadPeople, P!Load, V!Stamp, mishaps, rest, Basics, PrintsStore
  <1>2. SameOp /\ op'.at = "prints"
    BY GotoResult DEF ReloadPeople, Basics, TypeOK, Places
  <1>3. RecordsOwned /\ RolesOwned /\ StackOwned
    BY <1>1 DEF Owned
  <1>4. There' = There /\ Pending' = Pending /\ PendingPrints' = PendingPrints
    BY <1>1, <1>2 DEF There, Pending, PendingPrints, SameOp
  <1>5. RecordsOwned'
    BY <1>1, <1>3, <1>4 DEF RecordsOwned, There
  <1>6. RolesOwned'
    BY <1>1, <1>2, <1>3, <1>4 DEF RolesOwned, Making, SameOp
  <1>7. StackOwned'
    BY <1>1, <1>3, <1>4, SameStackOwned
  <1> QED BY <1>5, <1>6, <1>7 DEF Owned

\* An operation of the user is about persons there are.
LEMMA StartOwned ==
  ASSUME Basics, Owned, ~slip', op.at \in {"prints", "sample"}, op.kind = "none", V!Load,
         UNCHANGED <<people, ref, undo, mishaps, foreign>>,
         op'.at \in {"contains", "anonymous", "delete", "make", "move", "removeSample"},
         op'.at = "contains" => op'.person # op'.other,
         op'.at \in {"anonymous", "delete"} => op'.person \in pMem,
         op'.at = "delete" => op'.other = Nobody,
         op'.at = "move" => op'.other \in pMem /\ ~op'.new,
         op'.at \in {"make", "move", "removeSample"} =>
           op'.person # Nobody /\ \E s \in Samples : op'.person = vMem'[s]
  PROVE  Owned'
  <1>1. Pending = {} /\ PendingPrints = {} /\ Pending' = {} /\ PendingPrints' = {}
    BY DEF Pending, PendingPrints
  <1>2. RecordsOwned' /\ There' = There /\ StackOwned' /\ RecordsOwned
    BY <1>1, LoadedOwned
  <1>3. /\ op'.at \in {"anonymous", "delete", "make", "move", "removeSample"} => op'.person \in There'
        /\ op'.at = "move" => op'.other \in There'
    BY <1>1, <1>2 DEF RecordsOwned
  <1>4. Nobody \notin There'
    BY <1>2, PeopleAssumption DEF There, Basics, TypeOK
  <1>5. RolesOwned'
    BY <1>3, <1>4 DEF RolesOwned, Making
  <1> QED BY <1>2, <1>5 DEF Owned

LEMMA StartsOwned ==
  ASSUME Basics, Owned, ~slip', StartMerge \/ StartRemove \/ StartMove \/ StartRemoveSample
  PROVE  Owned'
  <1>1. /\ op \in Operations /\ op.at \in {"prints", "sample"} /\ op.kind = "none" /\ op.other = Nobody /\ ~op.new
        /\ V!Load /\ UNCHANGED <<people, ref, undo, mishaps, foreign>>
    BY DEF StartMerge, StartRemove, StartMove, StartRemoveSample, Start, Reloaded, Basics, TypeOK, Shape
  <1>2. CASE StartMerge
    <2>1. PICK keep \in pMem, drop \in pMem :
             /\ keep # drop
             /\ op' = [op EXCEPT !.at = "contains", !.kind = "merged", !.person = keep, !.other = drop]
      BY <1>2 DEF StartMerge
    <2>2. op'.at = "contains" /\ op'.person = keep /\ op'.other = drop
      BY <1>1, <2>1 DEF Operations
    <2> QED BY <1>1, <2>1, <2>2, StartOwned
  <1>3. CASE StartRemove
    <2>1. op'.at \in {"anonymous", "delete"} /\ op'.other = Nobody /\ op'.person \in pMem
      BY <1>1, <1>3 DEF StartRemove, Operations
    <2> QED BY <1>1, <2>1, StartOwned
  <1>4. CASE StartMove
    <2>1. PICK s \in Samples :
             /\ vMem'[s] # Nobody
             /\ \/ \E to \in pMem \ {vMem'[s]} :
                     op' = [op EXCEPT !.at = "move", !.kind = "moved", !.person = vMem'[s],
                                      !.other = to, !.samples = {s}]
                \/ op' = [op EXCEPT !.at = "make", !.kind = "moved", !.person = vMem'[s],
                                    !.new = TRUE, !.samples = {s}]
      BY <1>4 DEF StartMove
    <2>2. /\ op'.person = vMem'[s]
          /\ \/ op'.at = "move" /\ op'.new = op.new /\ op'.other \in pMem
             \/ op'.at = "make"
      BY <1>1, <2>1 DEF Operations
    <2> QED BY <1>1, <2>1, <2>2, StartOwned
  <1>5. CASE StartRemoveSample /\ op' = Idle
    <2>1. Pending = {} /\ PendingPrints = {}
      BY <1>1 DEF Pending, PendingPrints
    <2> QED BY <1>1, <1>5, <2>1, ToIdleOwned
  <1>6. CASE StartRemoveSample /\ op' # Idle
    <2>1. PICK s \in Samples :
             /\ vMem'[s] # Nobody
             /\ op' = [op EXCEPT !.at = "removeSample", !.kind = "sampleRemoved",
                                 !.person = vMem'[s], !.samples = {s}]
      BY <1>6 DEF StartRemoveSample
    <2>2. op'.at = "removeSample" /\ op'.person = vMem'[s]
      BY <1>1, <2>1 DEF Operations
    <2> QED BY <1>1, <2>1, <2>2, StartOwned
  <1> QED BY <1>2, <1>3, <1>4, <1>5, <1>6

LEMMA StartUndoOwned == ASSUME Basics, Owned, UndoMerge \/ UndoMove \/ UndoRemoveSample, ~slip' PROVE Owned'
  <1>1. PICK at \in {"restoreDrop", "moveBack", "addBack"} :
          /\ Goto(at) /\ op.at = "prints" /\ V!Load
          /\ op.kind = CASE at = "restoreDrop" -> "merged" [] at = "moveBack" -> "moved" [] OTHER -> "sampleRemoved"
          /\ UNCHANGED <<people, ref, undo, mishaps, foreign>>
    BY DEF UndoMerge, UndoMove, UndoRemoveSample, StartUndo, Reloaded
  <1>2. SameOp /\ op'.at = at
    BY <1>1, GotoResult DEF Places, Basics, TypeOK
  <1>3. Pending' = Pending /\ PendingPrints' = PendingPrints
    BY <1>1, <1>2 DEF Pending, PendingPrints, SameOp
  <1>4. RecordsOwned' /\ There' = There /\ StackOwned' /\ RolesOwned
    BY <1>1, <1>3, LoadedOwned
  <1>5. RolesOwned'
    BY <1>1, <1>2, <1>4 DEF RolesOwned, Making, SameOp
  <1> QED BY <1>4, <1>5 DEF Owned

----------------------------------------------------------------------------
(* The other process removes or gives only what is foreign from then on *)

LEMMA OtherOwned == ASSUME Basics, Owned, OtherCreates \/ OtherRemoves \/ OtherAddsSample, ~slip' PROVE Owned'
  <1>1. UNCHANGED <<op, undo, slip, pMem, vMem, vLoading>>
    BY DEF OtherCreates, OtherRemoves, OtherAddsSample, Other, mishaps, P!Overwritten, V!Overwritten, people, prints
  <1>2. RecordsOwned /\ RolesOwned /\ StackOwned
    BY <1>1 DEF Owned
  <1>3. There \subseteq There' /\ foreign \subseteq foreign' /\ ref' \in {ref, Nobody}
    BY DEF OtherCreates, OtherRemoves, OtherAddsSample, Other, P!Overwritten, There, people, prints
  <1>4. \A s \in Samples : vDisk'[s] \in {vDisk[s], Nobody} \union foreign'
    BY DEF OtherCreates, OtherRemoves, OtherAddsSample, Other, V!Overwritten, prints, Given
  <1>5. Pending' = Pending /\ PendingPrints' = PendingPrints /\ Making' = Making /\ foreign' \subseteq There'
    BY <1>1 DEF Pending, PendingPrints, Making, There
  <1>6. RecordsOwned'
    <2>1. (pMem \subseteq There)' /\ ref' \in {Nobody} \union There' \union Pending'
      BY <1>1, <1>2, <1>3, <1>5 DEF RecordsOwned
    <2>2. \A s \in Samples : /\ vDisk'[s] \in {Nobody} \union There' \union PendingPrints'
                             /\ vMem'[s] \in {Nobody} \union There' \union PendingPrints'
      BY <1>1, <1>2, <1>3, <1>4, <1>5 DEF RecordsOwned
    <2>3. ~vLoading' => \A s \in Samples : vDisk'[s] = vMem'[s] \/ vDisk'[s] \in {Nobody} \union foreign'
      BY <1>1, <1>2, <1>3, <1>4 DEF RecordsOwned
    <2> QED BY <2>1, <2>2, <2>3 DEF RecordsOwned
  <1>7. RolesOwned'
    <2>1. Making => op.other # Nobody
      BY PeopleAssumption DEF Making, Basics, Shape, TypeOK
    <2>2. Making => op.other \in foreign' \/ \A s \in Samples : vDisk'[s] # op.other /\ vMem'[s] # op.other
      BY <1>1, <1>2, <1>3, <1>4, <2>1 DEF RolesOwned
    <2>3. Making \/ op.at \in {"delete", "givePrintsBack"} => op.other = Nobody \/ ref' # op.other
      BY <1>2, <1>3 DEF RolesOwned
    <2> QED BY <1>1, <1>2, <1>3, <1>5, <2>2, <2>3 DEF RolesOwned
  <1>8. StackOwned'
    BY <1>1, <1>2, <1>3, <1>5, SameStackOwned
  <1> QED BY <1>6, <1>7, <1>8 DEF Owned

LEMMA InitOwned == ASSUME Init PROVE Owned
  <1>1. op.at = "idle" /\ op.kind = "none" /\ undo = <<>> /\ Len(undo) = 0
    BY DEF Init, Idle
  <1>2. Pending = {} /\ PendingPrints = {} /\ There = FirstPersons
    BY <1>1 DEF Pending, PendingPrints, There, Init
  <1>3. RecordsOwned
    BY <1>2, PeopleAssumption DEF RecordsOwned, Init
  <1>4. RolesOwned /\ StackOwned
    BY <1>1 DEF RolesOwned, StackOwned, Making
  <1> QED BY <1>3, <1>4 DEF Owned

LEMMA StutterOwned == ASSUME Basics, Owned, UNCHANGED vars PROVE Owned'
  <1>1. UNCHANGED <<op, undo, slip, pDisk, pMem, vDisk, vMem, vLoading, ref, foreign>>
    BY DEF vars, people, prints, mishaps, rest
  <1> QED BY <1>1 DEF Owned, RecordsOwned, RolesOwned, StackOwned, There, Pending, PendingPrints, Making

LEMMA NextOwned == ASSUME Basics, Owned, [Next]_vars PROVE Owned'
  <1>1. slip => slip'
    BY NextSlip
  <1>2. CASE slip'
    BY <1>2 DEF Owned
  <1>3. CASE ~slip'
    BY <1>1, <1>3, BeginOwned, BeginUndoOwned, ReloadPeopleOwned, ReloadOnlyOwned, FinishOwned, StartsOwned,
       BothKnownOwned, FoldRecordOwned, FoldPrintsOwned, FoldRefsOwned, StartUndoOwned, RestoreOwned, RefreshPrintsOwned,
       UnfoldPrintsOwned, UnfoldRefsOwned, MakeOwned, KeepPrintsOwned, DeleteRecordOwned, DeletePrintsOwned,
       DeleteRefsOwned, GivePrintsBackOwned, UnmakeOwned, MoveSampleOwned, MoveBackOwned, DropUnusedOwned,
       RemoveSampleOwned, OtherOwned, FileStep, StutterOwned DEF Next
  <1> QED BY <1>2, <1>3

LEMMA OwnedHolds == Spec => []Owned
  <1> QED BY InitOwned, NextOwned, BasicsHold, PTL DEF Spec

\* Whatever the operations of the user were, refused halfway or taken back, and whatever the other
\* process did between their steps: between operations every voice sample and the meeting's speaker
\* belong to a person in people.json, or to one the other process dealt with.
THEOREM NothingOrphanedHolds == Spec => []NothingOrphaned
  <1>1. ASSUME Basics, Owned, op.at = "idle", ~slip
        PROVE  \A person \in {vDisk[s] : s \in Samples} \union {ref} : person \in {Nobody} \union pDisk \union foreign
    <2>1. Pending = {} /\ PendingPrints = {}
      BY <1>1 DEF Pending, PendingPrints
    <2> QED BY <1>1, <2>1 DEF Owned, RecordsOwned, There
  <1>2. Basics /\ Owned => NothingOrphaned
    BY <1>1 DEF NothingOrphaned
  <1> QED BY <1>2, BasicsHold, OwnedHolds, PTL
=============================================================================
