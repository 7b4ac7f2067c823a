--------------------------- MODULE MibRequests_proofs ---------------------------
(* What the locking of the MIB and of its entries guarantees for any number  *)
(* of requests, entries and threads that remove entries.  The argument rests *)
(* on the inductive invariant IInv: who may hold the MIB's lock at which     *)
(* label, and that an entry with an owner is in its context.  The later      *)
(* parts add what isolation needs (Isolated) and what undo needs             *)
(* (Restorable).                                                             *)
EXTENDS MibRequests, TLAPS

GetLabels == {"find", "lock", "read", "answer", "answered"}
SetLabels == {"enter", "prepare", "commit", "undo", "cleanup", "answer", "answered"}
RemoveLabels == {"idle", "strip", "reclaim", "unlink", "delete", "removed", "leaked", "lost"}

(* The labels at which a thread is concerned with a binding. *)
AtBinding == {"find", "lock", "read", "prepare", "commit", "undo", "cleanup",
              "strip", "reclaim", "unlink", "delete"}

USE DEF entryVars

TypeInv ==
    /\ present \subseteq Entries /\ stripped \subseteq Entries /\ freed \subseteq Entries
    /\ groups \subseteq Groups
    /\ mib \in Threads \cup {NoOne}
    /\ owner \in [Entries -> Requests \cup {NoOne}]
    /\ value \in [Leaves -> Sets \cup {Initial}]
    /\ undo \in [Leaves -> Sets \cup {Initial, NoOne}]
    /\ pc \in [Threads -> GetLabels \cup SetLabels \cup RemoveLabels]
    /\ asked \in [Threads -> Seq(Entries)]
    /\ at \in [Threads -> Nat \ {0}]
    /\ locks \in [Sets -> Seq(Entries \cup {NoOne})]

(* A thread is at a label of its kind, and at one of its bindings. *)
Places ==
    /\ \A g \in Gets : pc[g] \in GetLabels
    /\ \A s \in Sets : pc[s] \in SetLabels /\ asked[s] # <<>>
    /\ \A m \in Removers : pc[m] \in RemoveLabels /\ (pc[m] = "idle" => at[m] = 1)
    /\ \A t \in Threads : pc[t] \in AtBinding => at[t] \in 1 .. Len(asked[t])
    /\ \A s \in Sets : pc[s] # "answered" => Len(locks[s]) = Len(asked[s])

(* Who looks something up in the MIB, or changes it, has its lock. *)
MibHeld ==
    \A t \in Threads :
        pc[t] \in {"lock", "prepare", "strip", "reclaim", "unlink", "delete"} => mib = t

(* remove_group has freed what e keeps, and waits for e's lock. *)
Awaited(e) == \E m \in Removers : pc[m] = "reclaim" /\ Entry(m) = e

(* An entry that is locked, or about to be, is in its context or awaited;    *)
(* one about to be deleted is not in it, and one that lost its value or was  *)
(* deleted never comes back.                                                 *)
InContext ==
    /\ freed \subseteq stripped /\ present \cap stripped = {}
    /\ \A e \in Entries : owner[e] # NoOne => e \in present \/ Awaited(e)
    /\ \A m \in Removers : pc[m] = "reclaim" => Entry(m) \in stripped \ freed
    /\ \A t \in Threads : pc[t] \in {"lock", "unlink"} => Entry(t) \in present
    /\ \A t \in Threads : pc[t] = "delete" => Entry(t) \notin present

IInv == TypeInv /\ Places /\ MibHeld /\ InContext
--------------------------------------------------------------------------------
\* The MIB is unlocked and nobody has come to an entry.
LEMMA InitInv == Init => IInv
<1> SUFFICES ASSUME Init PROVE IInv
  OBVIOUS
<1> USE NoOneIsNobody, KindsDiffer DEF Threads, Requests
<1>1. PICK reads \in [Gets -> Reads], writes \in [Sets -> Writes] :
        /\ asked = [t \in Threads |-> CASE t \in Gets -> reads[t]
                                        [] t \in Sets -> writes[t]
                                        [] OTHER -> <<>>]
        /\ locks = [s \in Sets |-> [i \in DOMAIN writes[s] |-> NoOne]]
  BY DEF Init
<1>2. /\ \A g \in Gets : reads[g] \in Seq(Entries) /\ reads[g] # <<>>
      /\ \A s \in Sets : writes[s] \in Seq(Entries) /\ writes[s] # <<>>
  BY ReadsOfEntries, WritesOfEntries
<1>3. asked \in [Threads -> Seq(Entries)]
  BY <1>1, <1>2
<1>4. \A s \in Sets : /\ [i \in DOMAIN writes[s] |-> NoOne] \in Seq(Entries \cup {NoOne})
                      /\ Len([i \in DOMAIN writes[s] |-> NoOne]) = Len(writes[s])
  BY <1>2
<1>5. TypeInv
  BY <1>1, <1>3, <1>4 DEF Init, TypeInv, GetLabels, SetLabels, RemoveLabels, Entries
<1>6. \A g \in Gets : pc[g] = "find" /\ at[g] = 1 /\ Len(asked[g]) >= 1
  BY <1>1, <1>2 DEF Init
<1>7. \A s \in Sets : /\ pc[s] = "enter" /\ asked[s] = writes[s] /\ asked[s] # <<>>
                      /\ Len(locks[s]) = Len(asked[s])
  BY <1>1, <1>2, <1>4 DEF Init
<1>8. \A m \in Removers : pc[m] = "idle" /\ at[m] = 1
  BY DEF Init
<1>9. Places
  BY <1>6, <1>7, <1>8, <1>5 DEF Places, AtBinding, GetLabels, SetLabels, RemoveLabels, TypeInv
<1>10. MibHeld /\ InContext
  BY <1>6, <1>7, <1>8 DEF Init, MibHeld, InContext
<1> QED BY <1>5, <1>9, <1>10 DEF IInv
--------------------------------------------------------------------------------
(* The binding a thread is at names an entry. *)
LEMMA EntryType ==
    ASSUME IInv, NEW t \in Threads, pc[t] \in AtBinding
    PROVE  Entry(t) \in Entries /\ at[t] \in 1 .. Len(asked[t])
BY DEF IInv, TypeInv, Places, Entry

(* A request that comes to the lock of an entry of the context, and locks    *)
(* such entries only, leaves the entries as they are.                        *)
LEMMA InContextSame ==
    ASSUME IInv, Places', UNCHANGED entryVars,
           \A m \in Removers : pc'[m] = pc[m] /\ asked'[m] = asked[m] /\ at'[m] = at[m],
           \A e \in Entries : owner'[e] # NoOne => owner[e] # NoOne \/ e \in present,
           \A r \in Requests : pc'[r] = "lock" => Entry(r)' \in present
    PROVE  InContext'
<1> USE KindsDiffer DEF Threads, Requests
<1>1. InContext
  BY DEF IInv
<1>2. \A m \in Removers : Entry(m)' = Entry(m)
  BY DEF Entry
<1>3. \A e \in Entries : Awaited(e) => Awaited(e)'
  BY <1>2 DEF Awaited
<1>4. \A r \in Requests : pc'[r] \notin {"unlink", "delete", "reclaim"}
  BY DEF Places, GetLabels, SetLabels
<1> QED BY <1>1, <1>2, <1>3, <1>4 DEF InContext

(* The four phases of a SET go from binding to binding in the same way. *)
LEMMA SetStepPlaces ==
    ASSUME IInv, NEW s \in Sets, pc[s] \in AtBinding \cup {"enter"}, asked' = asked,
           NEW next \in SetLabels,
           \/ Phase(s, next)
           \/ pc[s] \in AtBinding /\ NextBinding(s, next),
           \A u \in Sets : locks'[u] # locks[u] => Len(locks'[u]) = Len(locks[u])
    PROVE  /\ pc' \in [Threads -> GetLabels \cup SetLabels \cup RemoveLabels]
           /\ at' \in [Threads -> Nat \ {0}]
           /\ Places'
           /\ pc'[s] \in {pc[s], next}
           /\ \A t \in Threads \ {s} : pc'[t] = pc[t] /\ at'[t] = at[t]
<1> USE KindsDiffer DEF Threads, Requests
<1>1. TypeInv /\ Places /\ pc[s] # "answered"
  BY DEF IInv, AtBinding
<1>2. /\ pc' \in [Threads -> GetLabels \cup SetLabels \cup RemoveLabels]
      /\ at' \in [Threads -> Nat \ {0}]
      /\ \A t \in Threads \ {s} : pc'[t] = pc[t] /\ at'[t] = at[t]
      /\ pc'[s] \in {pc[s], next}
      /\ pc'[s] \in AtBinding => at'[s] \in 1 .. Len(asked[s])
      /\ pc'[s] \in SetLabels
  <2>1. asked[s] # <<>> /\ asked[s] \in Seq(Entries) /\ Len(asked[s]) \in Nat \ {0}
    BY <1>1 DEF TypeInv, Places
  <2>2. CASE Phase(s, next)
    BY <1>1, <2>1, <2>2 DEF Phase, Goto, TypeInv
  <2>3. CASE NextBinding(s, next) /\ pc[s] \in AtBinding
    <3>1. at[s] \in 1 .. Len(asked[s]) /\ pc[s] \in SetLabels
      BY <1>1, <2>3 DEF Places
    <3>2. CASE at[s] = Len(asked[s])
      <4>1. Phase(s, next)
        BY <2>3, <3>2 DEF NextBinding, AtLast
      <4> QED BY <1>1, <2>1, <4>1 DEF Phase, Goto, TypeInv
    <3>3. CASE at[s] # Len(asked[s])
      <4>1. at' = [at EXCEPT ![s] = at[s] + 1] /\ pc' = pc
        BY <2>3, <3>3 DEF NextBinding, AtLast
      <4>2. at[s] + 1 \in 1 .. Len(asked[s])
        BY <2>1, <3>1, <3>3
      <4> QED BY <1>1, <3>1, <4>1, <4>2 DEF TypeInv
    <3> QED BY <3>2, <3>3
  <2> QED BY <2>2, <2>3
<1>3. Places'
  BY <1>1, <1>2 DEF Places, TypeInv
<1> QED BY <1>2, <1>3

\* GET looks the entry up.
LEMMA FindKeeps ==
    ASSUME IInv, NEW g \in Gets, Find(g)
    PROVE  IInv'
<1> USE KindsDiffer, NoOneIsNobody DEF Threads, Requests
<1>1. TypeInv /\ Places /\ MibHeld /\ InContext
  BY DEF IInv
<1>2. Entry(g) \in Entries /\ at[g] \in 1 .. Len(asked[g]) /\ Len(asked[g]) \in Nat
  BY <1>1, EntryType DEF Find, AtBinding, TypeInv
<1>3. UNCHANGED <<present, stripped, freed, groups, owner, value, undo, asked, locks>> /\ mib = NoOne
  BY DEF Find, setVars
<1>4. CASE Entry(g) \in present /\ mib' = g /\ Goto(g, "lock") /\ UNCHANGED at
  <2>1. pc'[g] = "lock" /\ \A t \in Threads \ {g} : pc'[t] = pc[t]
    BY <1>1, <1>4 DEF Goto, TypeInv
  <2>2. TypeInv'
    BY <1>1, <1>3, <1>4 DEF TypeInv, Goto, GetLabels
  <2>3. Places'
    BY <1>1, <1>2, <1>3, <1>4, <2>1 DEF Places, GetLabels
  <2>4. MibHeld'
    BY <1>1, <1>3, <1>4, <2>1 DEF MibHeld
  <2>5. InContext'
    <3>1. \A r \in Requests : pc'[r] = "lock" => Entry(r)' \in present
      BY <1>1, <1>3, <1>4, <2>1 DEF InContext, Entry
    <3>2. \A r \in Removers : pc'[r] = pc[r] /\ asked'[r] = asked[r] /\ at'[r] = at[r]
      BY <1>3, <1>4, <2>1
    <3> QED BY <1>1, <1>3, <2>3, <3>1, <3>2, InContextSame DEF InContext
  <2> QED BY <2>2, <2>3, <2>4, <2>5 DEF IInv
<1>5. ASSUME NEW n \in {at[g] + 1, Len(asked[g]) + 1}, GetNext(g, n), UNCHANGED mib
      PROVE  IInv'
  <2>1. /\ n \in Nat \ {0}
        /\ at' = [at EXCEPT ![g] = n]
        /\ pc'[g] = IF n > Len(asked[g]) THEN "answer" ELSE "find"
        /\ \A t \in Threads \ {g} : pc'[t] = pc[t]
    BY <1>1, <1>2, <1>5 DEF GetNext, Goto, TypeInv
  <2>2. TypeInv'
    BY <1>1, <1>3, <1>5, <2>1 DEF TypeInv, GetNext, Goto, GetLabels
  <2>3. /\ pc'[g] \in GetLabels
        /\ pc'[g] \in AtBinding => n \in 1 .. Len(asked[g])
    BY <1>2, <2>1 DEF GetLabels, AtBinding
  <2>6. at'[g] = n /\ \A t \in Threads \ {g} : at'[t] = at[t]
    BY <1>1, <2>1 DEF TypeInv
  <2>7. Places'
    BY <1>1, <1>3, <2>1, <2>3, <2>6 DEF Places
  <2>4. MibHeld'
    BY <1>1, <1>5, <2>1 DEF MibHeld
  <2>5. InContext'
    <3>1. \A r \in Requests : pc'[r] = "lock" => Entry(r)' \in present
      BY <1>1, <1>3, <2>1, <2>6 DEF InContext, Entry
    <3>2. \A r \in Removers : pc'[r] = pc[r] /\ asked'[r] = asked[r] /\ at'[r] = at[r]
      BY <1>3, <2>1, <2>6
    <3> QED BY <1>1, <1>3, <2>7, <3>1, <3>2, InContextSame DEF InContext
  <2> QED BY <2>2, <2>4, <2>5, <2>7 DEF IInv
<1> QED BY <1>4, <1>5 DEF Find

\* GET has the entry's lock and gives the MIB's back.
LEMMA LockEntryKeeps ==
    ASSUME IInv, NEW g \in Gets, LockEntry(g)
    PROVE  IInv'
<1> USE KindsDiffer, NoOneIsNobody DEF Threads, Requests
<1>1. TypeInv /\ Places /\ MibHeld /\ InContext
  BY DEF IInv
<1>2. pc[g] = "lock" /\ Entry(g) \in Entries /\ mib = g /\ Entry(g) \in present
  BY <1>1, EntryType DEF LockEntry, AtBinding, MibHeld, InContext
<1>3. /\ UNCHANGED <<present, stripped, freed, groups, value, undo, asked, at, locks>>
      /\ owner' = [owner EXCEPT ![Entry(g)] = g]
      /\ mib' = NoOne
      /\ pc' = [pc EXCEPT ![g] = "read"]
  BY <1>2 DEF LockEntry, setVars, Goto
<1>4. TypeInv'
  BY <1>1, <1>2, <1>3 DEF TypeInv, GetLabels
<1>5. pc'[g] = "read" /\ \A t \in Threads \ {g} : pc'[t] = pc[t]
  BY <1>1, <1>3 DEF TypeInv
<1>6. Places'
  BY <1>1, <1>2, <1>3, <1>5 DEF Places, GetLabels, AtBinding
<1>7. MibHeld'
  BY <1>1, <1>2, <1>3, <1>5 DEF MibHeld
<1>8. InContext'
  BY <1>1, <1>2, <1>3, <1>5, <1>6, InContextSame DEF InContext, Entry, TypeInv
<1> QED BY <1>4, <1>6, <1>7, <1>8 DEF IInv

\* GET reads with the entry's lock alone.
LEMMA ReadKeeps ==
    ASSUME IInv, NEW g \in Gets, Read(g)
    PROVE  IInv'
<1> USE KindsDiffer, NoOneIsNobody DEF Threads, Requests
<1>1. TypeInv /\ Places /\ MibHeld /\ InContext
  BY DEF IInv
<1>2. pc[g] = "read" /\ Entry(g) \in Entries /\ at[g] \in 1 .. Len(asked[g])
  BY <1>1, EntryType DEF Read, AtBinding
<1>3. /\ UNCHANGED <<present, stripped, freed, groups, mib, value, undo, asked, locks>>
      /\ owner' = [owner EXCEPT ![Entry(g)] = NoOne]
      /\ at' = [at EXCEPT ![g] = at[g] + 1]
      /\ pc' = [pc EXCEPT ![g] = IF at[g] + 1 > Len(asked[g]) THEN "answer" ELSE "find"]
  BY DEF Read, setVars, GetNext, Goto
<1>4. TypeInv'
  BY <1>1, <1>2, <1>3 DEF TypeInv, GetLabels
<1>5. /\ pc'[g] = IF at[g] + 1 > Len(asked[g]) THEN "answer" ELSE "find"
      /\ at'[g] = at[g] + 1
      /\ \A t \in Threads \ {g} : pc'[t] = pc[t] /\ at'[t] = at[t]
  BY <1>1, <1>3 DEF TypeInv
<1>6. /\ pc'[g] \in GetLabels
      /\ pc'[g] \in AtBinding => at'[g] \in 1 .. Len(asked[g])
  BY <1>1, <1>2, <1>5 DEF GetLabels, AtBinding, TypeInv
<1>7. Places'
  BY <1>1, <1>3, <1>5, <1>6 DEF Places
<1>8. MibHeld'
  BY <1>1, <1>3, <1>5 DEF MibHeld
<1>9. InContext'
  BY <1>1, <1>2, <1>3, <1>5, <1>7, InContextSame DEF InContext, Entry, TypeInv
<1> QED BY <1>4, <1>7, <1>8, <1>9 DEF IInv

\* SET takes the MIB's lock.
LEMMA EnterKeeps ==
    ASSUME IInv, NEW s \in Sets, Enter(s)
    PROVE  IInv'
<1> USE KindsDiffer, NoOneIsNobody DEF Threads, Requests
<1>1. TypeInv /\ Places /\ MibHeld /\ InContext
  BY DEF IInv
<1>2. /\ pc[s] = "enter" /\ mib = NoOne /\ mib' = s /\ Phase(s, "prepare")
      /\ UNCHANGED <<present, stripped, freed, groups, owner, value, undo, asked, locks>>
  BY DEF Enter, setVars
<1>3. /\ pc' \in [Threads -> GetLabels \cup SetLabels \cup RemoveLabels]
      /\ at' \in [Threads -> Nat \ {0}]
      /\ Places'
      /\ \A t \in Threads \ {s} : pc'[t] = pc[t] /\ at'[t] = at[t]
  BY <1>2, SetStepPlaces DEF SetLabels
<1>4. pc'[s] = "prepare"
  BY <1>1, <1>2 DEF Phase, Goto, TypeInv
<1>5. TypeInv'
  BY <1>1, <1>2, <1>3 DEF TypeInv
<1>6. MibHeld'
  BY <1>1, <1>2, <1>3, <1>4 DEF MibHeld
<1>7. InContext'
  BY <1>1, <1>2, <1>3, <1>4, InContextSame DEF InContext, Entry
<1> QED BY <1>3, <1>5, <1>6, <1>7 DEF IInv

(* A step of a SET in one of its phases, which gives up the MIB's lock only  *)
(* when it leaves "prepare", and locks only what is in its context.          *)
LEMMA PhaseKeeps ==
    ASSUME IInv, NEW s \in Sets, pc[s] \in {"prepare", "commit", "undo", "cleanup"},
           NEW next \in {"commit", "undo", "cleanup", "answer"},
           Phase(s, next) \/ NextBinding(s, next),
           UNCHANGED <<present, stripped, freed, groups, asked>>,
           value' \in [Leaves -> Sets \cup {Initial}],
           undo' \in [Leaves -> Sets \cup {Initial, NoOne}],
           owner' \in [Entries -> Requests \cup {NoOne}],
           \A e \in Entries : owner'[e] # NoOne => owner[e] # NoOne \/ e \in present,
           locks' \in [Sets -> Seq(Entries \cup {NoOne})],
           \A u \in Sets : Len(locks'[u]) = Len(locks[u]),
           \/ mib' = mib
           \/ mib' = NoOne /\ pc[s] = "prepare" /\ pc'[s] # "prepare"
    PROVE  IInv'
<1> USE KindsDiffer, NoOneIsNobody DEF Threads, Requests
<1>1. TypeInv /\ Places /\ MibHeld /\ InContext
  BY DEF IInv
<1>2. /\ pc' \in [Threads -> GetLabels \cup SetLabels \cup RemoveLabels]
      /\ at' \in [Threads -> Nat \ {0}]
      /\ Places'
      /\ pc'[s] \in {pc[s], next}
      /\ \A t \in Threads \ {s} : pc'[t] = pc[t] /\ at'[t] = at[t]
  <2>1. {"commit", "undo", "cleanup", "answer"} \subseteq SetLabels
    BY DEF SetLabels
  <2>2. pc[s] \in AtBinding
    BY DEF AtBinding
  <2>3. next \in SetLabels /\ UNCHANGED asked
    BY <2>1
  <2> QED BY <2>2, <2>3, SetStepPlaces
<1>3. TypeInv'
  BY <1>1, <1>2 DEF TypeInv
<1>4. MibHeld'
  BY <1>1, <1>2 DEF MibHeld
<1>5. InContext'
  <2>1. \A r \in Requests : pc'[r] = "lock" => r # s /\ Entry(r)' \in present
    BY <1>1, <1>2 DEF InContext, Entry
  <2> QED BY <1>2, <2>1, InContextSame
<1> QED BY <1>2, <1>3, <1>4, <1>5 DEF IInv

\* SET prepares one binding.
LEMMA PrepareKeeps ==
    ASSUME IInv, NEW s \in Sets, Prepare(s)
    PROVE  IInv'
<1> USE KindsDiffer, NoOneIsNobody DEF Threads, Requests
<1>1. TypeInv /\ Places /\ MibHeld /\ InContext
  BY DEF IInv
<1>2. /\ pc[s] = "prepare" /\ Entry(s) \in Entries /\ at[s] \in 1 .. Len(asked[s])
      /\ Len(locks[s]) = Len(asked[s])
  BY <1>1, EntryType DEF Prepare, AtBinding, Places
<1>3. UNCHANGED <<present, stripped, freed, groups, value, undo, asked>>
  BY DEF Prepare
<1>4. /\ value' \in [Leaves -> Sets \cup {Initial}]
      /\ undo' \in [Leaves -> Sets \cup {Initial, NoOne}]
  BY <1>1, <1>3 DEF TypeInv
<1>5. /\ owner' \in [Entries -> Requests \cup {NoOne}]
      /\ \A e \in Entries : owner'[e] # NoOne => owner[e] # NoOne \/ e \in present
      /\ locks' \in [Sets -> Seq(Entries \cup {NoOne})]
      /\ \A u \in Sets : Len(locks'[u]) = Len(locks[u])
  <2>1. CASE UNCHANGED <<owner, locks>>
    BY <1>1, <2>1 DEF TypeInv
  <2>2. CASE TakeLock(s) /\ Entry(s) \in present
    <3>1. /\ owner' = [owner EXCEPT ![Entry(s)] = s]
          /\ locks' = [locks EXCEPT ![s] = [locks[s] EXCEPT ![at[s]] = Entry(s)]]
      BY <2>2 DEF TakeLock
    <3>2. /\ [locks[s] EXCEPT ![at[s]] = Entry(s)] \in Seq(Entries \cup {NoOne})
          /\ Len([locks[s] EXCEPT ![at[s]] = Entry(s)]) = Len(locks[s])
      BY <1>1, <1>2 DEF TypeInv
    <3> QED BY <1>1, <1>2, <2>2, <3>1, <3>2 DEF TypeInv
  <2> QED BY <2>1, <2>2 DEF Prepare, setVars
<1>6. CASE Refuse(s)
  <2>1. mib' = NoOne /\ Phase(s, "cleanup") /\ pc'[s] # "prepare"
    BY <1>1, <1>6 DEF Refuse, Phase, Goto, TypeInv
  <2> QED BY <1>2, <1>3, <1>4, <1>5, <2>1, PhaseKeeps
<1>7. CASE Prepared(s)
  <2>1. NextBinding(s, "commit") /\ mib' = IF AtLast(s) THEN NoOne ELSE mib
    BY <1>7 DEF Prepared
  <2>2. AtLast(s) => pc'[s] # "prepare"
    BY <1>1, <2>1 DEF NextBinding, Phase, Goto, TypeInv
  <2> QED BY <1>2, <1>3, <1>4, <1>5, <2>1, <2>2, PhaseKeeps
<1> QED BY <1>6, <1>7 DEF Prepare

(* f with a new value for a leaf keeps its type. *)
LEMMA ForLeafType ==
    ASSUME NEW S, NEW f \in [Leaves -> S], NEW e, NEW new \in S
    PROVE  ForLeaf(f, e, new) \in [Leaves -> S]
BY DEF ForLeaf

\* SET commits one binding.
LEMMA CommitKeeps ==
    ASSUME IInv, NEW s \in Sets, Commit(s)
    PROVE  IInv'
<1> USE DEF Threads, Requests
<1>1. TypeInv
  BY DEF IInv
<1>2. /\ pc[s] = "commit"
      /\ UNCHANGED <<present, stripped, freed, groups, mib, owner, asked, locks>>
      /\ NextBinding(s, "cleanup") \/ Phase(s, "undo")
  BY DEF Commit
<1>3. /\ value' \in [Leaves -> Sets \cup {Initial}]
      /\ undo' \in [Leaves -> Sets \cup {Initial, NoOne}]
  <2> DEFINE copied == [x \in Leaves |-> IF x = locks[s][at[s]] THEN value[x] ELSE undo[x]]
  <2>1. /\ undo' \in {undo, copied}
        /\ value' \in {value, ForLeaf(value, locks[s][at[s]], s)}
    BY DEF Commit
  <2>2. copied \in [Leaves -> Sets \cup {Initial, NoOne}]
    BY <1>1 DEF TypeInv
  <2>3. ForLeaf(value, locks[s][at[s]], s) \in [Leaves -> Sets \cup {Initial}]
    BY <1>1, ForLeafType DEF TypeInv
  <2> QED BY <1>1, <2>1, <2>2, <2>3 DEF TypeInv
<1>4. /\ owner' \in [Entries -> Requests \cup {NoOne}]
      /\ locks' \in [Sets -> Seq(Entries \cup {NoOne})]
  BY <1>1, <1>2 DEF TypeInv
<1> QED BY <1>2, <1>3, <1>4, PhaseKeeps

(* Unlocking a binding keeps the types, and only takes owners away. *)
LEMMA UnlockTypes ==
    ASSUME IInv, NEW s \in Sets, pc[s] \in {"undo", "cleanup"}, Unlock(s),
           locks[s][at[s]] # NoOne
    PROVE  /\ owner' \in [Entries -> Requests \cup {NoOne}]
           /\ \A e \in Entries : owner'[e] \in {owner[e], NoOne}
           /\ locks' \in [Sets -> Seq(Entries \cup {NoOne})]
           /\ \A u \in Sets : Len(locks'[u]) = Len(locks[u])
<1> USE DEF Threads, Requests
<1>1. TypeInv
  BY DEF IInv
<1>2. at[s] \in 1 .. Len(locks[s]) /\ locks[s] \in Seq(Entries \cup {NoOne})
  BY EntryType DEF IInv, TypeInv, Places, AtBinding
<1>3. locks[s][at[s]] \in Entries
  BY <1>2
<1>4. owner' \in {owner, [owner EXCEPT ![locks[s][at[s]]] = NoOne]}
  BY DEF Unlock
<1>5. locks' = [locks EXCEPT ![s] = [locks[s] EXCEPT ![at[s]] = NoOne]]
  BY DEF Unlock
<1>6. /\ [locks[s] EXCEPT ![at[s]] = NoOne] \in Seq(Entries \cup {NoOne})
      /\ Len([locks[s] EXCEPT ![at[s]] = NoOne]) = Len(locks[s])
  BY <1>2
<1>7. /\ owner' \in [Entries -> Requests \cup {NoOne}]
      /\ \A e \in Entries : owner'[e] \in {owner[e], NoOne}
  BY <1>1, <1>3, <1>4 DEF TypeInv
<1> QED BY <1>1, <1>5, <1>6, <1>7 DEF TypeInv

\* SET takes one binding back.
LEMMA UndoKeeps ==
    ASSUME IInv, NEW s \in Sets, Undo(s)
    PROVE  IInv'
<1> USE DEF Threads, Requests
<1> DEFINE e == locks[s][at[s]]
<1>1. TypeInv
  BY DEF IInv
<1>2. /\ pc[s] = "undo"
      /\ UNCHANGED <<present, stripped, freed, groups, mib, asked>>
      /\ NextBinding(s, "answer")
  BY DEF Undo
<1>3. CASE e = NoOne
  <2>1. UNCHANGED <<value, undo, owner, locks>>
    BY <1>3 DEF Undo
  <2> QED BY <1>1, <1>2, <2>1, PhaseKeeps DEF TypeInv
<1>4. CASE e # NoOne
  <2>1. /\ value' = [x \in Leaves |-> IF x = e /\ undo[x] # NoOne THEN undo[x] ELSE value[x]]
        /\ undo' = ForLeaf(undo, e, NoOne)
        /\ Unlock(s)
    BY <1>4 DEF Undo
  <2>2. /\ value' \in [Leaves -> Sets \cup {Initial}]
        /\ undo' \in [Leaves -> Sets \cup {Initial, NoOne}]
    BY <1>1, <2>1, ForLeafType DEF TypeInv
  <2>3. /\ owner' \in [Entries -> Requests \cup {NoOne}]
        /\ \A x \in Entries : owner'[x] \in {owner[x], NoOne}
        /\ locks' \in [Sets -> Seq(Entries \cup {NoOne})]
        /\ \A u \in Sets : Len(locks'[u]) = Len(locks[u])
    BY <1>2, <1>4, <2>1, UnlockTypes
  <2> QED BY <1>2, <2>2, <2>3, PhaseKeeps
<1> QED BY <1>3, <1>4

\* SET forgets one copy.
LEMMA CleanupKeeps ==
    ASSUME IInv, NEW s \in Sets, Cleanup(s)
    PROVE  IInv'
<1> USE DEF Threads, Requests
<1> DEFINE e == locks[s][at[s]]
<1>1. TypeInv
  BY DEF IInv
<1>2. /\ pc[s] = "cleanup"
      /\ UNCHANGED <<present, stripped, freed, groups, mib, value, asked>>
  BY DEF Cleanup
<1>3. CASE e = NoOne
  <2>1. Phase(s, "answer") /\ UNCHANGED <<undo, owner, locks>>
    BY <1>3 DEF Cleanup
  <2> QED BY <1>1, <1>2, <2>1, PhaseKeeps DEF TypeInv
<1>4. CASE e # NoOne
  <2>1. /\ undo' = ForLeaf(undo, e, NoOne)
        /\ Unlock(s)
        /\ NextBinding(s, "answer")
    BY <1>4 DEF Cleanup
  <2>2. /\ value' \in [Leaves -> Sets \cup {Initial}]
        /\ undo' \in [Leaves -> Sets \cup {Initial, NoOne}]
    BY <1>1, <1>2, <2>1, ForLeafType DEF TypeInv
  <2>3. /\ owner' \in [Entries -> Requests \cup {NoOne}]
        /\ \A x \in Entries : owner'[x] \in {owner[x], NoOne}
        /\ locks' \in [Sets -> Seq(Entries \cup {NoOne})]
        /\ \A u \in Sets : Len(locks'[u]) = Len(locks[u])
    BY <1>2, <1>4, <2>1, UnlockTypes
  <2> QED BY <1>2, <2>1, <2>2, <2>3, PhaseKeeps
<1> QED BY <1>3, <1>4

\* The request is answered.
LEMMA AnswerKeeps ==
    ASSUME IInv, NEW r \in Requests, Answer(r)
    PROVE  IInv'
<1> USE KindsDiffer, NoOneIsNobody DEF Threads, Requests
<1>1. TypeInv /\ Places /\ MibHeld /\ InContext
  BY DEF IInv
<1>2. /\ UNCHANGED <<present, stripped, freed, groups, mib, value, undo, asked, at>>
      /\ owner' = [e \in Entries |-> IF owner[e] = r THEN NoOne ELSE owner[e]]
      /\ locks' = IF r \in Sets THEN [locks EXCEPT ![r] = <<>>] ELSE locks
      /\ pc' = [pc EXCEPT ![r] = "answered"]
  BY DEF Answer, Goto
<1>3. pc'[r] = "answered" /\ \A t \in Threads \ {r} : pc'[t] = pc[t]
  BY <1>1, <1>2 DEF TypeInv
<1>4. /\ <<>> \in Seq(Entries \cup {NoOne})
      /\ \A s \in Sets \ {r} : locks'[s] = locks[s]
  BY <1>1, <1>2 DEF TypeInv
<1>5. TypeInv'
  BY <1>1, <1>2, <1>4 DEF TypeInv, GetLabels
<1>6. Places'
  BY <1>1, <1>2, <1>3, <1>4 DEF Places, GetLabels, SetLabels, AtBinding
<1>7. MibHeld'
  BY <1>1, <1>2, <1>3 DEF MibHeld
<1>8. InContext'
  BY <1>1, <1>2, <1>3, <1>6, InContextSame DEF InContext, Entry
<1> QED BY <1>5, <1>6, <1>7, <1>8 DEF IInv

(* Only the one remover that has the MIB's lock can be awaiting an entry. *)
LEMMA NoOtherAwaits ==
    ASSUME IInv, NEW m \in Removers, mib \in {m, NoOne}
    PROVE  /\ \A e \in Entries : Awaited(e) => pc[m] = "reclaim" /\ Entry(m) = e
           /\ \A t \in Threads \ {m} :
                pc[t] \notin {"lock", "strip", "reclaim", "unlink", "delete"}
BY NoOneIsNobody DEF IInv, MibHeld, Awaited, Threads

(* A step of one remover leaves the others where they are. *)
LEMMA RemoverPlaces ==
    ASSUME Places, NEW m \in Removers, UNCHANGED locks,
           \A t \in Threads \ {m} :
               pc'[t] = pc[t] /\ at'[t] = at[t] /\ asked'[t] = asked[t],
           pc'[m] \in RemoveLabels \ {"idle"},
           pc'[m] \in AtBinding => at'[m] \in 1 .. Len(asked'[m])
    PROVE  Places'
<1>1. m \notin Gets /\ m \notin Sets
  BY KindsDiffer DEF Requests
<1>2. Gets \subseteq Threads /\ Sets \subseteq Threads /\ Removers \subseteq Threads
  BY DEF Threads, Requests
<1> QED BY <1>1, <1>2 DEF Places

\* Mib::remove looks the entry up.
LEMMA RemoveFindKeeps ==
    ASSUME IInv, NEW m \in Removers, RemoveFind(m)
    PROVE  IInv'
<1> USE KindsDiffer, NoOneIsNobody DEF Threads, Requests
<1>1. TypeInv /\ Places /\ MibHeld /\ InContext
  BY DEF IInv
<1>2. PICK e \in Entries :
        /\ asked' = [asked EXCEPT ![m] = <<e>>]
        /\ IF e \in present
           THEN mib' = m /\ Goto(m, "unlink")
           ELSE Goto(m, "removed") /\ UNCHANGED mib
  BY DEF RemoveFind
<1>3. /\ UNCHANGED <<entryVars, owner, value, undo, at, locks>>
      /\ mib = NoOne /\ pc[m] = "idle" /\ at[m] = 1
  BY <1>1 DEF RemoveFind, setVars, Places
<1>4. /\ <<e>> \in Seq(Entries) /\ Len(<<e>>) = 1 /\ <<e>>[1] = e
  OBVIOUS
<1>5. /\ asked'[m] = <<e>> /\ \A t \in Threads \ {m} : asked'[t] = asked[t]
      /\ pc'[m] = IF e \in present THEN "unlink" ELSE "removed"
      /\ \A t \in Threads \ {m} : pc'[t] = pc[t]
  BY <1>1, <1>2 DEF TypeInv, Goto
<1>6. TypeInv'
  BY <1>1, <1>2, <1>3, <1>4 DEF TypeInv, Goto, RemoveLabels
<1>7. Places'
  BY <1>1, <1>3, <1>4, <1>5, RemoverPlaces DEF RemoveLabels
<1>8. MibHeld'
  BY <1>1, <1>2, <1>3, <1>5 DEF MibHeld
<1>9. InContext'
  <2>1. \A e0 \in Entries : ~Awaited(e0)
    BY <1>3, NoOtherAwaits
  <2>2. \A t \in Threads : pc[t] \notin {"lock", "strip", "reclaim", "unlink", "delete"}
    BY <1>3, NoOtherAwaits
  <2> QED BY <1>1, <1>3, <1>4, <1>5, <2>1, <2>2 DEF InContext, Entry
<1> QED BY <1>6, <1>7, <1>8, <1>9 DEF IInv

\* Mib::remove of a group locks the MIB and comes to its first entry.
LEMMA RemoveGroupKeeps ==
    ASSUME IInv, NEW m \in Removers, RemoveGroup(m)
    PROVE  IInv'
<1> USE KindsDiffer, NoOneIsNobody DEF Threads, Requests
<1>1. TypeInv /\ Places /\ MibHeld /\ InContext
  BY DEF IInv
<1>2. PICK g \in groups : groups' = groups \ {g} /\ asked' = [asked EXCEPT ![m] = g]
  BY DEF RemoveGroup
<1>3. /\ UNCHANGED <<present, stripped, freed, owner, value, undo, at, locks>>
      /\ mib = NoOne /\ mib' = m /\ pc[m] = "idle" /\ at[m] = 1
      /\ pc' = [pc EXCEPT ![m] = "strip"]
  BY <1>1 DEF RemoveGroup, setVars, Places, Goto
<1>4. g \in Seq(Entries) /\ Len(g) \in Nat \ {0}
  BY <1>1, <1>2, GroupsOfEntries DEF TypeInv
<1>5. /\ asked'[m] = g /\ \A t \in Threads \ {m} : asked'[t] = asked[t]
      /\ pc'[m] = "strip" /\ \A t \in Threads \ {m} : pc'[t] = pc[t]
  BY <1>1, <1>2, <1>3 DEF TypeInv
<1>6. TypeInv'
  BY <1>1, <1>2, <1>3, <1>4 DEF TypeInv, RemoveLabels
<1>7. Places'
  BY <1>1, <1>3, <1>4, <1>5, RemoverPlaces DEF RemoveLabels
<1>8. MibHeld'
  BY <1>1, <1>3, <1>5 DEF MibHeld
<1>9. InContext'
  <2>1. \A e \in Entries : ~Awaited(e)
    BY <1>3, NoOtherAwaits
  <2>2. \A t \in Threads : pc[t] \notin {"lock", "strip", "reclaim", "unlink", "delete"}
    BY <1>3, NoOtherAwaits
  <2> QED BY <1>1, <1>3, <1>5, <2>1, <2>2 DEF InContext, Entry
<1> QED BY <1>6, <1>7, <1>8, <1>9 DEF IInv

(* The next entry of the group is in its list, and before it the MIB stays   *)
(* locked.                                                                   *)
LEMMA NextEntryPlaces ==
    ASSUME IInv, NEW m \in Removers, pc[m] \in {"strip", "reclaim"}, NextEntry(m),
           UNCHANGED <<asked, locks>>
    PROVE  /\ pc' \in [Threads -> GetLabels \cup SetLabels \cup RemoveLabels]
           /\ at' \in [Threads -> Nat \ {0}]
           /\ mib' \in {m, NoOne}
           /\ Places' /\ MibHeld'
           /\ pc'[m] \in {"strip", "removed"}
           /\ \A t \in Threads \ {m} : pc'[t] = pc[t] /\ at'[t] = at[t]
<1> USE KindsDiffer, NoOneIsNobody DEF Threads, Requests
<1>1. TypeInv /\ Places /\ MibHeld
  BY DEF IInv
<1>2. at[m] \in 1 .. Len(asked[m]) /\ mib = m /\ Len(asked[m]) \in Nat
  BY <1>1 DEF Places, AtBinding, MibHeld, TypeInv
<1>3. CASE at[m] = Len(asked[m])
  <2>1. pc' = [pc EXCEPT ![m] = "removed"] /\ mib' = NoOne /\ at' = at
    BY <1>3 DEF NextEntry, Goto
  <2>2. /\ pc' \in [Threads -> GetLabels \cup SetLabels \cup RemoveLabels]
        /\ pc'[m] = "removed" /\ \A t \in Threads \ {m} : pc'[t] = pc[t] /\ at'[t] = at[t]
        /\ at' \in [Threads -> Nat \ {0}]
    BY <1>1, <2>1 DEF TypeInv, RemoveLabels
  <2>3. Places'
    BY <1>1, <2>2, RemoverPlaces DEF RemoveLabels, AtBinding
  <2>4. MibHeld'
    BY <1>1, <1>2, <2>2 DEF MibHeld
  <2> QED BY <2>1, <2>2, <2>3, <2>4
<1>4. CASE at[m] # Len(asked[m])
  <2>1. pc' = [pc EXCEPT ![m] = "strip"] /\ mib' = m /\ at' = [at EXCEPT ![m] = at[m] + 1]
    BY <1>2, <1>4 DEF NextEntry, Goto
  <2>2. at[m] + 1 \in 1 .. Len(asked[m])
    BY <1>2, <1>4
  <2>3. /\ pc' \in [Threads -> GetLabels \cup SetLabels \cup RemoveLabels]
        /\ pc'[m] = "strip" /\ at'[m] = at[m] + 1
        /\ \A t \in Threads \ {m} : pc'[t] = pc[t] /\ at'[t] = at[t]
        /\ at' \in [Threads -> Nat \ {0}]
    BY <1>1, <2>1, <2>2 DEF TypeInv, RemoveLabels
  <2>4. Places'
    BY <1>1, <2>2, <2>3, RemoverPlaces DEF RemoveLabels
  <2>5. MibHeld'
    BY <1>1, <1>2, <2>1, <2>3 DEF MibHeld
  <2> QED BY <2>1, <2>3, <2>4, <2>5
<1> QED BY <1>3, <1>4

\* remove_group takes an entry out of the context, whoever has its lock.
LEMMA StripKeeps ==
    ASSUME IInv, NEW m \in Removers, Strip(m)
    PROVE  IInv'
<1> USE KindsDiffer, NoOneIsNobody DEF Threads, Requests
<1>1. TypeInv /\ Places /\ MibHeld /\ InContext
  BY DEF IInv
<1>2. /\ pc[m] = "strip" /\ mib = m /\ Entry(m) \in Entries
      /\ UNCHANGED <<freed, groups, owner, value, undo, asked, locks>>
  BY <1>1, EntryType DEF Strip, MibHeld, AtBinding, setVars
<1>3. \A e \in Entries : ~Awaited(e)
  BY <1>2, NoOtherAwaits
<1>4. \A t \in Threads \ {m} :
        pc[t] \notin {"lock", "strip", "reclaim", "unlink", "delete"}
  BY <1>2, NoOtherAwaits
<1>5. CASE /\ Entry(m) \in present
           /\ present' = present \ {Entry(m)} /\ stripped' = stripped \cup {Entry(m)}
           /\ Goto(m, "reclaim") /\ UNCHANGED <<mib, at>>
  <2>1. pc'[m] = "reclaim" /\ \A t \in Threads \ {m} : pc'[t] = pc[t]
    BY <1>1, <1>5 DEF Goto, TypeInv
  <2>2. TypeInv'
    BY <1>1, <1>2, <1>5 DEF TypeInv, Goto, RemoveLabels
  <2>3. Places'
    BY <1>1, <1>2, <1>5, <2>1, RemoverPlaces DEF RemoveLabels, AtBinding, Places
  <2>4. MibHeld'
    BY <1>1, <1>2, <1>5, <2>1 DEF MibHeld
  <2>5. InContext'
    <3>1. Entry(m)' = Entry(m) /\ Entry(m) \notin stripped /\ Entry(m) \notin freed
      BY <1>1, <1>2, <1>5 DEF InContext, Entry
    <3>2. Awaited(Entry(m))'
      BY <2>1, <3>1 DEF Awaited
    <3>3. \A e \in Entries : owner[e] # NoOne => e \in present
      BY <1>1, <1>3 DEF InContext
    <3> QED BY <1>1, <1>2, <1>4, <1>5, <2>1, <3>1, <3>2, <3>3 DEF InContext
  <2> QED BY <2>2, <2>3, <2>4, <2>5 DEF IInv
<1>6. ASSUME UNCHANGED <<present, stripped>>,
             TypeInv', Places', MibHeld', pc'[m] \in {"strip", "removed", "lost"},
             \A t \in Threads \ {m} : pc'[t] = pc[t]
      PROVE  IInv'
  BY <1>1, <1>2, <1>3, <1>4, <1>6 DEF IInv, InContext
<1>7. CASE NextEntry(m) /\ UNCHANGED <<present, stripped>>
  BY <1>1, <1>2, <1>6, <1>7, NextEntryPlaces DEF TypeInv
<1>8. CASE Goto(m, "lost") /\ UNCHANGED <<present, stripped, mib, at>>
  <2>1. pc'[m] = "lost" /\ \A t \in Threads \ {m} : pc'[t] = pc[t]
    BY <1>1, <1>8 DEF Goto, TypeInv
  <2>2. TypeInv'
    BY <1>1, <1>2, <1>8 DEF TypeInv, Goto, RemoveLabels
  <2>3. Places'
    BY <1>1, <1>2, <1>8, <2>1, RemoverPlaces DEF RemoveLabels, AtBinding
  <2>4. MibHeld'
    BY <1>1, <1>2, <1>8, <2>1 DEF MibHeld
  <2> QED BY <1>6, <1>8, <2>1, <2>2, <2>3, <2>4
<1> QED BY <1>5, <1>7, <1>8 DEF Strip

\* ~MibEntry has waited until nobody had the entry's lock.
LEMMA ReclaimKeeps ==
    ASSUME IInv, NEW m \in Removers, Reclaim(m)
    PROVE  IInv'
<1> USE KindsDiffer, NoOneIsNobody DEF Threads, Requests
<1>1. TypeInv /\ Places /\ MibHeld /\ InContext
  BY DEF IInv
<1>2. /\ pc[m] = "reclaim" /\ mib = m /\ Entry(m) \in Entries /\ owner[Entry(m)] = NoOne
      /\ NextEntry(m) /\ freed' = freed \cup {Entry(m)}
      /\ UNCHANGED <<present, stripped, groups, owner, value, undo, asked, locks>>
  BY <1>1, EntryType DEF Reclaim, MibHeld, AtBinding, setVars
<1>3. \A t \in Threads \ {m} :
        pc[t] \notin {"lock", "strip", "reclaim", "unlink", "delete"}
  BY <1>2, NoOtherAwaits
<1>4. /\ pc' \in [Threads -> GetLabels \cup SetLabels \cup RemoveLabels]
      /\ at' \in [Threads -> Nat \ {0}]
      /\ mib' \in {m, NoOne}
      /\ Places' /\ MibHeld'
      /\ pc'[m] \in {"strip", "removed"}
      /\ \A t \in Threads \ {m} : pc'[t] = pc[t]
  BY <1>2, NextEntryPlaces
<1>5. TypeInv'
  BY <1>1, <1>2, <1>4 DEF TypeInv
<1>6. InContext'
  <2>1. \A e \in Entries : owner[e] # NoOne => e \in present
    BY <1>1, <1>2, NoOtherAwaits DEF InContext
  <2>2. Entry(m) \in stripped
    BY <1>1, <1>2 DEF InContext
  <2> QED BY <1>1, <1>2, <1>3, <1>4, <2>1, <2>2 DEF InContext
<1> QED BY <1>4, <1>5, <1>6 DEF IInv

\* Mib::remove takes the entry out of the context.
LEMMA UnlinkKeeps ==
    ASSUME IInv, NEW m \in Removers, Unlink(m)
    PROVE  IInv'
<1> USE KindsDiffer, NoOneIsNobody DEF Threads, Requests
<1>1. TypeInv /\ Places /\ MibHeld /\ InContext
  BY DEF IInv
<1>2. /\ UNCHANGED <<stripped, freed, groups, mib, owner, value, undo, asked, at, locks>>
      /\ present' = present \ {Entry(m)} /\ owner[Entry(m)] = NoOne
      /\ pc[m] = "unlink" /\ pc' = [pc EXCEPT ![m] = "delete"]
  BY DEF Unlink, Goto, setVars
<1>3. /\ mib = m /\ pc'[m] = "delete"
      /\ \A t \in Threads \ {m} : pc'[t] = pc[t]
  BY <1>1, <1>2 DEF TypeInv, MibHeld
<1>4. TypeInv'
  BY <1>1, <1>2 DEF TypeInv, RemoveLabels
<1>5. Places'
  BY <1>1, <1>2, <1>3, RemoverPlaces DEF Places, RemoveLabels, AtBinding
<1>6. MibHeld'
  BY <1>1, <1>2, <1>3 DEF MibHeld
<1>7. InContext'
  <2>1. \A e \in Entries : owner[e] # NoOne => e \in present \ {Entry(m)}
    BY <1>1, <1>2, <1>3, NoOtherAwaits DEF InContext
  <2>2. \A t \in Threads \ {m} :
          pc[t] \notin {"lock", "strip", "reclaim", "unlink", "delete"}
    BY <1>3, NoOtherAwaits
  <2> QED BY <1>1, <1>2, <1>3, <2>1, <2>2 DEF InContext, Entry
<1> QED BY <1>4, <1>5, <1>6, <1>7 DEF IInv

\* Mib::remove deletes it.
LEMMA DeleteKeeps ==
    ASSUME IInv, NEW m \in Removers, Delete(m)
    PROVE  IInv'
<1> USE KindsDiffer, NoOneIsNobody DEF Threads, Requests
<1>1. TypeInv /\ Places /\ MibHeld /\ InContext
  BY DEF IInv
<1>2. /\ UNCHANGED <<present, groups, owner, value, undo, asked, at, locks>>
      /\ stripped' = stripped \cup {Entry(m)} /\ freed' = freed \cup {Entry(m)}
      /\ mib' = NoOne
      /\ pc[m] = "delete" /\ pc' = [pc EXCEPT ![m] = "removed"]
  BY DEF Delete, Goto, setVars
<1>3. /\ mib = m /\ pc'[m] = "removed" /\ Entry(m) \in Entries /\ Entry(m) \notin present
      /\ \A t \in Threads \ {m} : pc'[t] = pc[t]
  BY <1>1, <1>2, EntryType DEF TypeInv, MibHeld, InContext, AtBinding
<1>4. TypeInv'
  BY <1>1, <1>2, <1>3 DEF TypeInv, RemoveLabels
<1>5. Places'
  BY <1>1, <1>2, <1>3, RemoverPlaces DEF RemoveLabels, AtBinding
<1>6. MibHeld'
  BY <1>1, <1>2, <1>3 DEF MibHeld
<1>7. InContext'
  <2>1. \A e \in Entries : owner[e] # NoOne => e \in present
    BY <1>1, <1>2, <1>3, NoOtherAwaits DEF InContext
  <2>2. \A t \in Threads \ {m} :
          pc[t] \notin {"lock", "strip", "reclaim", "unlink", "delete"}
    BY <1>3, NoOtherAwaits
  <2> QED BY <1>1, <1>2, <1>3, <2>1, <2>2 DEF InContext, Entry
<1> QED BY <1>4, <1>5, <1>6, <1>7 DEF IInv

\* Mib::remove without a context.
LEMMA RemoveFromNoContextKeeps ==
    ASSUME IInv, NEW m \in Removers, RemoveFromNoContext(m)
    PROVE  IInv'
<1> USE KindsDiffer, NoOneIsNobody DEF Threads, Requests
<1>1. TypeInv /\ Places /\ MibHeld /\ InContext
  BY DEF IInv
<1>2. /\ UNCHANGED <<entryVars, owner, value, undo, asked, at, locks>>
      /\ mib = NoOne /\ mib' = m
      /\ pc[m] = "idle" /\ pc' = [pc EXCEPT ![m] = "leaked"]
  BY DEF RemoveFromNoContext, Goto, setVars
<1>3. pc'[m] = "leaked" /\ \A t \in Threads \ {m} : pc'[t] = pc[t]
  BY <1>1, <1>2 DEF TypeInv
<1>4. TypeInv'
  BY <1>1, <1>2 DEF TypeInv, RemoveLabels
<1>5. Places'
  BY <1>1, <1>2, <1>3, RemoverPlaces DEF RemoveLabels, AtBinding
<1>6. MibHeld'
  BY <1>1, <1>2, <1>3 DEF MibHeld
<1>7. InContext'
  <2>1. /\ \A e \in Entries : owner[e] # NoOne => e \in present
        /\ \A t \in Threads \ {m} :
             pc[t] \notin {"lock", "strip", "reclaim", "unlink", "delete"}
    BY <1>1, <1>2, NoOtherAwaits DEF InContext
  <2> QED BY <1>1, <1>2, <1>3, <2>1 DEF InContext
<1> QED BY <1>4, <1>5, <1>6, <1>7 DEF IInv

\* All actions together.
LEMMA StepInv == IInv /\ [Next]_vars => IInv'
<1> SUFFICES ASSUME IInv, [Next]_vars PROVE IInv'
  OBVIOUS
<1>1. CASE UNCHANGED vars
  BY <1>1 DEF vars, setVars, IInv, TypeInv, Places, MibHeld, InContext, Awaited, Entry
<1>2. CASE \E g \in Gets : GetStep(g)
  BY <1>2, FindKeeps, LockEntryKeeps, ReadKeeps, AnswerKeeps DEF GetStep, Requests
<1>3. CASE \E s \in Sets : SetStep(s)
  BY <1>3, EnterKeeps, PrepareKeeps, CommitKeeps, UndoKeeps, CleanupKeeps, AnswerKeeps
     DEF SetStep, Requests
<1>4. CASE \E m \in Removers :
             RemoveGroup(m) \/ RemoveFind(m) \/ Removal(m) \/ RemoveFromNoContext(m)
  BY <1>4, RemoveGroupKeeps, RemoveFindKeeps, StripKeeps, ReclaimKeeps, UnlinkKeeps,
     DeleteKeeps, RemoveFromNoContextKeeps DEF Removal
<1> QED BY <1>1, <1>2, <1>3, <1>4 DEF Next

\* Where the threads are, who has the MIB and which entries exist (mib.cpp):
\* IInv holds in every state.
THEOREM InductiveInvariant == Spec => []IInv
BY InitInv, StepInv, PTL DEF Spec

(* Locks, values, copies and the lists of locked entries keep their types. *)
THEOREM TypeCorrect == Spec => []TypeOK
<1>1. IInv => TypeOK
  BY DEF IInv, TypeInv, TypeOK
<1> QED BY <1>1, InductiveInvariant, PTL

(* What holds of the argument of mib.h under "Why is this save?", for every  *)
(* number of requests, entries, groups and threads that remove them: nobody  *)
(* has, or waits for, the lock of a deleted entry, and the only request that *)
(* can be using an entry without its value is one that had it when           *)
(* remove_group came to it, for which ~MibEntry then waits.                  *)
THEOREM EntriesCorrect == Spec => []EntriesInUseExist
<1>1. IInv => EntriesInUseExist
  <2> SUFFICES ASSUME IInv PROVE EntriesInUseExist
    OBVIOUS
  <2>1. TypeInv /\ Places /\ InContext
    BY DEF IInv
  <2>2. \A e \in stripped :
          owner[e] # NoOne => \E m \in Removers : pc[m] = "reclaim" /\ Entry(m) = e
    BY <2>1 DEF TypeInv, InContext, Awaited
  <2>3. \A e \in freed : owner[e] = NoOne
    BY <2>1, <2>2 DEF TypeInv, InContext
  <2>4. \A t \in Threads : pc[t] = "reclaim" => t \in Removers
    BY <2>1 DEF Places, Threads, Requests, GetLabels, SetLabels
  <2> QED BY <2>1, <2>2, <2>3, <2>4 DEF InContext, EntriesInUseExist
<1> QED BY <1>1, InductiveInvariant, PTL

(* Without groups all of that argument holds: who has an entry's lock has an *)
(* entry that keeps its value, because remove() then takes the lock before   *)
(* it takes the entry out of the context (mib.cpp 2876-2890).                *)
THEOREM EntriesKeepValues ==
    ASSUME Groups = {}
    PROVE  Spec => [](\A e \in stripped : owner[e] = NoOne)
<1> DEFINE NoStrip == \A m \in Removers : pc[m] \notin {"strip", "reclaim"}
<1>1. Init => NoStrip
  BY KindsDiffer DEF Init, Threads, Requests
<1>2. IInv /\ NoStrip /\ [Next]_vars => NoStrip'
  <2> SUFFICES ASSUME IInv, NoStrip, [Next]_vars PROVE NoStrip'
    OBVIOUS
  <2> USE KindsDiffer DEF Threads, Requests
  <2>1. TypeInv /\ groups = {}
    BY DEF IInv, TypeInv
  <2>2. CASE UNCHANGED vars
    BY <2>2 DEF vars
  <2>3. ASSUME NEW g \in Gets, GetStep(g) PROVE NoStrip'
    BY <2>1, <2>3 DEF GetStep, Find, LockEntry, Read, Answer, GetNext, Goto, TypeInv
  <2>4. ASSUME NEW s \in Sets, SetStep(s) PROVE NoStrip'
    <3>1. CASE Answer(s)
      BY <2>1, <3>1 DEF Answer, Goto, TypeInv
    <3>2. CASE \E label : Phase(s, label) \/ NextBinding(s, label)
      BY <2>1, <3>2 DEF Phase, NextBinding, Goto, TypeInv
    <3> QED BY <2>4, <3>1, <3>2 DEF SetStep, Enter, Prepare, Prepared, Refuse, Commit, Undo, Cleanup
  <2>5. ASSUME NEW m \in Removers,
               RemoveGroup(m) \/ RemoveFind(m) \/ Removal(m) \/ RemoveFromNoContext(m)
        PROVE  NoStrip'
    BY <2>1, <2>5
       DEF RemoveGroup, RemoveFind, Removal, Strip, Reclaim, Unlink, Delete,
           RemoveFromNoContext, Goto, TypeInv
  <2> QED BY <2>2, <2>3, <2>4, <2>5 DEF Next
<1>3. IInv /\ NoStrip => \A e \in stripped : owner[e] = NoOne
  BY DEF IInv, TypeInv, InContext, Awaited
<1> QED BY <1>1, <1>2, <1>3, InductiveInvariant, PTL DEF Spec
--------------------------------------------------------------------------------
(* Isolation.  Whoever reads an entry has its lock, and so has a SET every   *)
(* entry it still has a binding for.                                         *)
Owned ==
    /\ \A g \in Gets : pc[g] = "read" => owner[Entry(g)] = g
    /\ \A s \in Sets : asked[s] \in Writes
    /\ \A s \in Sets : \A i \in 1 .. Len(locks[s]) :
         locks[s][i] # NoOne => locks[s][i] = asked[s][i] /\ owner[locks[s][i]] = s

\* No lock is taken at the start.
LEMMA InitOwned == Init => Owned
<1> SUFFICES ASSUME Init PROVE Owned
  OBVIOUS
<1> USE KindsDiffer DEF Threads, Requests
<1>1. PICK reads \in [Gets -> Reads], writes \in [Sets -> Writes] :
        /\ asked = [t \in Threads |-> CASE t \in Gets -> reads[t]
                                        [] t \in Sets -> writes[t]
                                        [] OTHER -> <<>>]
        /\ locks = [s \in Sets |-> [i \in DOMAIN writes[s] |-> NoOne]]
  BY DEF Init
<1>2. \A s \in Sets : asked[s] = writes[s] /\ writes[s] \in Seq(Entries)
  BY <1>1, WritesOfEntries
<1>3. \A s \in Sets : \A i \in 1 .. Len(locks[s]) : locks[s][i] = NoOne
  BY <1>1, <1>2
<1>4. \A g \in Gets : pc[g] # "read"
  BY DEF Init
<1> QED BY <1>2, <1>3, <1>4 DEF Owned

(* A step that changes neither locks nor what a SET was asked. *)
LEMMA OwnedSame ==
    ASSUME IInv, Owned, UNCHANGED <<owner, locks>>,
           \A s \in Sets : asked'[s] = asked[s],
           \A g \in Gets : pc'[g] = "read" =>
                pc[g] = "read" /\ asked'[g] = asked[g] /\ at'[g] = at[g]
    PROVE  Owned'
BY DEF Owned, Entry

\* Unlocking one entry leaves the other locks with their owners.
LEMMA OwnedUnlock ==
    ASSUME IInv, Owned, NEW s \in Sets, pc[s] \in {"undo", "cleanup"}, Unlock(s),
           locks[s][at[s]] # NoOne, UNCHANGED asked,
           \A g \in Gets : pc'[g] = pc[g] /\ at'[g] = at[g]
    PROVE  Owned'
<1> USE KindsDiffer, NoOneIsNobody DEF Threads, Requests
<1> DEFINE i == at[s]
           e == locks[s][i]
<1>1. TypeInv
  BY DEF IInv
<1>2. i \in 1 .. Len(locks[s]) /\ locks[s] \in Seq(Entries \cup {NoOne}) /\ e \in Entries
  BY <1>1, EntryType DEF IInv, TypeInv, Places, AtBinding
<1>3. owner[e] = s
  BY <1>2 DEF Owned
<1>4. /\ \A u \in Sets \ {s} : locks'[u] = locks[u]
      /\ locks'[s] = [locks[s] EXCEPT ![i] = NoOne]
  BY <1>1 DEF Unlock, TypeInv
<1>5. /\ \A x \in Entries \ {e} : owner'[x] = owner[x]
      /\ (\E j \in (1 .. Len(locks[s])) \ {i} : locks[s][j] = e) => owner'[e] = owner[e]
  BY <1>1, <1>2 DEF Unlock, TypeInv
<1>6. \A g \in Gets : pc'[g] = "read" => owner'[Entry(g)'] = g
  <2> SUFFICES ASSUME NEW g \in Gets, pc[g] = "read" PROVE owner'[Entry(g)] = g
    BY DEF Entry
  <2>1. Entry(g) \in Entries /\ owner[Entry(g)] = g
    BY EntryType DEF Owned, AtBinding
  <2> QED BY <1>3, <1>5, <2>1
<1>7. ASSUME NEW u \in Sets, NEW j \in 1 .. Len(locks'[u]), locks'[u][j] # NoOne
      PROVE  locks'[u][j] = asked[u][j] /\ owner'[locks'[u][j]] = u
  <2>1. CASE u # s
    <3>1. /\ locks[u][j] \in Entries /\ owner[locks[u][j]] = u
          /\ locks[u][j] = asked[u][j] /\ locks'[u] = locks[u]
      BY <1>1, <1>4, <1>7, <2>1 DEF Owned, TypeInv
    <3> QED BY <1>3, <1>5, <2>1, <3>1
  <2>2. CASE u = s
    <3>1. j \in (1 .. Len(locks[s])) \ {i} /\ locks'[s][j] = locks[s][j]
      BY <1>2, <1>4, <1>7, <2>2
    <3>2. /\ locks[s][j] \in Entries /\ owner[locks[s][j]] = s
          /\ locks[s][j] = asked[s][j]
      BY <1>2, <1>7, <2>2, <3>1 DEF Owned
    <3> QED BY <1>5, <2>2, <3>1, <3>2
  <2> QED BY <2>1, <2>2
<1> QED BY <1>6, <1>7 DEF Owned

\* A GET takes a free lock.
LEMMA OwnedLockEntry ==
    ASSUME IInv, Owned, NEW g \in Gets, LockEntry(g)
    PROVE  Owned'
<1> USE KindsDiffer, NoOneIsNobody DEF Threads, Requests
<1>1. TypeInv
  BY DEF IInv
<1>2. /\ Entry(g) \in Entries /\ owner[Entry(g)] = NoOne
      /\ owner' = [owner EXCEPT ![Entry(g)] = g]
      /\ UNCHANGED <<asked, at, locks>>
      /\ pc[g] = "lock" /\ pc' = [pc EXCEPT ![g] = "read"]
  BY EntryType DEF LockEntry, Goto, setVars, AtBinding
<1>3. /\ owner'[Entry(g)] = g /\ \A e \in Entries \ {Entry(g)} : owner'[e] = owner[e]
      /\ \A h \in Gets \ {g} : pc'[h] = pc[h]
  BY <1>1, <1>2 DEF TypeInv
<1>4. ASSUME NEW h \in Gets, pc'[h] = "read" PROVE owner'[Entry(h)'] = h
  <2>1. CASE h = g
    BY <1>2, <1>3, <2>1 DEF Entry
  <2>2. CASE h # g
    <3>1. pc[h] = "read" /\ Entry(h) \in Entries /\ owner[Entry(h)] = h
      BY <1>3, <1>4, <2>2, EntryType DEF Owned, AtBinding
    <3>2. Entry(h)' = Entry(h)
      BY <1>2 DEF Entry
    <3> QED BY <1>2, <1>3, <3>1, <3>2
  <2> QED BY <2>1, <2>2
<1>5. ASSUME NEW s \in Sets, NEW i \in 1 .. Len(locks[s]), locks[s][i] # NoOne
      PROVE  locks[s][i] = asked[s][i] /\ owner'[locks[s][i]] = s
  <2>1. /\ locks[s][i] = asked[s][i] /\ owner[locks[s][i]] = s
        /\ locks[s][i] \in Entries
    BY <1>1, <1>5 DEF Owned, TypeInv
  <2> QED BY <1>2, <1>3, <2>1
<1> QED BY <1>2, <1>4, <1>5 DEF Owned

\* A GET gives back the lock it has.
LEMMA OwnedRead ==
    ASSUME IInv, Owned, NEW g \in Gets, Read(g)
    PROVE  Owned'
<1> USE KindsDiffer, NoOneIsNobody DEF Threads, Requests
<1>1. TypeInv
  BY DEF IInv
<1>2. /\ Entry(g) \in Entries /\ owner[Entry(g)] = g
      /\ owner' = [owner EXCEPT ![Entry(g)] = NoOne]
      /\ UNCHANGED <<asked, locks>>
  BY EntryType DEF Read, setVars, AtBinding, Owned
<1>3. /\ \A h \in Gets \ {g} : pc'[h] = pc[h] /\ at'[h] = at[h]
      /\ pc'[g] # "read"
  BY <1>1 DEF Read, GetNext, Goto, TypeInv
<1>4. \A e \in Entries \ {Entry(g)} : owner'[e] = owner[e]
  BY <1>1, <1>2 DEF TypeInv
<1>5. ASSUME NEW h \in Gets, pc'[h] = "read" PROVE owner'[Entry(h)'] = h
  <2>1. h # g /\ pc[h] = "read"
    BY <1>3, <1>5
  <2>2. Entry(h)' = Entry(h) /\ Entry(h) \in Entries /\ owner[Entry(h)] = h
    BY <1>2, <1>3, <2>1, EntryType DEF Owned, Entry, AtBinding
  <2> QED BY <1>2, <1>4, <2>1, <2>2
<1>6. ASSUME NEW s \in Sets, NEW i \in 1 .. Len(locks[s]), locks[s][i] # NoOne
      PROVE  locks[s][i] = asked[s][i] /\ owner'[locks[s][i]] = s
  <2>1. /\ locks[s][i] = asked[s][i] /\ owner[locks[s][i]] = s
        /\ locks[s][i] \in Entries
    BY <1>1, <1>6 DEF Owned, TypeInv
  <2> QED BY <1>2, <1>4, <2>1
<1> QED BY <1>2, <1>5, <1>6 DEF Owned

\* A SET takes a free lock.
LEMMA OwnedTakeLock ==
    ASSUME IInv, Owned, NEW s \in Sets, pc[s] = "prepare", TakeLock(s), UNCHANGED asked,
           \A g \in Gets : pc'[g] = pc[g] /\ at'[g] = at[g]
    PROVE  Owned'
<1> USE KindsDiffer, NoOneIsNobody DEF Threads, Requests
<1> DEFINE i == at[s]
           e == Entry(s)
<1>1. TypeInv
  BY DEF IInv
<1>2. i \in 1 .. Len(locks[s]) /\ e \in Entries /\ e = asked[s][i]
  BY EntryType DEF IInv, Places, AtBinding, Entry
<1>3. /\ owner[e] \in {NoOne, s}
      /\ owner' = [owner EXCEPT ![e] = s]
      /\ locks' = [locks EXCEPT ![s] = [locks[s] EXCEPT ![i] = e]]
  BY DEF TakeLock
<1>4. /\ owner'[e] = s /\ \A x \in Entries \ {e} : owner'[x] = owner[x]
      /\ \A u \in Sets \ {s} : locks'[u] = locks[u]
      /\ locks'[s] = [locks[s] EXCEPT ![i] = e]
  BY <1>1, <1>2, <1>3 DEF TypeInv
<1>5. \A g \in Gets : pc'[g] = "read" => owner'[Entry(g)'] = g
  <2> SUFFICES ASSUME NEW g \in Gets, pc[g] = "read" PROVE owner'[Entry(g)] = g
    BY DEF Entry
  <2>1. Entry(g) \in Entries /\ owner[Entry(g)] = g
    BY EntryType DEF Owned, AtBinding
  <2> QED BY <1>3, <1>4, <2>1
<1>6. ASSUME NEW u \in Sets, NEW j \in 1 .. Len(locks'[u]), locks'[u][j] # NoOne
      PROVE  locks'[u][j] = asked[u][j] /\ owner'[locks'[u][j]] = u
  <2>1. CASE u # s
    <3>1. /\ locks'[u][j] = locks[u][j] /\ locks[u][j] \in Entries
          /\ owner[locks[u][j]] = u /\ locks[u][j] = asked[u][j]
      BY <1>1, <1>4, <1>6, <2>1 DEF Owned, TypeInv
    <3> QED BY <1>3, <1>4, <2>1, <3>1
  <2>2. CASE u = s /\ j = i
    BY <1>1, <1>2, <1>4, <2>2 DEF TypeInv
  <2>3. CASE u = s /\ j # i
    <3>1. locks[s] \in Seq(Entries \cup {NoOne}) /\ Len(locks'[s]) = Len(locks[s])
      BY <1>1, <1>4 DEF TypeInv
    <3>2. locks'[s][j] = locks[s][j] /\ j \in 1 .. Len(locks[s])
      BY <1>4, <2>3, <3>1
    <3>3. /\ locks[s][j] \in Entries /\ owner[locks[s][j]] = s
          /\ locks[s][j] = asked[s][j]
      BY <1>6, <2>3, <3>1, <3>2 DEF Owned
    <3> QED BY <1>4, <2>3, <3>2, <3>3
  <2> QED BY <2>1, <2>2, <2>3
<1> QED BY <1>5, <1>6 DEF Owned

\* An answered request has no locks.
LEMMA OwnedAnswer ==
    ASSUME IInv, Owned, NEW r \in Requests, Answer(r)
    PROVE  Owned'
<1> USE KindsDiffer, NoOneIsNobody DEF Threads, Requests
<1>1. TypeInv
  BY DEF IInv
<1>2. /\ UNCHANGED <<asked, at>>
      /\ owner' = [e \in Entries |-> IF owner[e] = r THEN NoOne ELSE owner[e]]
      /\ locks' = IF r \in Sets THEN [locks EXCEPT ![r] = <<>>] ELSE locks
      /\ pc' = [pc EXCEPT ![r] = "answered"]
  BY DEF Answer, Goto
<1>3. \A g \in Gets : pc'[g] = "read" => g # r /\ pc[g] = "read"
  BY <1>1, <1>2 DEF TypeInv
<1>4. ASSUME NEW g \in Gets, pc'[g] = "read" PROVE owner'[Entry(g)'] = g
  <2>1. Entry(g)' = Entry(g) /\ Entry(g) \in Entries /\ owner[Entry(g)] = g
    BY <1>2, <1>3, <1>4, EntryType DEF Owned, Entry, AtBinding
  <2> QED BY <1>2, <1>3, <1>4, <2>1
<1>5. ASSUME NEW u \in Sets, NEW j \in 1 .. Len(locks'[u]), locks'[u][j] # NoOne
      PROVE  locks'[u][j] = asked[u][j] /\ owner'[locks'[u][j]] = u
  <2>1. u # r /\ locks'[u] = locks[u]
    BY <1>1, <1>2, <1>5 DEF TypeInv
  <2>2. /\ locks[u][j] = asked[u][j] /\ owner[locks[u][j]] = u
        /\ locks[u][j] \in Entries
    BY <1>1, <1>5, <2>1 DEF Owned, TypeInv
  <2> QED BY <1>2, <2>1, <2>2
<1> QED BY <1>2, <1>4, <1>5 DEF Owned


\* All actions together.
LEMMA OwnedStep == IInv /\ Owned /\ [Next]_vars => Owned'
<1> SUFFICES ASSUME IInv, Owned, [Next]_vars PROVE Owned'
  OBVIOUS
<1> USE KindsDiffer, NoOneIsNobody DEF Threads, Requests
<1>1. TypeInv
  BY DEF IInv
<1>2. CASE UNCHANGED vars
  BY <1>2, OwnedSame DEF vars, setVars
<1>3. ASSUME NEW g \in Gets, GetStep(g) PROVE Owned'
  <2>1. CASE Find(g)
    BY <1>1, <2>1, OwnedSame DEF Find, Goto, GetNext, TypeInv, setVars
  <2>2. CASE LockEntry(g) \/ Read(g) \/ Answer(g)
    BY <2>2, OwnedLockEntry, OwnedRead, OwnedAnswer
  <2> QED BY <1>3, <2>1, <2>2 DEF GetStep
<1>4. ASSUME NEW s \in Sets, SetStep(s) PROVE Owned'
  <2>1. ASSUME NEW label, Phase(s, label) \/ NextBinding(s, label)
        PROVE  \A g \in Gets : pc'[g] = pc[g] /\ at'[g] = at[g]
    BY <1>1, <2>1 DEF NextBinding, Phase, Goto, TypeInv
  <2>2. CASE Enter(s) \/ Commit(s)
    <3>1. /\ UNCHANGED <<asked, owner, locks>>
          /\ \A g \in Gets : pc'[g] = pc[g] /\ at'[g] = at[g]
      BY <2>1, <2>2 DEF Enter, Commit, setVars
    <3> QED BY <3>1, OwnedSame
  <2>3. CASE Prepare(s)
    <3>1. /\ UNCHANGED asked /\ pc[s] = "prepare"
          /\ UNCHANGED <<owner, locks>> \/ TakeLock(s)
          /\ \A g \in Gets : pc'[g] = pc[g] /\ at'[g] = at[g]
      BY <2>1, <2>3 DEF Prepare, Prepared, Refuse, setVars
    <3> QED BY <3>1, OwnedSame, OwnedTakeLock
  <2>4. CASE Undo(s) \/ Cleanup(s)
    <3>1. /\ UNCHANGED asked /\ pc[s] \in {"undo", "cleanup"}
          /\ \/ UNCHANGED <<owner, locks>>
             \/ Unlock(s) /\ locks[s][at[s]] # NoOne
          /\ \A g \in Gets : pc'[g] = pc[g] /\ at'[g] = at[g]
      BY <2>1, <2>4 DEF Undo, Cleanup
    <3> QED BY <3>1, OwnedSame, OwnedUnlock
  <2>5. CASE Answer(s)
    BY <2>5, OwnedAnswer
  <2> QED BY <1>4, <2>2, <2>3, <2>4, <2>5 DEF SetStep
<1>5. ASSUME NEW m \in Removers,
             RemoveGroup(m) \/ RemoveFind(m) \/ Removal(m) \/ RemoveFromNoContext(m)
      PROVE  Owned'
  <2>1. /\ UNCHANGED <<owner, locks>>
        /\ \A t \in Threads \ {m} :
             pc'[t] = pc[t] /\ asked'[t] = asked[t] /\ at'[t] = at[t]
    BY <1>1, <1>5
       DEF RemoveGroup, RemoveFind, Removal, Strip, Reclaim, NextEntry, Unlink, Delete,
          RemoveFromNoContext, Goto, TypeInv, setVars
  <2> QED BY <2>1, OwnedSame
<1> QED BY <1>2, <1>3, <1>4, <1>5 DEF Next

(* A request that names every leaf once: otherwise its second commit would   *)
(* take its own value for the copy, and the binding it undoes first would    *)
(* leave that value behind.                                                  *)
OneBindingPerLeaf ==
    \A w \in Writes : \A i, j \in DOMAIN w : w[i] = w[j] /\ w[i] \in Leaves => i = j

(* s has committed a binding of x, for which it still has the lock. *)
Written(s, x) == \E i \in 1 .. Len(locks[s]) : i \in done[s] /\ locks[s][i] = x

(* What a SET wrote it wrote in its commit, into leaves of which it has a    *)
(* copy that is not its own; when it is cleaning up, its values are final.   *)
Fresh ==
    \A s \in Sets, x \in Leaves :
        /\ pc[s] \in {"enter", "prepare"} => value[x] # s
        /\ pc[s] \in {"enter", "prepare", "commit", "undo"} => undo[x] # s
        /\ pc[s] \in {"commit", "undo"} /\ value[x] = s
               => undo[x] # NoOne /\ Written(s, x)

(* The part of the invariant that isolation needs. *)
Isolated == IInv /\ Owned /\ Fresh /\ DOMAIN done = Sets

(* A step that leaves leaves alone keeps Fresh, when a SET that goes on to   *)
(* commit or undo keeps what it has locked.                                  *)
LEMMA FreshSame ==
    ASSUME Fresh, UNCHANGED <<value, undo, done>>,
           \A s \in Sets :
               /\ pc'[s] \in {"enter", "prepare"} => pc[s] \in {"enter", "prepare"}
               /\ pc'[s] \in {"commit", "undo"} =>
                      \/ pc[s] = "prepare"
                      \/ pc[s] \in {"commit", "undo"} /\ locks'[s] = locks[s]
    PROVE  Fresh'
<1> SUFFICES ASSUME NEW s \in Sets, NEW x \in Leaves
             PROVE  /\ pc'[s] \in {"enter", "prepare"} => value[x] # s
                    /\ pc'[s] \in {"enter", "prepare", "commit", "undo"} => undo[x] # s
                    /\ pc'[s] \in {"commit", "undo"} /\ value[x] = s
                           => undo[x] # NoOne /\ Written(s, x)'
  BY DEF Fresh
<1>1. CASE pc'[s] \in {"enter", "prepare"}
  BY <1>1 DEF Fresh
<1>2. CASE pc'[s] \in {"commit", "undo"}
  <2>1. CASE pc[s] = "prepare"
    BY <1>2, <2>1 DEF Fresh
  <2>2. CASE pc[s] \in {"commit", "undo"} /\ locks'[s] = locks[s]
    BY <1>2, <2>2 DEF Fresh, Written
  <2> QED BY <1>2, <2>1, <2>2
<1> QED BY <1>1, <1>2

(* No two SETs have a binding locked for the same entry, and none has two    *)
(* bindings locked for the same leaf.                                        *)
LEMMA OneWriter ==
    ASSUME OneBindingPerLeaf, IInv, Owned, NEW s \in Sets, NEW i \in 1 .. Len(locks[s]),
           pc[s] # "answered", NEW u \in Sets, NEW j \in 1 .. Len(locks[u]),
           locks[s][i] \in Leaves, locks[u][j] = locks[s][i]
    PROVE  u = s /\ j = i
<1>1. locks[s][i] # NoOne
  BY NoOneIsNobody DEF Entries
<1>2. /\ owner[locks[s][i]] = s /\ owner[locks[u][j]] = u
      /\ locks[s][i] = asked[s][i] /\ locks[u][j] = asked[u][j]
  BY <1>1 DEF Owned
<1>3. u = s
  BY <1>2
<1>4. asked[s] \in Seq(Entries) /\ Len(locks[s]) = Len(asked[s])
  BY DEF IInv, TypeInv, Places, Threads, Requests
<1>5. i \in DOMAIN asked[s] /\ j \in DOMAIN asked[s]
  BY <1>3, <1>4
<1>6. asked[s] \in Writes
  BY DEF Owned
<1> QED BY <1>2, <1>3, <1>5, <1>6 DEF OneBindingPerLeaf

\* A commit writes the leaf of one binding, and no other has the leaf.
LEMMA FreshCommit ==
    ASSUME OneBindingPerLeaf, Isolated, NEW s \in Sets, Commit(s)
    PROVE  Fresh' /\ DOMAIN done' = Sets
<1> USE KindsDiffer, NoOneIsNobody, InitialIsNobody DEF Threads, Requests
<1> DEFINE i == at[s]
           e == locks[s][i]
<1>1. IInv /\ Owned /\ Fresh /\ DOMAIN done = Sets /\ TypeInv
  BY DEF Isolated, IInv
<1>2. /\ pc[s] = "commit" /\ locks' = locks
      /\ i \in 1 .. Len(locks[s]) /\ i \in Nat
  BY <1>1 DEF Commit, IInv, TypeInv, Places, AtBinding
<1>3. ASSUME NEW label, Phase(s, label) \/ NextBinding(s, label)
      PROVE  pc'[s] \in {"commit", label} /\ \A u \in Sets \ {s} : pc'[u] = pc[u]
  BY <1>1, <1>2, <1>3 DEF NextBinding, Phase, Goto, TypeInv
<1>4. CASE i \in done[s]
  <2>1. UNCHANGED <<value, undo, done>> /\ NextBinding(s, "cleanup")
    BY <1>4 DEF Commit
  <2>2. pc'[s] \in {"commit", "cleanup"} /\ \A u \in Sets \ {s} : pc'[u] = pc[u]
    BY <1>3, <2>1
  <2> QED BY <1>1, <1>2, <2>1, <2>2, FreshSame
<1>5. CASE i \notin done[s]
  <2>1. /\ pc'[s] \in {"commit", "cleanup", "undo"}
        /\ \A u \in Sets \ {s} : pc'[u] = pc[u]
    BY <1>3, <1>5 DEF Commit
  <2>2. undo' = [x \in Leaves |-> IF x = e THEN value[x] ELSE undo[x]]
    BY <1>5 DEF Commit
  <2>3. \/ /\ e # NoOne
           /\ value' = ForLeaf(value, e, s)
           /\ done' = [done EXCEPT ![s] = @ \cup {i} \cup row[s][i]]
        \/ UNCHANGED <<value, done>>
    BY <1>5 DEF Commit
  <2>4. /\ DOMAIN done' = Sets
        /\ \A u \in Sets : done[u] \subseteq done'[u]
        /\ \A u \in Sets \ {s} : done'[u] = done[u]
    BY <1>1, <2>3
  <2>5. \A u \in Sets, x \in Leaves : Written(u, x) => Written(u, x)'
    BY <1>2, <2>4 DEF Written
  <2>6. ASSUME NEW u \in Sets, NEW x \in Leaves, x = e,
               pc[u] \in {"enter", "prepare", "commit", "undo"}
        PROVE  value[x] # u
    <3>1. SUFFICES ASSUME value[x] = u PROVE FALSE
      OBVIOUS
    <3>2. Written(u, x)
      BY <1>1, <2>6, <3>1 DEF Fresh
    <3>3. PICK j \in 1 .. Len(locks[u]) : j \in done[u] /\ locks[u][j] = x
      BY <3>2 DEF Written
    <3>4. u = s /\ j = i
      BY <1>1, <1>2, <2>6, <3>3, OneWriter
    <3> QED BY <1>5, <3>3, <3>4
  <2>7. ASSUME NEW u \in Sets, NEW x \in Leaves
        PROVE  /\ pc'[u] \in {"enter", "prepare"} => value'[x] # u
               /\ pc'[u] \in {"enter", "prepare", "commit", "undo"} => undo'[x] # u
               /\ pc'[u] \in {"commit", "undo"} /\ value'[x] = u
                      => undo'[x] # NoOne /\ Written(u, x)'
    <3>1. /\ pc'[u] = pc[u] \/ u = s
          /\ pc'[u] \in {"enter", "prepare"} => u # s
      BY <2>1
    <3>2. value[x] \in Sets \cup {Initial} /\ value[x] # NoOne
      BY <1>1 DEF TypeInv
    <3>3. CASE x # e
      <4>1. value'[x] = value[x] /\ undo'[x] = undo[x]
        BY <2>2, <2>3, <3>3 DEF ForLeaf
      <4>2. pc'[u] \in {"commit", "undo"} => pc[u] \in {"commit", "undo"}
        BY <1>2, <3>1
      <4>3. pc'[u] \in {"enter", "prepare"} => pc[u] \in {"enter", "prepare"}
        BY <3>1
      <4> QED BY <1>1, <2>5, <4>1, <4>2, <4>3 DEF Fresh
    <3>4. CASE x = e
      <4>1. undo'[x] = value[x]
        BY <2>2, <3>4
      <4>2. /\ pc'[u] \in {"enter", "prepare", "commit", "undo"}
                  => pc[u] \in {"enter", "prepare", "commit", "undo"}
        BY <1>2, <3>1
      <4>3. pc'[u] \in {"enter", "prepare", "commit", "undo"} => value[x] # u
        BY <2>6, <3>4, <4>2
      <4>4. CASE UNCHANGED <<value, done>>
        BY <3>2, <4>1, <4>3, <4>4
      <4>5. CASE /\ e # NoOne
                 /\ value' = ForLeaf(value, e, s)
                 /\ done' = [done EXCEPT ![s] = @ \cup {i} \cup row[s][i]]
        <5>1. value'[x] = s /\ i \in done'[s]
          BY <1>1, <3>4, <4>5 DEF ForLeaf
        <5>2. Written(s, x)'
          BY <1>2, <3>4, <5>1 DEF Written
        <5> QED BY <3>1, <3>2, <4>1, <4>3, <5>1, <5>2
      <4> QED BY <2>3, <4>4, <4>5
    <3> QED BY <3>3, <3>4
  <2> QED BY <2>4, <2>7 DEF Fresh
<1> QED BY <1>4, <1>5

(* Undoing and cleaning up take back copies of leaves that the SET has, and  *)
(* which therefore nobody else has written.                                  *)
LEMMA FreshUnlock ==
    ASSUME OneBindingPerLeaf, Isolated, NEW s \in Sets, Undo(s) \/ Cleanup(s),
           locks[s][at[s]] # NoOne
    PROVE  Fresh'
<1> USE KindsDiffer, NoOneIsNobody, InitialIsNobody DEF Threads, Requests
<1> DEFINE i == at[s]
           e == locks[s][i]
<1>1. IInv /\ Owned /\ Fresh /\ TypeInv
  BY DEF Isolated, IInv
<1>2. /\ pc[s] \in {"undo", "cleanup"} /\ done' = done
      /\ i \in 1 .. Len(locks[s]) /\ i \in Nat
  BY <1>1 DEF Undo, Cleanup, IInv, TypeInv, Places, AtBinding
<1>3. /\ NextBinding(s, "answer")
      /\ undo' = ForLeaf(undo, e, NoOne)
      /\ locks' = [locks EXCEPT ![s] = [locks[s] EXCEPT ![i] = NoOne]]
      /\ \/ value' = value /\ pc[s] = "cleanup"
         \/ value' = [x \in Leaves |->
                         IF x = e /\ undo[x] # NoOne THEN undo[x] ELSE value[x]]
  BY DEF Undo, Cleanup, Unlock
<1>4. /\ pc'[s] \in {pc[s], "answer"} /\ \A u \in Sets \ {s} : pc'[u] = pc[u]
      /\ locks[s] \in Seq(Entries \cup {NoOne})
  BY <1>1, <1>2, <1>3 DEF NextBinding, Phase, Goto, TypeInv
<1>5. ASSUME NEW u \in Sets, NEW x \in Leaves, x # e, Written(u, x)
      PROVE  Written(u, x)'
  <2>1. PICK j \in 1 .. Len(locks[u]) : j \in done[u] /\ locks[u][j] = x
    BY <1>5 DEF Written
  <2>2. Len(locks'[u]) = Len(locks[u]) /\ locks'[u][j] = x
    <3>1. CASE u = s
      <4>1. j # i
        BY <1>5, <2>1, <3>1
      <4> QED BY <1>1, <1>3, <1>4, <2>1, <3>1, <4>1 DEF TypeInv
    <3>2. CASE u # s
      BY <1>1, <1>3, <2>1, <3>2 DEF TypeInv
    <3> QED BY <3>1, <3>2
  <2> QED BY <1>2, <2>1, <2>2 DEF Written
<1>6. ASSUME NEW u \in Sets, NEW x \in Leaves, x = e,
             pc[u] \in {"commit", "undo"}, u # s
      PROVE  value[x] # u
  <2>1. SUFFICES ASSUME value[x] = u PROVE FALSE
    OBVIOUS
  <2>2. PICK j \in 1 .. Len(locks[u]) : locks[u][j] = x
    BY <1>1, <1>6, <2>1 DEF Fresh, Written
  <2> QED BY <1>1, <1>2, <1>6, <2>2, OneWriter
<1>7. ASSUME NEW u \in Sets, NEW x \in Leaves
      PROVE  /\ pc'[u] \in {"enter", "prepare"} => value'[x] # u
             /\ pc'[u] \in {"enter", "prepare", "commit", "undo"} => undo'[x] # u
             /\ pc'[u] \in {"commit", "undo"} /\ value'[x] = u
                    => undo'[x] # NoOne /\ Written(u, x)'
  <2>1. pc'[u] = pc[u] \/ (u = s /\ pc'[u] = "answer")
    BY <1>4
  <2>2. CASE x # e
    <3>1. value'[x] = value[x] /\ undo'[x] = undo[x]
      BY <1>1, <1>3, <2>2 DEF ForLeaf, TypeInv
    <3> QED BY <1>1, <1>5, <2>1, <2>2, <3>1 DEF Fresh
  <2>3. CASE x = e
    <3>1. undo'[x] = NoOne
      BY <1>3, <2>3 DEF ForLeaf
    <3>2. value'[x] \in {value[x], undo[x]}
      BY <1>1, <1>3 DEF TypeInv
    <3>3. CASE u # s
      <4>1. pc[u] \in {"commit", "undo"} => value[x] # u
        BY <1>6, <2>3, <3>3
      <4> QED BY <1>1, <2>1, <3>1, <3>2, <3>3, <4>1 DEF Fresh
    <3>4. CASE u = s /\ pc'[u] = "undo"
      <4>1. pc[s] = "undo"
        BY <2>1, <3>4
      <4>2. value'[x] = IF undo[x] # NoOne THEN undo[x] ELSE value[x]
        BY <1>3, <2>3, <4>1
      <4>3. undo[x] # s /\ (value[x] = s => undo[x] # NoOne)
        BY <1>1, <4>1 DEF Fresh
      <4> QED BY <3>1, <3>4, <4>2, <4>3
    <3>5. CASE u = s /\ pc'[u] \in {"cleanup", "answer"}
      BY <3>5
    <3> QED BY <1>2, <2>1, <3>3, <3>4, <3>5
  <2> QED BY <2>2, <2>3
<1> QED BY <1>7 DEF Fresh

\* All actions together.
LEMMA FreshStep == OneBindingPerLeaf /\ Isolated /\ [Next]_vars => Fresh' /\ DOMAIN done' = Sets
<1> SUFFICES ASSUME OneBindingPerLeaf, Isolated, [Next]_vars
             PROVE  Fresh' /\ DOMAIN done' = Sets
  OBVIOUS
<1> USE KindsDiffer, NoOneIsNobody DEF Threads, Requests
<1>1. IInv /\ Owned /\ Fresh /\ DOMAIN done = Sets /\ TypeInv
  BY DEF Isolated, IInv
<1>2. CASE UNCHANGED vars
  BY <1>1, <1>2, FreshSame DEF vars, setVars
<1>3. ASSUME NEW g \in Gets, GetStep(g) PROVE Fresh' /\ DOMAIN done' = Sets
  <2>1. /\ UNCHANGED <<value, undo, done, locks>>
        /\ \A s \in Sets : pc'[s] = pc[s]
    BY <1>1, <1>3
       DEF GetStep, Find, LockEntry, Read, Answer, GetNext, Goto, TypeInv, setVars
  <2> QED BY <1>1, <2>1, FreshSame
<1>4. ASSUME NEW s \in Sets, SetStep(s) PROVE Fresh' /\ DOMAIN done' = Sets
  <2>1. CASE Enter(s)
    <3>1. UNCHANGED <<value, undo, done, locks>>
      BY <2>1 DEF Enter, setVars
    <3>2. /\ pc[s] = "enter" /\ pc'[s] = "prepare"
          /\ \A u \in Sets \ {s} : pc'[u] = pc[u]
      BY <1>1, <2>1 DEF Enter, Phase, Goto, TypeInv
    <3> QED BY <1>1, <3>1, <3>2, FreshSame
  <2>2. CASE Prepare(s)
    <3>1. UNCHANGED <<value, undo, done>> /\ pc[s] = "prepare"
      BY <2>2 DEF Prepare, setVars
    <3>2. /\ pc'[s] \in {"prepare", "commit", "cleanup"}
          /\ \A u \in Sets \ {s} : pc'[u] = pc[u]
      BY <1>1, <2>2 DEF Prepare, Prepared, Refuse, NextBinding, Phase, Goto, TypeInv
    <3>3. \A u \in Sets \ {s} : locks'[u] = locks[u]
      BY <1>1, <2>2 DEF Prepare, TakeLock, TypeInv, setVars
    <3> QED BY <1>1, <3>1, <3>2, <3>3, FreshSame
  <2>3. CASE Commit(s)
    BY <2>3, FreshCommit
  <2>4. CASE (Undo(s) \/ Cleanup(s)) /\ locks[s][at[s]] # NoOne
    <3>1. done' = done
      BY <2>4 DEF Undo, Cleanup
    <3> QED BY <1>1, <2>4, <3>1, FreshUnlock
  <2>5. CASE (Undo(s) \/ Cleanup(s)) /\ locks[s][at[s]] = NoOne
    <3>1. UNCHANGED <<value, undo, done, locks>>
      BY <2>5 DEF Undo, Cleanup
    <3>2. /\ pc[s] \in {"undo", "cleanup"} /\ pc'[s] \in {pc[s], "answer"}
          /\ \A u \in Sets \ {s} : pc'[u] = pc[u]
      BY <1>1, <2>5 DEF Undo, Cleanup, NextBinding, Phase, Goto, TypeInv
    <3> QED BY <1>1, <3>1, <3>2, FreshSame
  <2>6. CASE Answer(s)
    <3>1. /\ UNCHANGED <<value, undo, done>> /\ pc'[s] = "answered"
          /\ \A u \in Sets \ {s} : pc'[u] = pc[u] /\ locks'[u] = locks[u]
      BY <1>1, <2>6 DEF Answer, Goto, TypeInv
    <3> QED BY <1>1, <3>1, FreshSame
  <2> QED BY <1>4, <2>1, <2>2, <2>3, <2>4, <2>5, <2>6 DEF SetStep
<1>5. ASSUME NEW m \in Removers,
             RemoveGroup(m) \/ RemoveFind(m) \/ Removal(m) \/ RemoveFromNoContext(m)
      PROVE  Fresh' /\ DOMAIN done' = Sets
  <2>1. /\ UNCHANGED <<value, undo, done, locks>>
        /\ \A s \in Sets : pc'[s] = pc[s]
    BY <1>1, <1>5
       DEF RemoveGroup, RemoveFind, Removal, Strip, Reclaim, NextEntry, Unlink, Delete,
          RemoveFromNoContext, Goto, TypeInv, setVars
  <2> QED BY <1>1, <2>1, FreshSame
<1> QED BY <1>2, <1>3, <1>4, <1>5 DEF Next

(* While a request names every leaf once, no GET reads a value that a SET    *)
(* has written and may still undo, in a leaf that remove_group has not freed. *)
THEOREM IsolationCorrect ==
    ASSUME OneBindingPerLeaf
    PROVE  Spec => []NoDirtyRead
<1>1. Init => Isolated
  <2>1. Init => Fresh /\ DOMAIN done = Sets
    BY InitialIsNobody, NoOneIsNobody DEF Init, Fresh, Threads, Requests
  <2> QED BY <2>1, InitInv, InitOwned DEF Isolated
<1>2. Isolated /\ [Next]_vars => Isolated'
  BY StepInv, OwnedStep, FreshStep DEF Isolated
<1>3. Isolated => NoDirtyRead
  <2> SUFFICES ASSUME Isolated, NEW g \in Gets, NEW s \in Sets, pc[g] = "read",
                      Entry(g) \in Leaves, pc[s] \in {"commit", "undo"},
                      value[Entry(g)] = s
               PROVE  FALSE
    BY DEF NoDirtyRead
  <2>1. PICK i \in 1 .. Len(locks[s]) : locks[s][i] = Entry(g)
    BY DEF Isolated, Fresh, Written
  <2>2. owner[Entry(g)] = g /\ Entry(g) # NoOne
    BY NoOneIsNobody DEF Isolated, Owned, Entries
  <2>3. owner[Entry(g)] = s
    BY <2>1, <2>2 DEF Isolated, Owned
  <2> QED BY <2>2, <2>3, KindsDiffer
<1> QED BY <1>1, <1>2, <1>3, PTL DEF Spec
--------------------------------------------------------------------------------
(* Undo.  A request that creates a row does so after its leaves: otherwise   *)
(* cleaning up ends at the first column that was left to another binding,    *)
(* and leaves a copy behind that a later SET would take for its own.         *)
RowsLast ==
    \A w \in Writes : \A i, j, k \in DOMAIN w :
        i < j /\ j < k /\ w[i] = w[j] /\ w[i] \in Tables => w[k] \notin Leaves

(* The bindings of a SET are locked, and given back, in their order: only    *)
(* those left to a row are passed over, and they come after the leaves.      *)
Ordered(s) ==
    /\ row[s] \in Seq(SUBSET Nat) /\ Len(row[s]) = Len(asked[s])
    /\ \A j \in Ready(s) :
         \E i \in 1 .. Len(asked[s]) :
            i < j /\ j \in 1 .. Len(asked[s]) /\ asked[s][i] = asked[s][j] /\ asked[s][i] \in Tables
    /\ pc[s] = "enter" => at[s] = 1
    /\ pc[s] \in {"enter", "prepare"} =>
         /\ \A i \in 1 .. Len(row[s]) : i >= at[s] => row[s][i] = {}
         /\ \A j \in 1 .. Len(locks[s]) : IF j < at[s]
                                          THEN locks[s][j] # NoOne \/ j \in Ready(s)
                                          ELSE locks[s][j] = NoOne
    /\ pc[s] \in {"prepare", "commit"} =>
         \A k \in 1 .. Len(locks[s]) : locks[s][k] \in Leaves =>
            \A j \in 1 .. k - 1 : locks[s][j] # NoOne
    /\ pc[s] = "cleanup" =>
         \A k \in 1 .. Len(locks[s]) : locks[s][k] \in Leaves =>
            \A j \in at[s] .. k - 1 : locks[s][j] # NoOne
    /\ pc[s] \in {"undo", "cleanup"} =>
         \A j \in 1 .. Len(locks[s]) : j < at[s] => locks[s][j] = NoOne

(* Only a SET that has committed a leaf, and has its lock, has made a copy.  *)
Copied(x) ==
    undo[x] # NoOne =>
        \E s \in Sets : \E i \in 1 .. Len(locks[s]) :
            /\ locks[s][i] = x
            /\ \/ pc[s] = "commit" /\ i < at[s]
               \/ pc[s] \in {"undo", "cleanup"}

(* What a SET found in a leaf is its value, or the copy once it has written. *)
Recorded(s, x) ==
    owner[x] = s /\ pc[s] \in {"enter", "prepare", "commit", "undo"} =>
        before[s][x] = IF undo[x] = NoOne THEN value[x] ELSE undo[x]

HistoryTypes == DOMAIN row = Sets /\ before \in [Sets -> [Leaves -> Sets \cup {Initial}]]

Restorable ==
    /\ IInv /\ Owned
    /\ HistoryTypes
    /\ \A s \in Sets : Ordered(s)
    /\ \A x \in Leaves : Copied(x)
    /\ \A s \in Sets, x \in Leaves : Recorded(s, x)

(* Where a SET is after a step of its own, and that the others stay. *)
LEMMA SetMoves ==
    ASSUME IInv, NEW s \in Sets, NEW label
    PROVE  /\ Phase(s, label) => pc'[s] = label /\ at'[s] = 1
           /\ NextBinding(s, label) => IF at[s] = Len(asked[s])
                                       THEN pc'[s] = label /\ at'[s] = 1
                                       ELSE pc'[s] = pc[s] /\ at'[s] = at[s] + 1
           /\ Phase(s, label) \/ NextBinding(s, label) =>
                 \A t \in Threads \ {s} : pc'[t] = pc[t] /\ at'[t] = at[t]
BY DEF IInv, TypeInv, Phase, NextBinding, AtLast, Goto, Threads, Requests

(* What a SET and its lists look like in one of its phases. *)
LEMMA SetShape ==
    ASSUME IInv, Owned, NEW s \in Sets, pc[s] \in AtBinding \cup {"enter"}
    PROVE  /\ locks[s] \in Seq(Entries \cup {NoOne}) /\ asked[s] \in Seq(Entries)
           /\ asked[s] \in Writes /\ DOMAIN asked[s] = 1 .. Len(asked[s])
           /\ Len(locks[s]) = Len(asked[s]) /\ Len(asked[s]) \in Nat
           /\ at[s] \in Nat
           /\ pc[s] \in AtBinding => at[s] \in 1 .. Len(asked[s])
<1>1. pc[s] # "answered"
  BY DEF AtBinding
<1> QED BY <1>1 DEF IInv, TypeInv, Places, Owned, Threads, Requests

\* The lists of a SET that does not move stay in order.
LEMMA OrderedSame ==
    ASSUME NEW s \in Sets, Ordered(s), row'[s] = row[s], asked'[s] = asked[s],
           locks'[s] = locks[s], pc'[s] = pc[s], at'[s] = at[s]
    PROVE  Ordered(s)'
BY DEF Ordered, Ready

(* A leaf is locked after the locks of all the bindings before it: none of   *)
(* them was left to a row.                                                   *)
LEMMA LeavesFirst ==
    ASSUME RowsLast, IInv, Owned, NEW s \in Sets, Ordered(s), pc[s] = "prepare",
           Entry(s) \in Leaves, NEW j \in 1 .. at[s] - 1
    PROVE  locks[s][j] # NoOne
<1>1. /\ Len(locks[s]) = Len(asked[s]) /\ at[s] \in 1 .. Len(asked[s])
      /\ asked[s] \in Writes /\ DOMAIN asked[s] = 1 .. Len(asked[s]) /\ Len(asked[s]) \in Nat
  BY SetShape DEF AtBinding
<1>2. j \in 1 .. Len(locks[s]) /\ j < at[s]
  BY <1>1
<1>3. ASSUME j \in Ready(s) PROVE FALSE
  <2>1. PICK i \in 1 .. Len(asked[s]) :
           i < j /\ asked[s][i] = asked[s][j] /\ asked[s][i] \in Tables
    BY <1>3 DEF Ordered
  <2> QED BY <1>1, <1>2, <2>1 DEF RowsLast, Entry
<1> QED BY <1>2, <1>3 DEF Ordered

(* With the binding of an entry that is not a row locked or not, prepare     *)
(* goes on, or gives up, with its lists in order.                            *)
LEMMA OrderedPrepare ==
    ASSUME RowsLast, IInv, Owned, NEW s \in Sets, Ordered(s), Prepare(s)
    PROVE  Ordered(s)'
<1> DEFINE i == at[s]
<1> USE NoOneIsNobody
<1>1. pc[s] = "prepare" /\ asked' = asked
  BY DEF Prepare
<1>2. /\ locks[s] \in Seq(Entries \cup {NoOne}) /\ asked[s] \in Seq(Entries)
      /\ Len(locks[s]) = Len(asked[s]) /\ Len(asked[s]) \in Nat
      /\ i \in 1 .. Len(asked[s]) /\ i \in Nat
  BY <1>1, SetShape DEF AtBinding
<1>3. /\ Refuse(s) => pc'[s] = "cleanup" /\ at'[s] = 1
      /\ Prepared(s) => \/ pc'[s] = "commit" /\ at'[s] = 1
                        \/ pc'[s] = "prepare" /\ at'[s] = i + 1
  BY <1>1, SetMoves DEF Refuse, Prepared
<1>4. /\ \A k \in 1 .. Len(locks[s]) : locks[s][k] \in Leaves =>
            \A j \in 1 .. k - 1 : locks[s][j] # NoOne
      /\ \A j \in 1 .. Len(locks[s]) : IF j < i THEN locks[s][j] # NoOne \/ j \in Ready(s)
                                                ELSE locks[s][j] = NoOne
      /\ \A j \in 1 .. Len(row[s]) : j >= i => row[s][j] = {}
      /\ row[s] \in Seq(SUBSET Nat) /\ Len(row[s]) = Len(asked[s])
  BY <1>1 DEF Ordered
<1>5. CASE locks'[s] = locks[s] /\ row'[s] = row[s]
           /\ (Refuse(s) \/ (Prepared(s) /\ i \in Ready(s)))
  <2>1. Ready(s)' = Ready(s)
    BY <1>5 DEF Ready
  <2>2. CASE pc'[s] = "cleanup" /\ at'[s] = 1
    BY <1>1, <1>4, <1>5, <2>1, <2>2 DEF Ordered
  <2>3. CASE pc'[s] = "commit" /\ at'[s] = 1
    BY <1>1, <1>4, <1>5, <2>1, <2>3 DEF Ordered
  <2>4. CASE pc'[s] = "prepare" /\ at'[s] = i + 1 /\ i \in Ready(s)
    <3>1. \A j \in 1 .. Len(locks[s]) : IF j < i + 1 THEN locks[s][j] # NoOne \/ j \in Ready(s)
                                                     ELSE locks[s][j] = NoOne
      BY <1>2, <1>4, <2>4
    <3>2. \A j \in 1 .. Len(row[s]) : j >= i + 1 => row[s][j] = {}
      BY <1>2, <1>4
    <3> QED BY <1>1, <1>4, <1>5, <2>1, <2>4, <3>1, <3>2 DEF Ordered
  <2> QED BY <1>3, <1>5, <2>2, <2>3, <2>4
<1>6. CASE /\ TakeLock(s)
           /\ \/ \E columns \in SUBSET Columns(s) :
                    row' = [row EXCEPT ![s][i] = columns] /\ Prepared(s)
              \/ Refuse(s) /\ UNCHANGED row
  <2> DEFINE e == Entry(s)
  <2>1. locks'[s] = [locks[s] EXCEPT ![i] = e] /\ e \in Entries /\ e # NoOne
    <3>1. e \in Entries
      BY <1>1, EntryType DEF AtBinding, Threads, Requests
    <3> QED BY <1>6, <3>1 DEF TakeLock, IInv, TypeInv
  <2>2. /\ Len(locks'[s]) = Len(locks[s]) /\ locks'[s][i] = e
        /\ \A j \in 1 .. Len(locks[s]) : j # i => locks'[s][j] = locks[s][j]
    BY <1>2, <2>1
  <2> HIDE DEF e
  <2>3. ASSUME NEW k \in 1 .. Len(locks[s]), locks'[s][k] \in Leaves, NEW j \in 1 .. k - 1
        PROVE  locks'[s][j] # NoOne
    <3>1. CASE k < i
      <4>1. locks[s][k] \in Leaves /\ locks'[s][j] = locks[s][j]
        BY <1>2, <2>2, <2>3, <3>1
      <4> QED BY <1>4, <4>1
    <3>2. CASE k = i
      <4>1. locks[s][j] # NoOne
        BY <1>1, <2>2, <2>3, <3>2, LeavesFirst DEF e
      <4> QED BY <1>2, <2>2, <3>2, <4>1
    <3>3. CASE k > i
      <4>1. locks'[s][k] = NoOne
        BY <1>2, <1>4, <2>2, <3>3
      <4> QED BY <2>3, <4>1 DEF Entries
    <3> QED BY <1>2, <3>1, <3>2, <3>3
  <2>4. CASE Refuse(s) /\ UNCHANGED row
    <3>1. Ready(s)' = Ready(s)
      BY <2>4 DEF Ready
    <3> QED BY <1>1, <1>3, <1>4, <2>2, <2>3, <2>4, <3>1 DEF Ordered
  <2>5. ASSUME NEW columns \in SUBSET Columns(s),
               row' = [row EXCEPT ![s][i] = columns], Prepared(s)
        PROVE  Ordered(s)'
    <3>1. /\ row'[s] \in {row[s], [row[s] EXCEPT ![i] = columns]}
          /\ columns \subseteq Nat
          /\ \A j \in columns : j \in 1 .. Len(asked[s]) /\ i < j
                                /\ asked[s][j] = asked[s][i] /\ asked[s][i] \in Tables
      BY <1>2, <2>5 DEF Columns, Entry
    <3>2. /\ row'[s] \in Seq(SUBSET Nat) /\ Len(row'[s]) = Len(row[s])
          /\ \A j \in 1 .. Len(row[s]) : j # i => row'[s][j] = row[s][j]
          /\ i \in 1 .. Len(row[s]) => row'[s][i] \in {row[s][i], columns}
      <4> DEFINE T == SUBSET Nat
      <4>1. row[s] \in Seq(T) /\ columns \in T /\ i \in 1 .. Len(row[s])
        BY <1>2, <1>4, <3>1
      <4> HIDE DEF T
      <4>2. CASE row'[s] = row[s]
        BY <4>1, <4>2 DEF T
      <4>3. CASE row'[s] = [row[s] EXCEPT ![i] = columns]
        <5>1. row'[s] \in Seq(T) /\ Len(row'[s]) = Len(row[s])
          BY <4>1, <4>3
        <5>2. DOMAIN row[s] = 1 .. Len(row[s])
          BY <4>1
        <5> QED BY <4>3, <5>1, <5>2 DEF T
      <4> QED BY <3>1, <4>2, <4>3
    <3>3. DOMAIN row'[s] = 1 .. Len(row[s]) /\ DOMAIN row[s] = 1 .. Len(row[s])
      BY <1>4, <3>2
    <3>4. Ready(s) \subseteq Ready(s)'
      <4> SUFFICES ASSUME NEW j \in DOMAIN row[s], NEW n \in row[s][j]
                   PROVE  n \in row'[s][j]
        BY <3>3 DEF Ready
      <4>1. j # i
        BY <1>2, <1>4, <3>3
      <4> QED BY <3>2, <3>3, <4>1
    <3>5. Ready(s)' \subseteq Ready(s) \cup columns
      BY <3>2, <3>3 DEF Ready
    <3>6. \A j \in Ready(s)' : \E n \in 1 .. Len(asked[s]) :
             n < j /\ j \in 1 .. Len(asked[s]) /\ asked[s][n] = asked[s][j] /\ asked[s][n] \in Tables
      <4> SUFFICES ASSUME NEW j \in Ready(s)'
                   PROVE  \E n \in 1 .. Len(asked[s]) :
                             /\ n < j /\ j \in 1 .. Len(asked[s])
                             /\ asked[s][n] = asked[s][j] /\ asked[s][n] \in Tables
        OBVIOUS
      <4>1. CASE j \in Ready(s)
        BY <4>1 DEF Ordered
      <4>2. CASE j \in columns
        BY <1>2, <3>1, <4>2
      <4> QED BY <3>5, <4>1, <4>2
    <3>7. \A j \in 1 .. Len(row'[s]) : j >= i + 1 => row'[s][j] = {}
      <4> SUFFICES ASSUME NEW j \in 1 .. Len(row[s]), j >= i + 1 PROVE row'[s][j] = {}
        BY <3>2
      <4>1. j # i /\ j >= i
        BY <1>2
      <4> QED BY <1>4, <3>2, <4>1
    <3>8. \A j \in 1 .. Len(locks'[s]) : IF j < i + 1
                                         THEN locks'[s][j] # NoOne \/ j \in Ready(s)'
                                         ELSE locks'[s][j] = NoOne
      <4> SUFFICES ASSUME NEW j \in 1 .. Len(locks[s])
                   PROVE  IF j < i + 1 THEN locks'[s][j] # NoOne \/ j \in Ready(s)'
                                       ELSE locks'[s][j] = NoOne
        BY <2>2
      <4>1. CASE j = i
        BY <1>2, <2>1, <2>2, <4>1
      <4>2. CASE j # i
        <5>1. locks'[s][j] = locks[s][j] /\ (j < i + 1 <=> j < i)
          BY <1>2, <2>2, <4>2
        <5> QED BY <1>4, <3>4, <5>1
      <4> QED BY <4>1, <4>2
    <3>9. CASE pc'[s] = "commit" /\ at'[s] = 1
      BY <1>1, <2>2, <2>3, <3>2, <3>6, <3>9 DEF Ordered
    <3>10. CASE pc'[s] = "prepare" /\ at'[s] = i + 1
      BY <1>1, <2>2, <2>3, <3>2, <3>6, <3>7, <3>8, <3>10 DEF Ordered
    <3> QED BY <1>3, <2>5, <3>9, <3>10
  <2> QED BY <1>6, <2>4, <2>5
<1>7. \/ /\ TakeLock(s)
         /\ \/ \E columns \in SUBSET Columns(s) :
                  row' = [row EXCEPT ![s][i] = columns] /\ Prepared(s)
            \/ Refuse(s) /\ UNCHANGED row
      \/ UNCHANGED setVars /\ (Refuse(s) \/ (Prepared(s) /\ i \in Ready(s)))
  BY DEF Prepare
<1> QED BY <1>5, <1>6, <1>7 DEF setVars

(* Unlocking a binding leaves the others of its list, and all other lists.   *)
LEMMA UnlockShape ==
    ASSUME IInv, NEW s \in Sets, Unlock(s), at[s] \in 1 .. Len(locks[s])
    PROVE  /\ Len(locks'[s]) = Len(locks[s]) /\ locks'[s][at[s]] = NoOne
           /\ \A j \in 1 .. Len(locks[s]) : j # at[s] => locks'[s][j] = locks[s][j]
           /\ \A u \in Sets \ {s} : locks'[u] = locks[u]
<1>1. /\ locks'[s] = [locks[s] EXCEPT ![at[s]] = NoOne]
      /\ \A u \in Sets \ {s} : locks'[u] = locks[u]
      /\ locks[s] \in Seq(Entries \cup {NoOne})
  BY DEF IInv, TypeInv, Unlock
<1> QED BY <1>1

\* Every other phase keeps the order too.
LEMMA OrderedPhase ==
    ASSUME IInv, Owned, NEW s \in Sets, Ordered(s),
           Enter(s) \/ Commit(s) \/ Undo(s) \/ Cleanup(s) \/ Answer(s)
    PROVE  Ordered(s)'
<1> DEFINE i == at[s]
<1> USE NoOneIsNobody
<1>1. asked'[s] = asked[s] /\ row'[s] = row[s] /\ Ready(s)' = Ready(s)
  BY DEF Enter, Commit, Undo, Cleanup, Answer, setVars, Ready
<1>2. /\ row[s] \in Seq(SUBSET Nat) /\ Len(row[s]) = Len(asked[s])
      /\ \A j \in Ready(s) : \E n \in 1 .. Len(asked[s]) :
            n < j /\ j \in 1 .. Len(asked[s]) /\ asked[s][n] = asked[s][j] /\ asked[s][n] \in Tables
  BY DEF Ordered
<1>3. CASE Enter(s)
  <2>1. pc[s] = "enter" /\ pc'[s] = "prepare" /\ at'[s] = 1 /\ at[s] = 1 /\ locks' = locks
    BY <1>3, SetMoves DEF Enter, setVars, Ordered
  <2>2. \A j \in 1 .. Len(locks[s]) : locks[s][j] = NoOne
    BY <2>1 DEF Ordered
  <2>3. /\ \A j \in 1 .. Len(row[s]) : j >= 1 => row[s][j] = {}
        /\ NoOne \notin Leaves
    BY <2>1 DEF Ordered, Entries
  <2> QED BY <1>1, <1>2, <2>1, <2>2, <2>3 DEF Ordered
<1>4. CASE Commit(s)
  <2>1. /\ pc[s] = "commit" /\ locks' = locks
        /\ \/ pc'[s] = "commit"
           \/ pc'[s] \in {"cleanup", "undo"} /\ at'[s] = 1
    BY <1>4, SetMoves DEF Commit
  <2>2. \A k \in 1 .. Len(locks[s]) : locks[s][k] \in Leaves =>
           \A j \in 1 .. k - 1 : locks[s][j] # NoOne
    BY <2>1 DEF Ordered
  <2> QED BY <1>1, <1>2, <2>1, <2>2 DEF Ordered
<1>5. CASE Undo(s) \/ Cleanup(s)
  <2>1. /\ pc[s] \in {"undo", "cleanup"} /\ Len(locks[s]) = Len(asked[s])
        /\ i \in 1 .. Len(locks[s]) /\ i \in Nat
    BY <1>5, SetShape DEF Undo, Cleanup, AtBinding
  <2>2. CASE pc'[s] = "answer"
    BY <1>1, <1>2, <2>2 DEF Ordered
  <2>3. CASE pc'[s] # "answer"
    <3>1. /\ pc'[s] = pc[s] /\ at'[s] = i + 1
          /\ \/ locks' = locks /\ locks[s][i] = NoOne /\ pc[s] = "undo"
             \/ Unlock(s)
      BY <1>5, <2>3, SetMoves DEF Undo, Cleanup
    <3>2. /\ Len(locks'[s]) = Len(locks[s]) /\ locks'[s][i] = NoOne
          /\ \A j \in 1 .. Len(locks[s]) : j # i => locks'[s][j] = locks[s][j]
      BY <2>1, <3>1, UnlockShape
    <3>3. ASSUME NEW j \in 1 .. Len(locks[s]), j < i + 1 PROVE locks'[s][j] = NoOne
      <4>1. CASE j = i
        BY <3>2, <4>1
      <4>2. CASE j < i
        BY <2>1, <3>2, <4>2 DEF Ordered
      <4> QED BY <2>1, <3>3, <4>1, <4>2
    <3>4. ASSUME pc[s] = "cleanup", NEW k \in 1 .. Len(locks[s]), locks'[s][k] \in Leaves,
                 NEW j \in i + 1 .. k - 1
          PROVE  locks'[s][j] # NoOne
      <4>1. k # i
        BY <3>2, <3>4 DEF Entries
      <4>2. locks[s][k] \in Leaves /\ j \in i .. k - 1 /\ j \in 1 .. Len(locks[s]) /\ j # i
        BY <2>1, <3>2, <3>4, <4>1
      <4> QED BY <3>2, <3>4, <4>2 DEF Ordered
    <3> QED BY <1>1, <1>2, <2>1, <3>1, <3>2, <3>3, <3>4 DEF Ordered
  <2> QED BY <2>2, <2>3
<1>6. CASE Answer(s)
  <2>1. pc'[s] = "answered"
    BY <1>6 DEF Answer, Goto, IInv, TypeInv, Threads, Requests
  <2> QED BY <1>1, <1>2, <2>1 DEF Ordered
<1> QED BY <1>3, <1>4, <1>5, <1>6

(* A step is one of a GET, of a SET, or of a thread that removes; the SETs   *)
(* that do not step have their lists and places as before.                   *)
LEMMA OthersStay ==
    ASSUME IInv, HistoryTypes, Next
    PROVE  \/ /\ UNCHANGED <<value, undo, locks, row, before>>
              /\ \A s \in Sets : pc'[s] = pc[s] /\ at'[s] = at[s] /\ asked'[s] = asked[s]
              /\ \/ \E g \in Gets : GetStep(g)
                 \/ owner' = owner
           \/ \E s \in Sets :
                 /\ SetStep(s)
                 /\ asked' = asked
                 /\ \A u \in Sets \ {s} : /\ pc'[u] = pc[u] /\ at'[u] = at[u]
                                          /\ locks'[u] = locks[u] /\ row'[u] = row[u]
                                          /\ before'[u] = before[u]
<1> USE KindsDiffer DEF Threads, Requests
<1>1. TypeInv
  BY DEF IInv
<1>2. ASSUME NEW g \in Gets, GetStep(g)
      PROVE  /\ UNCHANGED <<value, undo, locks, row, before>>
             /\ \A s \in Sets : pc'[s] = pc[s] /\ at'[s] = at[s] /\ asked'[s] = asked[s]
  BY <1>1, <1>2 DEF GetStep, Find, LockEntry, Read, Answer, GetNext, Goto, TypeInv, setVars
<1>3. ASSUME NEW m \in Removers,
             RemoveGroup(m) \/ RemoveFind(m) \/ Removal(m) \/ RemoveFromNoContext(m)
      PROVE  /\ UNCHANGED <<value, undo, locks, row, before, owner>>
             /\ \A s \in Sets : pc'[s] = pc[s] /\ at'[s] = at[s] /\ asked'[s] = asked[s]
  BY <1>1, <1>3
     DEF RemoveGroup, RemoveFind, Removal, Strip, Reclaim, NextEntry, Unlink, Delete,
          RemoveFromNoContext, Goto, TypeInv, setVars
<1>4. ASSUME NEW s \in Sets, SetStep(s), NEW u \in Sets \ {s}
      PROVE  /\ asked' = asked /\ pc'[u] = pc[u] /\ at'[u] = at[u]
             /\ locks'[u] = locks[u] /\ row'[u] = row[u] /\ before'[u] = before[u]
  <2>1. asked' = asked
    BY <1>4 DEF SetStep, Enter, Prepare, Commit, Undo, Cleanup, Answer
  <2>2. pc'[u] = pc[u] /\ at'[u] = at[u]
    <3>1. CASE Answer(s)
      BY <1>1, <3>1 DEF Answer, Goto, TypeInv
    <3>2. CASE ~Answer(s)
      <4>1. \E label \in SetLabels : Phase(s, label) \/ NextBinding(s, label)
        BY <1>4, <3>2 DEF SetStep, Enter, Prepare, Prepared, Refuse, Commit, Undo, Cleanup, SetLabels
      <4> QED BY <4>1, SetMoves
    <3> QED BY <3>1, <3>2
  <2>3. locks'[u] = locks[u]
    BY <1>1, <1>4
       DEF SetStep, Enter, Prepare, TakeLock, Commit, Undo, Cleanup, Unlock, Answer, TypeInv, setVars
  <2>4. row'[u] = row[u] /\ before'[u] = before[u]
    BY <1>4
       DEF SetStep, Enter, Prepare, TakeLock, Commit, Undo, Cleanup, Answer, HistoryTypes, setVars
  <2> QED BY <2>1, <2>2, <2>3, <2>4
<1>5. ASSUME NEW s \in Sets, SetStep(s) PROVE asked' = asked
  BY <1>5 DEF SetStep, Enter, Prepare, Commit, Undo, Cleanup, Answer
<1> QED BY <1>2, <1>3, <1>4, <1>5 DEF Next

(* The copies and what a SET found keep their types. *)
LEMMA HistoryStep ==
    ASSUME IInv, HistoryTypes, [Next]_vars
    PROVE  HistoryTypes'
<1>1. CASE UNCHANGED vars
  BY <1>1 DEF vars, setVars, HistoryTypes
<1>2. CASE UNCHANGED <<row, before>>
  BY <1>2 DEF HistoryTypes
<1>3. ASSUME NEW s \in Sets, SetStep(s) PROVE HistoryTypes'
  <2>1. CASE Prepare(s)
    <3>1. DOMAIN row' = DOMAIN row
      BY <2>1 DEF Prepare, setVars
    <3>2. CASE before' = before
      BY <3>1, <3>2 DEF HistoryTypes
    <3>3. CASE Entry(s) \in Leaves
               /\ before' = [before EXCEPT ![s][Entry(s)] = value[Entry(s)]]
      <4>1. value[Entry(s)] \in Sets \cup {Initial}
        BY <3>3 DEF IInv, TypeInv
      <4> QED BY <3>1, <3>3, <4>1 DEF HistoryTypes
    <3> QED BY <2>1, <3>2, <3>3 DEF Prepare, TakeLock, setVars
  <2>2. CASE ~Prepare(s)
    BY <1>2, <1>3, <2>2 DEF SetStep, Enter, Commit, Undo, Cleanup, Answer, setVars
  <2> QED BY <2>1, <2>2
<1> QED BY <1>1, <1>2, <1>3, OthersStay

\* The lists of all SETs stay in order.
LEMMA OrderedStep ==
    ASSUME RowsLast, IInv, Owned, HistoryTypes, \A s \in Sets : Ordered(s), [Next]_vars
    PROVE  \A s \in Sets : Ordered(s)'
<1>1. CASE UNCHANGED vars
  BY <1>1 DEF vars, setVars, Ordered, Ready
<1>2. CASE /\ UNCHANGED <<locks, row>>
           /\ \A s \in Sets : pc'[s] = pc[s] /\ at'[s] = at[s] /\ asked'[s] = asked[s]
  BY <1>2, OrderedSame
<1>3. ASSUME NEW s \in Sets, SetStep(s), asked' = asked,
             \A u \in Sets \ {s} : /\ pc'[u] = pc[u] /\ at'[u] = at[u]
                                   /\ locks'[u] = locks[u] /\ row'[u] = row[u],
             NEW u \in Sets
      PROVE  Ordered(u)'
  <2>1. CASE u = s
    BY <1>3, <2>1, OrderedPrepare, OrderedPhase DEF SetStep
  <2>2. CASE u # s
    BY <1>3, <2>2, OrderedSame
  <2> QED BY <2>1, <2>2
<1> QED BY <1>1, <1>2, <1>3, OthersStay

(* A copy has its SET as long as that stays where it is. *)
LEMMA CopiedSame ==
    ASSUME NEW x \in Leaves, Copied(x), undo'[x] = undo[x],
           \A s \in Sets : pc[s] \in {"commit", "undo", "cleanup"} =>
               pc'[s] = pc[s] /\ at'[s] = at[s] /\ locks'[s] = locks[s]
    PROVE  Copied(x)'
BY DEF Copied

\* Copies are made by a commit, and gone when their SET is done.
LEMMA CopiedSet ==
    ASSUME Restorable, NEW s \in Sets, SetStep(s), NEW x \in Leaves,
           \A u \in Sets \ {s} : pc'[u] = pc[u] /\ at'[u] = at[u] /\ locks'[u] = locks[u]
    PROVE  Copied(x)'
<1> DEFINE i == at[s]
           e == locks[s][i]
<1> USE NoOneIsNobody
<1>1. IInv /\ Owned /\ Ordered(s) /\ Copied(x) /\ TypeInv /\ x # NoOne
  BY DEF Restorable, IInv, Entries
<1>2. CASE Enter(s) \/ Prepare(s) \/ Answer(s)
  <2>1. undo' = undo /\ pc[s] \notin {"commit", "undo", "cleanup"}
    BY <1>2 DEF Enter, Prepare, Answer
  <2> QED BY <1>1, <2>1, CopiedSame
<1>3. CASE Commit(s)
  <2>1. /\ pc[s] = "commit" /\ locks' = locks /\ i \in 1 .. Len(locks[s]) /\ i \in Nat
        /\ \/ pc'[s] = "commit" /\ at'[s] = i + 1
           \/ pc'[s] \in {"cleanup", "undo"}
    <3>1. pc[s] = "commit" /\ locks' = locks
      BY <1>3 DEF Commit
    <3>2. i \in 1 .. Len(locks[s]) /\ i \in Nat
      BY <1>1, <3>1, SetShape DEF AtBinding
    <3> QED BY <1>1, <1>3, <3>1, <3>2, SetMoves DEF Commit
  <2>2. undo'[x] = undo[x] \/ x = e
    BY <1>3 DEF Commit
  <2>3. CASE x = e
    <3>1. i \in 1 .. Len(locks'[s]) /\ locks'[s][i] = x
      BY <2>1, <2>3
    <3>2. (pc'[s] = "commit" /\ i < at'[s]) \/ pc'[s] \in {"undo", "cleanup"}
      BY <2>1
    <3> QED BY <3>1, <3>2 DEF Copied
  <2>4. CASE undo'[x] = undo[x]
    <3> SUFFICES ASSUME undo[x] # NoOne PROVE Copied(x)'
      BY <2>4 DEF Copied
    <3>0. PICK u \in Sets : \E k \in 1 .. Len(locks[u]) :
             /\ locks[u][k] = x
             /\ (pc[u] = "commit" /\ k < at[u]) \/ pc[u] \in {"undo", "cleanup"}
      BY <1>1 DEF Copied
    <3>1. PICK k \in 1 .. Len(locks[u]) :
             /\ locks[u][k] = x
             /\ (pc[u] = "commit" /\ k < at[u]) \/ pc[u] \in {"undo", "cleanup"}
      BY <3>0
    <3>2. (pc'[u] = "commit" /\ k < at'[u]) \/ pc'[u] \in {"undo", "cleanup"}
      <4>1. CASE u = s
        BY <2>1, <3>1, <4>1
      <4>2. CASE u # s
        BY <3>1, <4>2
      <4> QED BY <4>1, <4>2
    <3> QED BY <2>1, <3>1, <3>2 DEF Copied
  <2> QED BY <2>2, <2>3, <2>4
<1>4. CASE Undo(s) \/ Cleanup(s)
  <2>1. /\ pc[s] \in {"undo", "cleanup"} /\ Len(locks[s]) = Len(asked[s])
        /\ i \in 1 .. Len(locks[s]) /\ i \in Nat /\ Len(locks[s]) \in Nat
    BY <1>1, <1>4, SetShape DEF Undo, Cleanup, AtBinding
  <2>2. \/ UNCHANGED <<undo, locks>> /\ e = NoOne
        \/ undo' = ForLeaf(undo, e, NoOne) /\ Unlock(s)
    BY <1>4 DEF Undo, Cleanup
  <2>3. SUFFICES ASSUME undo'[x] # NoOne PROVE Copied(x)'
    BY DEF Copied
  <2>4. undo[x] # NoOne /\ x # e
    BY <1>1, <2>2, <2>3 DEF ForLeaf
  <2>0. PICK u \in Sets : \E k \in 1 .. Len(locks[u]) :
           /\ locks[u][k] = x
           /\ (pc[u] = "commit" /\ k < at[u]) \/ pc[u] \in {"undo", "cleanup"}
    BY <1>1, <2>4 DEF Copied
  <2>5. PICK k \in 1 .. Len(locks[u]) :
           /\ locks[u][k] = x
           /\ (pc[u] = "commit" /\ k < at[u]) \/ pc[u] \in {"undo", "cleanup"}
    BY <2>0
  <2>6. CASE u # s
    BY <2>5, <2>6 DEF Copied
  <2>7. CASE u = s
    <3>1. Len(locks'[s]) = Len(locks[s]) /\ locks'[s][k] = x
      BY <1>1, <2>1, <2>2, <2>4, <2>5, <2>7, UnlockShape
    <3>2. k > i
      <4>1. k >= i
        BY <1>1, <2>1, <2>5, <2>7 DEF Ordered
      <4> QED BY <2>1, <2>4, <2>5, <2>7, <4>1
    <3>3. pc[s] = "cleanup" => e # NoOne
      BY <1>1, <2>1, <2>5, <2>7, <3>2 DEF Ordered
    <3>4. NextBinding(s, "answer") /\ i # Len(asked[s])
      BY <1>4, <2>1, <2>5, <2>7, <3>2, <3>3 DEF Undo, Cleanup
    <3>5. pc'[s] = pc[s]
      BY <1>1, <3>4, SetMoves
    <3> QED BY <2>1, <2>5, <2>7, <3>1, <3>5 DEF Copied
  <2> QED BY <2>6, <2>7
<1> QED BY <1>2, <1>3, <1>4 DEF SetStep

\* No step leaves a copy without its SET.
LEMMA CopiedStep ==
    ASSUME Restorable, [Next]_vars, NEW x \in Leaves
    PROVE  Copied(x)'
<1>1. IInv /\ HistoryTypes /\ Copied(x)
  BY DEF Restorable
<1>2. CASE UNCHANGED vars
  BY <1>1, <1>2, CopiedSame DEF vars, setVars
<1>3. CASE UNCHANGED <<undo, locks>> /\ \A s \in Sets : pc'[s] = pc[s] /\ at'[s] = at[s]
  BY <1>1, <1>3, CopiedSame
<1> QED BY <1>1, <1>2, <1>3, CopiedSet, OthersStay

(* A step that leaves a leaf and its copy alone, and gives it to nobody new. *)
LEMMA RecordedSame ==
    ASSUME NEW s \in Sets, NEW x \in Leaves, Recorded(s, x),
           owner'[x] = s => owner[x] = s,
           value'[x] = value[x], undo'[x] = undo[x], before'[s] = before[s],
           pc'[s] \in {"enter", "prepare", "commit", "undo"} =>
               pc[s] \in {"enter", "prepare", "commit", "undo"}
    PROVE  Recorded(s, x)'
BY DEF Recorded

(* The entry a SET commits, undoes or cleans up is its own. *)
LEMMA OwnEntry ==
    ASSUME IInv, Owned, NEW s \in Sets, pc[s] \in {"commit", "undo", "cleanup"},
           locks[s][at[s]] # NoOne
    PROVE  owner[locks[s][at[s]]] = s
BY SetShape DEF Owned, AtBinding

\* Prepare records what it finds.
LEMMA RecordedPrepare ==
    ASSUME Restorable, NEW t \in Sets, Prepare(t), NEW s \in Sets, NEW x \in Leaves,
           s # t => pc'[s] = pc[s] /\ before'[s] = before[s]
    PROVE  Recorded(s, x)'
<1> USE NoOneIsNobody DEF Threads, Requests
<1>1. IInv /\ Owned /\ HistoryTypes /\ Copied(x) /\ Recorded(s, x) /\ TypeInv
      /\ x \in Entries /\ x # NoOne
  BY DEF Restorable, IInv, Entries
<1>2. UNCHANGED <<value, undo>> /\ pc[t] = "prepare" /\ Entry(t) \in Entries
  BY <1>1, EntryType DEF Prepare, AtBinding
<1>3. \/ UNCHANGED <<owner, before>>
      \/ TakeLock(t)
  BY DEF Prepare, setVars
<1>4. CASE UNCHANGED <<owner, before>>
  BY <1>1, <1>2, <1>4, RecordedSame
<1>5. CASE TakeLock(t) /\ owner[Entry(t)] = t
  <2>1. owner'[x] = owner[x] /\ before' = before
    BY <1>1, <1>5 DEF TakeLock, TypeInv
  <2> QED BY <1>1, <1>2, <2>1, RecordedSame
<1>6. CASE TakeLock(t) /\ owner[Entry(t)] = NoOne
  <2>1. CASE x # Entry(t)
    <3>1. owner'[x] = owner[x]
      BY <1>1, <1>2, <1>6, <2>1 DEF TakeLock, TypeInv
    <3>2. before'[s][x] = before[s][x]
      BY <1>1, <1>2, <1>6, <2>1 DEF TakeLock, HistoryTypes
    <3>3. pc'[s] = pc[s] \/ pc[s] = "prepare"
      BY <1>2
    <3> QED BY <1>1, <1>2, <3>1, <3>2, <3>3 DEF Recorded
  <2>2. CASE x = Entry(t)
    <3>1. owner'[x] = t
      BY <1>1, <1>6, <2>2 DEF TakeLock, TypeInv
    <3>2. before'[t][x] = value[x]
      BY <1>1, <1>6, <2>2 DEF TakeLock, HistoryTypes
    <3>3. undo[x] = NoOne
      BY <1>1, <1>6, <2>2 DEF Copied, Owned
    <3> QED BY <1>2, <3>1, <3>2, <3>3 DEF Recorded
  <2> QED BY <2>1, <2>2
<1> QED BY <1>3, <1>4, <1>5, <1>6 DEF TakeLock

\* A commit copies what was recorded; the leaf had no copy yet.
LEMMA RecordedCommit ==
    ASSUME OneBindingPerLeaf, Restorable, NEW t \in Sets, Commit(t), NEW s \in Sets,
           NEW x \in Leaves, s # t => pc'[s] = pc[s]
    PROVE  Recorded(s, x)'
<1> DEFINE i == at[t]
           e == locks[t][i]
<1> USE NoOneIsNobody, InitialIsNobody DEF Threads, Requests
<1>1. IInv /\ Owned /\ HistoryTypes /\ Copied(x) /\ Recorded(s, x) /\ TypeInv
      /\ x \in Entries /\ x # NoOne
  BY DEF Restorable, IInv, Entries
<1>2. /\ pc[t] = "commit" /\ UNCHANGED <<owner, before>>
      /\ i \in 1 .. Len(locks[t]) /\ i \in Nat
      /\ pc'[s] \in {"enter", "prepare", "commit", "undo"} =>
            pc[s] \in {"enter", "prepare", "commit", "undo"}
  BY <1>1, SetShape DEF Commit, AtBinding
<1>3. CASE x # e \/ i \in done[t]
  <2>1. value'[x] = value[x] /\ undo'[x] = undo[x]
    BY <1>1, <1>3 DEF Commit, ForLeaf, TypeInv
  <2> QED BY <1>1, <1>2, <2>1, RecordedSame
<1>4. CASE x = e /\ i \notin done[t]
  <2>1. undo'[x] = value[x] /\ value[x] # NoOne
    BY <1>1, <1>4 DEF Commit, TypeInv
  <2>2. owner[x] = t
    BY <1>1, <1>2, <1>4, OwnEntry
  <2>3. ASSUME undo[x] # NoOne PROVE FALSE
    <3>1. PICK u \in Sets : \E k \in 1 .. Len(locks[u]) :
             /\ locks[u][k] = x
             /\ (pc[u] = "commit" /\ k < at[u]) \/ pc[u] \in {"undo", "cleanup"}
      BY <1>1, <2>3 DEF Copied
    <3>2. PICK k \in 1 .. Len(locks[u]) :
             /\ locks[u][k] = x
             /\ (pc[u] = "commit" /\ k < at[u]) \/ pc[u] \in {"undo", "cleanup"}
      BY <3>1
    <3>3. u = t /\ k = i
      BY <1>1, <1>2, <1>4, <3>2, OneWriter
    <3> QED BY <1>2, <3>2, <3>3
  <2> QED BY <1>1, <1>2, <2>1, <2>2, <2>3 DEF Recorded
<1> QED BY <1>3, <1>4

\* Undoing takes the copy back, and the others have not the leaf.
LEMMA RecordedUnlock ==
    ASSUME Restorable, NEW t \in Sets, Undo(t) \/ Cleanup(t), NEW s \in Sets,
           NEW x \in Leaves, s # t => pc'[s] = pc[s]
    PROVE  Recorded(s, x)'
<1> DEFINE i == at[t]
           e == locks[t][i]
<1> USE NoOneIsNobody DEF Threads, Requests
<1>1. IInv /\ Owned /\ Recorded(s, x) /\ TypeInv /\ x \in Entries /\ x # NoOne
  BY DEF Restorable, IInv, Entries
<1>2. /\ pc[t] \in {"undo", "cleanup"} /\ UNCHANGED before
      /\ pc'[t] \in {pc[t], "answer"}
      /\ i \in 1 .. Len(locks[t]) /\ locks[t] \in Seq(Entries \cup {NoOne})
  BY <1>1, SetShape, SetMoves DEF Undo, Cleanup, AtBinding
<1>3. CASE e = NoOne
  <2>1. UNCHANGED <<value, undo, owner>>
    BY <1>3 DEF Undo, Cleanup
  <2> QED BY <1>1, <1>2, <2>1, RecordedSame
<1>4. CASE e # NoOne
  <2>1. /\ undo' = ForLeaf(undo, e, NoOne)
        /\ \A y \in Entries : owner'[y] = owner[y] \/ (y = e /\ owner'[y] = NoOne)
    BY <1>1, <1>2, <1>4 DEF Undo, Cleanup, Unlock, TypeInv
  <2>2. /\ pc[t] = "cleanup" => value' = value
        /\ pc[t] = "undo" => value' = [y \in Leaves |->
                                          IF y = e /\ undo[y] # NoOne THEN undo[y] ELSE value[y]]
    BY <1>4 DEF Undo, Cleanup
  <2>3. CASE x # e
    <3>1. value'[x] = value[x] /\ undo'[x] = undo[x] /\ owner'[x] = owner[x]
      BY <1>1, <1>2, <2>1, <2>2, <2>3 DEF ForLeaf, TypeInv
    <3>2. pc'[s] = pc[s] \/ pc'[s] = "answer"
      BY <1>2
    <3> QED BY <1>1, <1>2, <3>1, <3>2, RecordedSame
  <2>4. CASE x = e
    <3>1. owner[x] = t
      BY <1>1, <1>2, <1>4, <2>4, OwnEntry
    <3>2. owner'[x] = s => s = t
      BY <1>1, <2>1, <3>1
    <3>3. undo'[x] = NoOne
      BY <2>1, <2>4 DEF ForLeaf
    <3>4. pc[t] = "undo" => value'[x] = IF undo[x] # NoOne THEN undo[x] ELSE value[x]
      BY <2>2, <2>4
    <3> QED BY <1>1, <1>2, <3>1, <3>2, <3>3, <3>4 DEF Recorded
  <2> QED BY <2>3, <2>4
<1> QED BY <1>3, <1>4

\* All actions together.
LEMMA RecordedStep ==
    ASSUME OneBindingPerLeaf, Restorable, [Next]_vars, NEW s \in Sets, NEW x \in Leaves
    PROVE  Recorded(s, x)'
<1> USE KindsDiffer, NoOneIsNobody DEF Threads, Requests
<1>1. IInv /\ HistoryTypes /\ Recorded(s, x) /\ TypeInv /\ x \in Entries
  BY DEF Restorable, IInv, Entries
<1>2. CASE UNCHANGED vars
  BY <1>1, <1>2, RecordedSame DEF vars, setVars
<1>3. CASE /\ UNCHANGED <<value, undo, before>> /\ pc'[s] = pc[s]
           /\ (\E g \in Gets : GetStep(g)) \/ owner' = owner
  <2>1. owner'[x] = s => owner[x] = s
    BY <1>1, <1>3 DEF GetStep, Find, LockEntry, Read, Answer, TypeInv
  <2> QED BY <1>1, <1>3, <2>1, RecordedSame
<1>4. ASSUME NEW t \in Sets, SetStep(t), s # t => pc'[s] = pc[s] /\ before'[s] = before[s]
      PROVE  Recorded(s, x)'
  <2>1. CASE Enter(t)
    <3>1. UNCHANGED <<value, undo, owner, before>> /\ pc[t] = "enter"
      BY <2>1 DEF Enter, setVars
    <3> QED BY <1>1, <1>4, <3>1, RecordedSame
  <2>2. CASE Answer(t)
    <3>1. UNCHANGED <<value, undo, before>> /\ pc'[t] = "answered"
          /\ owner'[x] \in {owner[x], NoOne}
      BY <1>1, <2>2 DEF Answer, Goto, TypeInv
    <3> QED BY <1>1, <1>4, <3>1, RecordedSame
  <2> QED BY <1>4, <2>1, <2>2, RecordedPrepare, RecordedCommit, RecordedUnlock DEF SetStep
<1> QED BY <1>1, <1>2, <1>3, <1>4, OthersStay

(* The initial state: no lock, no copy, and nothing found yet. *)
LEMMA RestorableInit == Init => Restorable
<1> SUFFICES ASSUME Init PROVE Restorable
  OBVIOUS
<1> USE NoOneIsNobody, KindsDiffer DEF Threads, Requests
<1>1. PICK reads \in [Gets -> Reads], writes \in [Sets -> Writes] :
        /\ asked = [t \in Threads |-> CASE t \in Gets -> reads[t]
                                        [] t \in Sets -> writes[t]
                                        [] OTHER -> <<>>]
        /\ locks = [s \in Sets |-> [i \in DOMAIN writes[s] |-> NoOne]]
        /\ row = [s \in Sets |-> [i \in DOMAIN writes[s] |-> {}]]
  BY DEF Init
<1>2. ASSUME NEW s \in Sets PROVE Ordered(s)
  <2>1. /\ writes[s] \in Seq(Entries) /\ asked[s] = writes[s]
        /\ pc[s] = "enter" /\ at[s] = 1
    BY <1>1, WritesOfEntries DEF Init
  <2>2. /\ row[s] = [i \in 1 .. Len(writes[s]) |-> {}] /\ Len(writes[s]) \in Nat
        /\ locks[s] = [i \in 1 .. Len(writes[s]) |-> NoOne]
    BY <1>1, <2>1
  <2>3. /\ row[s] \in Seq(SUBSET Nat) /\ Len(row[s]) = Len(writes[s])
        /\ Len(locks[s]) = Len(writes[s]) /\ Ready(s) = {}
    BY <2>2 DEF Ready
  <2> QED BY <2>1, <2>2, <2>3 DEF Ordered
<1>3. /\ HistoryTypes
      /\ \A x \in Leaves : Copied(x)
      /\ \A s \in Sets, x \in Leaves : Recorded(s, x)
  BY <1>1 DEF Init, HistoryTypes, Copied, Recorded, Entries
<1> QED BY <1>2, <1>3, InitInv, InitOwned DEF Restorable

(* A SET that gives up a leaf while it is being undone leaves in it what it  *)
(* found, whatever the others do meanwhile (except freeing it in             *)
(* remove_group): as long as no SET names a leaf twice or creates a row      *)
(* before it comes to a leaf (mib.cpp, MibLeaf::set and undo_set_request).   *)
THEOREM RollbackCorrect ==
    ASSUME OneBindingPerLeaf, RowsLast
    PROVE  Spec => RollbackRestores
<1> USE KindsDiffer, NoOneIsNobody DEF Threads, Requests
<1>1. Restorable /\ [Next]_vars => Restorable'
  BY StepInv, OwnedStep, HistoryStep, OrderedStep, CopiedStep, RecordedStep DEF Restorable
<1>2. ASSUME Restorable, [Next]_vars, NEW s \in Sets, NEW x \in Leaves,
             pc[s] = "undo", owner[x] = s, owner'[x] # s
      PROVE  value'[x] = before[s][x]
  <2>1. IInv /\ Owned /\ HistoryTypes /\ Recorded(s, x) /\ TypeInv /\ x \in Entries
    BY <1>2 DEF Restorable, IInv, Entries
  <2>2. before[s][x] = IF undo[x] = NoOne THEN value[x] ELSE undo[x]
    BY <1>2, <2>1 DEF Recorded
  <2>3. ASSUME NEW g \in Gets, GetStep(g) PROVE FALSE
    <3>1. CASE Read(g)
      <4>1. owner[Entry(g)] = g
        BY <2>1, <3>1 DEF Read, Owned
      <4> QED BY <1>2, <2>1, <3>1, <4>1 DEF Read, TypeInv
    <3>2. CASE ~Read(g)
      BY <1>2, <2>1, <2>3, <3>2 DEF GetStep, Find, LockEntry, Answer, TypeInv
    <3> QED BY <3>1, <3>2
  <2>4. ASSUME NEW t \in Sets, SetStep(t)
        PROVE  value'[x] = before[s][x]
    <3>1. ~Enter(t) /\ ~Commit(t)
      BY <1>2 DEF Enter, Commit
    <3>2. ~Answer(t)
      BY <1>2, <2>1 DEF Answer, TypeInv
    <3>3. ~Prepare(t)
      BY <1>2, <2>1 DEF Prepare, TakeLock, TypeInv
    <3>4. Undo(t) \/ Cleanup(t)
      BY <2>4, <3>1, <3>2, <3>3 DEF SetStep
    <3>5. locks[t][at[t]] # NoOne /\ x = locks[t][at[t]]
      BY <1>2, <2>1, <3>4 DEF Undo, Cleanup, Unlock, TypeInv
    <3>6. t = s
      BY <1>2, <2>1, <3>4, <3>5, OwnEntry DEF Undo, Cleanup
    <3>7. value'[x] = IF undo[x] # NoOne THEN undo[x] ELSE value[x]
      BY <1>2, <3>4, <3>5, <3>6 DEF Undo, Cleanup
    <3> QED BY <2>2, <3>7
  <2> QED BY <1>2, <2>1, <2>3, <2>4, OthersStay DEF vars
<1>3. Restorable /\ [Next]_vars => [\A s \in Sets, x \in Leaves : UndoneLeaf(s, x)]_vars
  BY <1>2 DEF UndoneLeaf
<1> QED BY <1>1, <1>3, RestorableInit, PTL DEF Spec, RollbackRestores
--------------------------------------------------------------------------------
(* Deadlock.  Who has a lock is at a label that gives it back, except the    *)
(* two at which the MIB stays locked for ever or nothing more is known.      *)
MibLabels == {"lock", "prepare", "strip", "reclaim", "unlink", "delete", "leaked", "lost"}

Holders ==
    /\ mib # NoOne => pc[mib] \in MibLabels
    /\ \A e \in Entries : owner[e] \in Gets => pc[owner[e]] = "read" /\ Entry(owner[e]) = e
    /\ \A e \in Entries : owner[e] \in Sets =>
          pc[owner[e]] \in {"prepare", "commit", "undo", "cleanup", "answer"}

USE DEF MibLabels

(* A thread t that cannot go on waits for u: u has the MIB that t looks its  *)
(* entry up in, or the entry that t locks.  Only a SET may have that already *)
(* (Request::set_locked).                                                    *)
WaitsFor(t, u) ==
    \/ pc[t] \in {"find", "enter"} /\ mib = u
    \/ pc[t] \in {"lock", "reclaim", "unlink"} /\ owner[Entry(t)] = u
    \/ pc[t] = "prepare" /\ owner[Entry(t)] = u /\ u # t

(* A thread that has something to do and waits for nobody.                   *)
Working(t) ==
    /\ pc[t] \notin {"idle", "answered", "removed", "leaked", "lost"}
    /\ \A u \in Threads : ~WaitsFor(t, u)

(* Nobody waits in a circle: the thread that one waits for works, or waits   *)
(* for one that works.  The exceptions are remove() from no context, and of  *)
(* a group with an entry that was deleted before.                            *)
WaitsEnd ==
    \A t, u \in Threads : WaitsFor(t, u) =>
        \/ Working(u)
        \/ \E v \in Threads : WaitsFor(u, v) /\ Working(v)
        \/ pc[u] \in {"leaked", "lost"}

(* A step of t that takes no lock without going where it is given back.      *)
LEMMA HoldersOther ==
    ASSUME IInv, Holders, NEW t \in Threads,
           \A u \in Threads \ {t} : pc'[u] = pc[u] /\ at'[u] = at[u] /\ asked'[u] = asked[u],
           mib' \in {NoOne, mib, t},
           mib' = t => pc'[t] \in MibLabels,
           \A e \in Entries : owner'[e] \in {NoOne, owner[e], t},
           \A e \in Entries : owner'[e] = t =>
               \/ t \in Gets /\ pc'[t] = "read" /\ Entry(t)' = e
               \/ t \in Sets /\ pc'[t] \in {"prepare", "commit", "undo", "cleanup", "answer"}
    PROVE  Holders'
<1> USE KindsDiffer, NoOneIsNobody DEF Threads, Requests
<1>1. mib' # NoOne => pc'[mib'] \in MibLabels
  <2>1. mib \in Threads \cup {NoOne}
    BY DEF IInv, TypeInv
  <2> QED BY <2>1 DEF Holders
<1>2. ASSUME NEW e \in Entries, owner'[e] \in Gets
      PROVE  pc'[owner'[e]] = "read" /\ Entry(owner[e])' = e
  <2>1. CASE owner'[e] = t
    BY <1>2, <2>1 DEF Entry
  <2>2. CASE owner'[e] # t
    <3>1. owner'[e] = owner[e] /\ owner[e] \in Threads \ {t}
      BY <1>2, <2>2
    <3>2. pc[owner[e]] = "read" /\ Entry(owner[e]) = e
      BY <1>2, <3>1 DEF Holders
    <3> QED BY <3>1, <3>2 DEF Entry
  <2> QED BY <2>1, <2>2
<1>3. ASSUME NEW e \in Entries, owner'[e] \in Sets
      PROVE  pc'[owner'[e]] \in {"prepare", "commit", "undo", "cleanup", "answer"}
  <2>1. CASE owner'[e] = t
    BY <1>3, <2>1
  <2>2. CASE owner'[e] # t
    <3>1. owner'[e] = owner[e] /\ owner[e] \in Threads \ {t}
      BY <1>3, <2>2
    <3> QED BY <1>3, <3>1 DEF Holders
  <2> QED BY <2>1, <2>2
<1> QED BY <1>1, <1>2, <1>3 DEF Holders

\* The steps of a GET.
LEMMA HoldersGet ==
    ASSUME IInv, Holders, NEW g \in Gets, Find(g) \/ LockEntry(g) \/ Read(g)
    PROVE  Holders'
<1> USE KindsDiffer, NoOneIsNobody DEF Threads, Requests
<1>1. TypeInv /\ MibHeld
  BY DEF IInv
<1>2. asked' = asked /\ \A u \in Threads \ {g} : pc'[u] = pc[u] /\ at'[u] = at[u]
  BY <1>1 DEF Find, LockEntry, Read, GetNext, Goto, TypeInv
<1>3. \A e \in Entries : owner[e] = g => pc[g] = "read" /\ Entry(g) = e
  BY DEF Holders
<1>4. mib = g => pc[g] \in MibLabels
  BY DEF Holders
<1>5. CASE Find(g)
  <2>1. owner' = owner /\ pc[g] = "find" /\ (mib' = NoOne \/ (mib' = g /\ pc'[g] = "lock"))
    BY <1>1, <1>5 DEF Find, Goto, TypeInv
  <2> QED BY <1>2, <1>3, <2>1, HoldersOther
<1>6. CASE LockEntry(g)
  <2>1. /\ pc[g] = "lock" /\ pc'[g] = "read" /\ at' = at /\ Entry(g) \in Entries
        /\ owner' = [owner EXCEPT ![Entry(g)] = g]
    BY <1>1, <1>6, EntryType DEF LockEntry, Goto, TypeInv, AtBinding
  <2>2. mib' = NoOne
    BY <1>1, <1>6, <2>1 DEF LockEntry, MibHeld
  <2>3. \A e \in Entries : owner'[e] = IF e = Entry(g) THEN g ELSE owner[e]
    BY <1>1, <2>1 DEF TypeInv
  <2>4. Entry(g)' = Entry(g)
    BY <1>2, <2>1 DEF Entry
  <2> QED BY <1>2, <1>3, <2>1, <2>2, <2>3, <2>4, HoldersOther
<1>7. CASE Read(g)
  <2>1. /\ pc[g] = "read" /\ mib' = mib /\ Entry(g) \in Entries
        /\ owner' = [owner EXCEPT ![Entry(g)] = NoOne]
    BY <1>7, EntryType DEF Read, AtBinding
  <2>2. \A e \in Entries : owner'[e] = IF e = Entry(g) THEN NoOne ELSE owner[e]
    BY <1>1, <2>1 DEF TypeInv
  <2>3. mib' # g /\ \A e \in Entries : owner'[e] # g
    BY <1>3, <1>4, <2>1, <2>2
  <2> QED BY <1>2, <2>1, <2>2, <2>3, HoldersOther
<1> QED BY <1>5, <1>6, <1>7

\* The end of a request.
LEMMA HoldersAnswer ==
    ASSUME IInv, Holders, NEW r \in Requests, Answer(r)
    PROVE  Holders'
<1> USE KindsDiffer, NoOneIsNobody DEF Threads, Requests
<1>1. /\ asked' = asked /\ mib' = mib /\ pc[r] = "answer"
      /\ \A u \in Threads \ {r} : pc'[u] = pc[u] /\ at'[u] = at[u]
  BY DEF Answer, Goto, IInv, TypeInv
<1>2. \A e \in Entries : owner'[e] = IF owner[e] = r THEN NoOne ELSE owner[e]
  BY DEF Answer
<1>3. mib # r
  BY <1>1 DEF Holders
<1> QED BY <1>1, <1>2, <1>3, HoldersOther
\* The phases of a SET.
LEMMA HoldersSet ==
    ASSUME IInv, Holders, NEW s \in Sets,
           Enter(s) \/ Prepare(s) \/ Commit(s) \/ Undo(s) \/ Cleanup(s)
    PROVE  Holders'
<1> USE KindsDiffer, NoOneIsNobody DEF Threads, Requests
<1> DEFINE Locking == {"prepare", "commit", "undo", "cleanup", "answer"}
<1>1. TypeInv /\ MibHeld /\ s \notin Gets
  BY DEF IInv
<1>2. \A e \in Entries : owner[e] = s => pc[s] \in Locking
  BY DEF Holders
<1>3. mib = s => pc[s] \in MibLabels
  BY DEF Holders
<1>4. asked' = asked
  BY DEF Enter, Prepare, Commit, Undo, Cleanup
<1>5. ASSUME NEW label, Phase(s, label) \/ NextBinding(s, label)
      PROVE  /\ \A u \in Threads \ {s} : pc'[u] = pc[u] /\ at'[u] = at[u]
             /\ pc'[s] \in {pc[s], label} /\ (Phase(s, label) => pc'[s] = label)
             /\ NextBinding(s, label) /\ AtLast(s) => pc'[s] = label
             /\ NextBinding(s, label) /\ ~AtLast(s) => pc'[s] = pc[s]
  BY <1>5, SetMoves DEF AtLast
<1>6. CASE Enter(s)
  <2>1. pc[s] = "enter" /\ mib' = s /\ owner' = owner /\ Phase(s, "prepare")
    BY <1>6 DEF Enter
  <2>2. pc'[s] = "prepare" /\ \A u \in Threads \ {s} : pc'[u] = pc[u] /\ at'[u] = at[u]
    BY <1>5, <2>1
  <2>3. \A e \in Entries : owner'[e] # s
    BY <1>2, <2>1
  <2> QED BY <1>4, <2>1, <2>2, <2>3, HoldersOther
<1>7. CASE Prepare(s)
  <2>1. pc[s] = "prepare" /\ mib = s
    BY <1>1, <1>7 DEF Prepare, MibHeld
  <2>2. \/ mib' = NoOne /\ Phase(s, "cleanup")
        \/ NextBinding(s, "commit") /\ mib' = IF AtLast(s) THEN NoOne ELSE mib
    BY <1>7 DEF Prepare, Refuse, Prepared
  <2>3. /\ \A u \in Threads \ {s} : pc'[u] = pc[u] /\ at'[u] = at[u]
        /\ pc'[s] \in Locking
        /\ mib' \in {NoOne, s}
        /\ mib' = s => pc'[s] = "prepare"
    BY <1>5, <2>1, <2>2
  <2>4. owner' = owner \/ owner' = [owner EXCEPT ![Entry(s)] = s]
    BY <1>7 DEF Prepare, TakeLock
  <2>5. \A e \in Entries : owner'[e] \in {owner[e], s}
    BY <1>1, <2>4 DEF TypeInv
  <2> QED BY <1>4, <2>3, <2>5, HoldersOther
<1>8. CASE Commit(s) \/ Undo(s) \/ Cleanup(s)
  <2>1. mib' = mib /\ pc[s] \in {"commit", "undo", "cleanup"}
    BY <1>8 DEF Commit, Undo, Cleanup
  <2>2. \E label \in {"undo", "cleanup", "answer"} : Phase(s, label) \/ NextBinding(s, label)
    BY <1>8 DEF Commit, Undo, Cleanup
  <2>3. /\ \A u \in Threads \ {s} : pc'[u] = pc[u] /\ at'[u] = at[u]
        /\ pc'[s] \in Locking
    BY <1>5, <2>1, <2>2
  <2>4. owner' = owner \/ owner' = [owner EXCEPT ![locks[s][at[s]]] = NoOne]
    BY <1>8 DEF Commit, Undo, Cleanup, Unlock
  <2>5. \A e \in Entries : owner'[e] \in {owner[e], NoOne}
    BY <1>1, <2>4 DEF TypeInv
  <2>6. mib' # s
    BY <1>3, <2>1
  <2> QED BY <1>4, <2>1, <2>3, <2>5, <2>6, HoldersOther
<1> QED BY <1>6, <1>7, <1>8

\* The steps of a thread that removes entries.
LEMMA HoldersRemove ==
    ASSUME IInv, Holders, NEW m \in Removers,
           RemoveGroup(m) \/ RemoveFind(m) \/ Removal(m) \/ RemoveFromNoContext(m)
    PROVE  Holders'
<1> USE KindsDiffer, NoOneIsNobody DEF Threads, Requests
<1>1. TypeInv
  BY DEF IInv
<1>2. /\ owner' = owner
      /\ \A u \in Threads \ {m} : pc'[u] = pc[u] /\ at'[u] = at[u] /\ asked'[u] = asked[u]
  BY <1>1 DEF RemoveGroup, RemoveFind, Removal, Strip, Reclaim, NextEntry, Unlink, Delete,
          RemoveFromNoContext, Goto, TypeInv
<1>3. \A e \in Entries : owner'[e] # m
  BY <1>1, <1>2 DEF TypeInv
<1>4. mib' \in {NoOne, mib, m} /\ (mib' = m => pc'[m] \in MibLabels)
  BY <1>1 DEF RemoveGroup, RemoveFind, Removal, Strip, Reclaim, NextEntry, Unlink, Delete,
          RemoveFromNoContext, Goto, TypeInv
<1> QED BY <1>2, <1>3, <1>4, HoldersOther

\* Holders holds at the start and is kept by every step.
LEMMA HoldersInit == Init => Holders
<1> USE NoOneIsNobody DEF Threads, Requests
<1> QED BY DEF Init, Holders

LEMMA HoldersStep == IInv /\ Holders /\ [Next]_vars => Holders'
<1>1. ASSUME Holders, UNCHANGED vars PROVE Holders'
  BY <1>1 DEF vars, setVars, Holders, Entry
<1> QED
  BY <1>1, HoldersGet, HoldersSet, HoldersRemove, HoldersAnswer
  DEF Next, GetStep, SetStep, Requests

(* No circle of waiting can close, for any number of requests, of entries   *)
(* and of threads that remove them, although SETs lock their entries in any  *)
(* order and nobody ever times out: locks of entries are asked for by the    *)
(* holder of the MIB only, and who has one but not the MIB asks for nothing  *)
(* (mib.cpp 2876, 3280-3281, 3618-3666).  AgentAnswers rests on it.          *)
THEOREM NobodyWaitsInCircles == Spec => []WaitsEnd
<1>1. IInv /\ Holders => WaitsEnd
  <2> SUFFICES ASSUME IInv, Holders, NEW t \in Threads, NEW u \in Threads, WaitsFor(t, u)
               PROVE  \/ Working(u)
                      \/ \E v \in Threads : WaitsFor(u, v) /\ Working(v)
                      \/ pc[u] \in {"leaked", "lost"}
    BY DEF WaitsEnd
  <2> USE KindsDiffer, NoOneIsNobody DEF Threads, Requests
  <2>1. ASSUME NEW h \in Threads, NEW e \in Entries, owner[e] = h, mib # h
        PROVE  Working(h)
    <3>1. h \in Requests
      BY <2>1 DEF IInv, TypeInv
    <3>2. pc[h] \in {"read", "prepare", "commit", "undo", "cleanup", "answer"}
      BY <2>1, <3>1 DEF Holders
    <3>3. pc[h] # "prepare"
      BY <2>1 DEF IInv, MibHeld
    <3> QED BY <3>2, <3>3 DEF Working, WaitsFor
  <2>2. ASSUME NEW h \in Threads, pc[h] \in {"lock", "prepare", "reclaim", "unlink"}
        PROVE  mib = h /\ Entry(h) \in Entries /\ (owner[Entry(h)] = h => pc[h] = "prepare")
    <3>1. mib = h /\ Entry(h) \in Entries
      BY <2>2, EntryType DEF IInv, MibHeld, AtBinding
    <3>2. owner[Entry(h)] = h => h \in Requests
      BY <3>1 DEF IInv, TypeInv
    <3> QED BY <2>2, <3>1, <3>2 DEF Holders
  <2>3. CASE pc[t] \in {"lock", "prepare", "reclaim", "unlink"} /\ owner[Entry(t)] = u
             /\ (pc[t] = "prepare" => u # t)
    BY <2>1, <2>2, <2>3
  <2>4. CASE mib = u
    <3>1. pc[u] \in MibLabels
      BY <2>4 DEF Holders
    <3>2. CASE Working(u)
      BY <3>2
    <3>3. CASE ~Working(u) /\ pc[u] \notin {"leaked", "lost"}
      <4>1. PICK v \in Threads : WaitsFor(u, v)
        BY <3>1, <3>3 DEF Working
      <4>2. pc[u] \in {"lock", "prepare", "reclaim", "unlink"} /\ owner[Entry(u)] = v /\ v # u
        BY <2>2, <3>1, <4>1 DEF WaitsFor
      <4>3. Working(v)
        BY <2>1, <2>2, <2>4, <4>2
      <4> QED BY <4>1, <4>3
    <3> QED BY <3>2, <3>3
  <2> QED BY <2>3, <2>4 DEF WaitsFor
<1> QED BY <1>1, HoldersInit, HoldersStep, InductiveInvariant, PTL DEF Spec
================================================================================
