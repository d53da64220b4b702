------------------------------ MODULE Registers ------------------------------
(***************************************************************************)
(* The keys of the register (RegisterType in transaction/mod.rs) and the   *)
(* lifetime of the control blocks they stand for.  A BTreeMap is keyed by  *)
(* the Arcs of the control blocks and keeps them alive; with the feature   *)
(* hash-registers the map is keyed by their addresses and does not.        *)
(*                                                                         *)
(* One transaction, whose closure creates, uses and drops TVars.  TVars it *)
(* has from elsewhere may be created and dropped by others at any moment.  *)
(***************************************************************************)
EXTENDS FiniteSets

CONSTANTS TVar,           \* TVars; one that nothing refers to is used again
          Addr,           \* the addresses of control blocks
          Nil,            \* no TVar
          HashRegisters   \* the cargo feature

VARIABLES handles,  \* the TVars somebody has a handle of
          address,  \* address[v]: where the control block of v is, or was
          log,      \* log[a]: the TVar the entry with key a was made for, or Nil
          copy,     \* the register that a call of or has put aside
          pc        \* "closure", in "first" or "second" of or, or "commit"

vars == <<handles, address, log, copy, pc>>

NoLog == [a \in Addr |-> Nil]

TypeOK ==
  /\ handles \in SUBSET TVar
  /\ address \in [TVar -> Addr \cup {Nil}]
  /\ log \in [Addr -> TVar \cup {Nil}]
  /\ copy \in [Addr -> TVar \cup {Nil}]
  /\ pc \in {"closure", "first", "second", "commit"}

Init ==
  /\ handles = {} /\ address = [v \in TVar |-> Nil]
  /\ log = NoLog /\ copy = NoLog
  /\ pc = "closure"

-----------------------------------------------------------------------------
\* The TVars that are logged, in the register or in the one put aside.
Logged == {v \in TVar : \E a \in Addr : log[a] = v \/ copy[a] = v}

\* The Arcs that keep control blocks alive: handles, and keys of a BTreeMap.
Alive(v) == v \in handles \/ (~HashRegisters /\ v \in Logged)

InClosure == pc \in {"closure", "first", "second"}

\* TVar::new, at any address that is free, in any thread and at any moment.
New(v, a) ==
  /\ ~Alive(v) /\ v \notin Logged
  /\ \A w \in TVar : Alive(w) => address[w] # a
  /\ handles' = handles \cup {v}
  /\ address' = [address EXCEPT ![v] = a]
  /\ UNCHANGED <<log, copy, pc>>

\* The last handle of v goes, in the closure, at its end, or in another thread.
Drop(v) ==
  /\ v \in handles
  /\ handles' = handles \ {v}
  /\ UNCHANGED <<address, log, copy, pc>>

\* read, write, modify and exchange use the entry they find under the key.
Access(v) ==
  /\ InClosure /\ v \in handles /\ log[address[v]] = Nil
  /\ log' = [log EXCEPT ![address[v]] = v]
  /\ UNCHANGED <<handles, address, copy, pc>>

OrBegin ==
  /\ pc = "closure"
  /\ pc' = "first" /\ copy' = log
  /\ UNCHANGED <<handles, address, log>>

OrFirstOk ==
  /\ pc = "first"
  /\ pc' = "closure" /\ copy' = NoLog
  /\ UNCHANGED <<handles, address, log>>

OrFirstRetry ==
  /\ pc = "first"
  /\ pc' = "second" /\ log' = copy /\ copy' = log
  /\ UNCHANGED <<handles, address>>

\* combine moves those of the entries that were reads.
OrSecondDone(reads) ==
  /\ pc = "second"
  /\ log' = [a \in Addr |-> IF log[a] = Nil /\ a \in reads THEN copy[a] ELSE log[a]]
  /\ pc' = "closure" /\ copy' = NoLog
  /\ UNCHANGED <<handles, address>>

\* The closure has returned: commit or wait_for_change goes through the keys.
Return ==
  /\ pc = "closure"
  /\ pc' = "commit"
  /\ UNCHANGED <<handles, address, log, copy>>

\* The register is cleared, for the next attempt or with the transaction; in
\* the middle of the closure if this fails, aborts or panics.
Clear ==
  /\ pc' = "closure" /\ log' = NoLog /\ copy' = NoLog
  /\ UNCHANGED <<handles, address>>

Next ==
  \/ \E v \in TVar : Drop(v) \/ Access(v) \/ \E a \in Addr : New(v, a)
  \/ \E reads \in SUBSET Addr : OrSecondDone(reads)
  \/ OrBegin \/ OrFirstOk \/ OrFirstRetry \/ Return \/ Clear

Spec == Init /\ [][Next]_vars

-----------------------------------------------------------------------------
\* Every key is the address of the control block its entry was made for, and
\* this block is alive: commit and wait_for_change may follow it, and no other
\* TVar that is created meanwhile finds an entry that is not its own.
KeysValid ==
  \A r \in {log, copy} : \A a \in Addr :
    r[a] # Nil => Alive(r[a]) /\ address[r[a]] = a
=============================================================================
