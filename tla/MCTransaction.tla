--------------------------- MODULE MCTransaction ---------------------------
(***************************************************************************)
(* Constants for TLC: two TVars with values 0 and 1, two or three threads. *)
(***************************************************************************)
EXTENDS TransactionProps, FiniteSets, TLC

CONSTANTS t1, t2, t3, zero, one, nil

Two   == {t1, t2}
Three == {t1, t2, t3}
Bits  == {zero, one}

\* One Arc in the TVar, and for each thread one it loaded and one it wrote.
Addrs == 1 .. 1 + 2 * Cardinality(Thread)

MCInitValue == [x \in Var |-> [addr |-> 1, val |-> zero]]

\* The function that exchanges the two values.
MCFns == {[v \in Val |-> IF v = zero /\ one \in Val THEN one ELSE zero]}

\* Values are only moved around or exchanged, so their names do not matter.
BitSymmetry == Permutations(Bits)
\* Nor do those of the threads where all make the same calls.
ThreadSymmetry == Permutations(Thread)

\* The names of addresses do not matter either, only which of them are equal:
\* the view of a state is the state with the values in place of the Arcs, and
\* for each TVar the partition of the places that hold its Arcs.
Contents(a) == IF a = Nil THEN Nil ELSE a.val
ContentsOf(reg) ==
  [x \in Var |-> <<reg[x].tag, Contents(reg[x].orig), Contents(reg[x].new)>>]

Places == {<<>>} \cup UNION {{<<<<t, i>>, k>> : i \in 0 .. Len(alts[t]), k \in {1, 2}} : t \in Thread}

ArcAt(p, x) ==
  IF p = <<>> THEN value[x]
  ELSE LET t == p[1][1]
           i == p[1][2]
           reg == IF i = 0 THEN log[t] ELSE alts[t][i].copy
       IN  IF p[2] = 1 THEN reg[x].orig ELSE reg[x].new

HeapPartition(x) ==
  LET used == {p \in Places : ArcAt(p, x) # Nil}
  IN  {{q \in used : ArcAt(q, x).addr = ArcAt(p, x).addr} : p \in used}

HeapView ==
  <<[x \in Var |-> <<value[x].val, HeapPartition(x)>>],
    [t \in Thread |-> ContentsOf(log[t])],
    [t \in Thread |-> [i \in DOMAIN alts[t] |->
                         <<alts[t][i].branch, ContentsOf(alts[t][i].copy)>>]],
    readers, writer, waiting, pc, mode, nops, ret, todo, waking, blocked, seen, stale>>

\* All threads alike.
Alike(all) == [t \in Thread |-> all]

\* t1 differs from the others.
Roles(first, others) == [t \in Thread |-> IF t = t1 THEN first ELSE others]

OpsReadWrite == Alike({"read", "write"})
OpsOr == Roles({"or", "read", "write", "exchange", "retry", "abort", "panic"},
               {"modify", "read_atomic", "write_atomic"})
OpsOrWait == Roles({"or", "modify", "retry"}, {"modify"})
OpsOrRereads == Roles({"or", "read", "modify", "retry"}, {"modify", "retry"})
OpsWriteAtomic == Roles({"read", "retry"}, {"write_atomic"})
OpsOrBlind == Roles({"or", "read", "write", "retry"}, {"write"})
OpsLive == Roles({"read", "write", "retry"}, {"modify"})
OpsCrowd == [t \in Thread |-> CASE t = t1 -> {"read", "retry"}
                               [] t = t2 -> {"write"}
                               [] t = t3 -> {"read", "write", "retry"}]

\* The length of closures.
OneCall    == Alike(1)
TwoCalls   == Alike(2)
ThreeCalls == Alike(3)
ThreeToOne == Roles(3, 1)
FiveToOne  == Roles(5, 1)
=============================================================================
