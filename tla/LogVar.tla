------------------------------- MODULE LogVar -------------------------------
(***************************************************************************)
(* The entries of a transaction's register (transaction/log_var.rs).       *)
(*                                                                         *)
(* A transaction keeps, for every TVar it touched, one LogVar: the Arc it  *)
(* loaded from the TVar, the Arc it wants to store into it, or both.  An   *)
(* Arc is modelled by the address of its allocation and the value stored   *)
(* there: Arc::ptr_eq compares addresses only, and an address can be given *)
(* out again once nothing refers to it any more.                           *)
(***************************************************************************)

CONSTANTS Addr,     \* addresses the allocator gives to the boxed values
          Val,      \* values a TVar can hold
          Nil       \* "nothing": no Arc, no value, no lock holder

Arc == [addr : Addr, val : Val]

\* Arc::ptr_eq: the two references point to the same allocation.
\* Broken variant: compare the contents instead of the allocation.
PtrEq_ByContent(a, b) == a.val = b.val
PtrEq(a, b) == a.addr = b.addr

-----------------------------------------------------------------------------
(* The variants of the enum, and the entry the register does not have.     *)

Entry(tag, orig, new) == [tag |-> tag, orig |-> orig, new |-> new]

Vacant                   == Entry("Vacant", Nil, Nil)
ReadEntry(v)             == Entry("Read", v, Nil)
WriteEntry(w)            == Entry("Write", Nil, w)
ReadWriteEntry(r, w)     == Entry("ReadWrite", r, w)
ReadObsoleteEntry(v)     == Entry("ReadObsolete", v, Nil)
ReadObsoleteWriteEntry(r, w) == Entry("ReadObsoleteWrite", r, w)

OrigTags  == {"Read", "ReadWrite", "ReadObsolete", "ReadObsoleteWrite"}
WriteTags == {"Write", "ReadWrite", "ReadObsoleteWrite"}
\* The entries whose original value must still be current at commit.
CheckedTags == {"Read", "ReadWrite"}

\* The type LogVar: which of the two Arcs an entry of each variant holds.
LogVar == [tag : {"Read", "ReadObsolete"}, orig : Arc, new : {Nil}]
            \cup [tag : {"Write"}, orig : {Nil}, new : Arc]
            \cup [tag : {"ReadWrite", "ReadObsoleteWrite"}, orig : Arc, new : Arc]

-----------------------------------------------------------------------------
(* The methods.                                                            *)

\* LogVar::read, the value: the closure sees its own last write if it made
\* one, else what it loaded.
ReadResult(e) == IF e.tag \in WriteTags THEN e.new ELSE e.orig

\* LogVar::read, the upgrade: an obsolete entry that is read again becomes
\* one that is checked at commit.
\* Broken variant: the obsolete entry is left as it is.
AfterRead_NoUpgrade(e) == e
AfterRead(e) ==
  IF e.tag = "ReadObsolete" THEN ReadEntry(e.orig)
  ELSE IF e.tag = "ReadObsoleteWrite" THEN ReadWriteEntry(e.orig, e.new)
  ELSE e

\* LogVar::write: keep the original, so that a value read before the write
\* is still checked (or still waited for).
\* Broken variant: the write forgets that the variable has been read.
AfterWrite_Forgets(e, w) == WriteEntry(w)
AfterWrite(e, w) ==
  IF e.tag \in {"Vacant", "Write"} THEN WriteEntry(w)
  ELSE IF e.tag \in {"ReadObsolete", "ReadObsoleteWrite"} THEN ReadObsoleteWriteEntry(e.orig, w)
  ELSE ReadWriteEntry(e.orig, w)

\* LogVar::into_read_value: the original, if there is one.
IntoReadValue(e) == IF e.tag \in OrigTags THEN e.orig ELSE Nil

\* LogVar::obsolete: what is left of an entry of an abandoned alternative.
\* Broken variant: of a value that was read and then written the Arc that was
\* to be stored is kept instead of the original.
Obsolete_KeepsWrite(e) ==
  IF IntoReadValue(e) = Nil THEN Vacant ELSE ReadObsoleteEntry(ReadResult(e))
Obsolete(e) ==
  IF IntoReadValue(e) = Nil THEN Vacant ELSE ReadObsoleteEntry(IntoReadValue(e))

\* Transaction::combine: the register vars, with the reads of the abandoned
\* alternative added where vars has no entry of its own.
Combine(vars, other) ==
  [x \in DOMAIN vars |-> IF vars[x] = Vacant THEN Obsolete(other[x]) ELSE vars[x]]
=============================================================================
