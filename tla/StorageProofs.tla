----------------------------- MODULE StorageProofs -----------------------------
(***************************************************************************)
(* The file protocol of raftlog.Storage for every set of candidates and    *)
(* every bound: it is an atomic register.  Only the order of the system    *)
(* calls matters, so what the operations do to the state is not looked at. *)
(***************************************************************************)
EXTENDS Storage, TLAPS

\* The operations on the state differ in what they change only.
LEMMA OperationChanges ==
  ASSUME \/ \E term \in 0..MaxTerm : \E vote \in Candidate \cup {Nil} : SetTermAndVote(term, vote)
         \/ \E term \in 0..MaxTerm : AppendEntry(term)
         \/ \E index \in 1..MaxLength : TruncateFrom(index)
  PROVE  \E new : Change(new)
BY DEF SetTermAndVote, AppendEntry, TruncateFrom

\* No error and no crash leaves a file that load cannot parse, and the file that
\* replaces it is complete (storage.go: persist).
THEOREM StorageSafe == Spec => []StorageInv
<1>1. Init => StorageInv
  BY DEF Init, StorageInv, FileIsReadable, Missing
<1>2. StorageInv /\ [Next]_vars => StorageInv'
  <2> SUFFICES ASSUME StorageInv, [Next]_vars PROVE StorageInv'
    OBVIOUS
  <2> USE DEF StorageInv, FileIsReadable
  <2>1. CASE Open
    BY <2>1 DEF Open
  <2>2. ASSUME NEW new, Change(new)
        PROVE  StorageInv'
    BY <2>2 DEF Change
  <2>3. CASE BeginWrite
    BY <2>3 DEF BeginWrite
  <2>4. CASE FinishWrite
    BY <2>4 DEF FinishWrite, Whole
  <2>5. CASE Rename
    BY <2>5 DEF Rename, Whole
  <2>6. CASE PersistFails
    BY <2>6 DEF PersistFails
  <2>7. CASE Crash
    BY <2>7 DEF Crash
  <2>8. CASE UNCHANGED vars
    BY <2>8 DEF vars, Whole
  <2> QED
    BY <2>1, <2>2, <2>3, <2>4, <2>5, <2>6, <2>7, <2>8, OperationChanges DEF Next
<1> QED
  BY <1>1, <1>2, PTL DEF Spec

\* What a restart finds is the state of the last write that reported success
\* (storage.go: Storage, load, persist).
THEOREM StorageImplements == Spec => ImplementsDurableState
<1>1. Init => Abstract!Init
  BY DEF Init, Abstract!Init
<1>2. StorageInv /\ [Next]_vars => [Abstract!Next]_(Abstract!vars)
  <2> SUFFICES ASSUME StorageInv, [Next]_vars PROVE [Abstract!Next]_(Abstract!vars)
    OBVIOUS
  <2> USE DEF StorageInv, Loaded
  <2>1. CASE Open
    BY <2>1 DEF Open, Abstract!Start, Abstract!Next
  <2>2. ASSUME NEW new, Change(new)
        PROVE  Abstract!Mutate
    BY <2>2 DEF Change, Abstract!Mutate
  <2>3. CASE BeginWrite
    BY <2>3 DEF BeginWrite, Abstract!vars
  <2>4. CASE FinishWrite
    BY <2>4 DEF FinishWrite, Abstract!vars
  <2>5. CASE Rename
    BY <2>5 DEF Rename, Whole, Abstract!Succeed, Abstract!Next
  <2>6. CASE PersistFails
    BY <2>6 DEF PersistFails, Abstract!Fail, Abstract!Next
  <2>7. CASE Crash
    BY <2>7 DEF Crash, Abstract!Crash, Abstract!Next
  <2>8. CASE UNCHANGED vars
    BY <2>8 DEF vars, Abstract!vars
  <2> QED
    BY <2>1, <2>2, <2>3, <2>4, <2>5, <2>6, <2>7, <2>8, OperationChanges
    DEF Next, Abstract!Next
<1> QED
  BY <1>1, <1>2, StorageSafe, PTL DEF Spec, ImplementsDurableState, Abstract!Spec
===============================================================================
