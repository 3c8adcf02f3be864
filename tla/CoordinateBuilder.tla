-------------------------- MODULE CoordinateBuilder --------------------------
(***************************************************************************)
(* CoordinateBuilder and the CoordinateArray it becomes                    *)
(* (include/asc/sparse/coordinate.h): entries are appended in any order,    *)
(* and Finalize sorts and compacts them in the builder's own buffers into  *)
(* canonical coordinate storage, or returns an error and leaves them alone. *)
(*                                                                          *)
(* One step is a call of Add, the checks of Finalize, one round of its      *)
(* insertion sort, or one group of its compaction. Elements are integers   *)
(* of a fixed width, the ones whose sums the code checks.                   *)
(***************************************************************************)
EXTENDS SparseCoordinates, SequencesExt

CONSTANTS
  Low, High,    \* the least and the greatest value of an element
  MaxCapacity   \* bound on the capacity a builder is created with

ASSUME BuilderAssumption ==
  /\ Low \in Int /\ High \in Int /\ Low <= 0 /\ 0 <= High
  /\ MaxCapacity \in Nat

VARIABLES
  capacity,   \* CoordinateBuilder::capacity_
  slots,      \* the first size_ entries of the two buffers
  stage,      \* what the builder is doing, or that it has been consumed
  policy,     \* the two policies Finalize was given
  status,     \* what the last call returned
  position,   \* StableSort: the entry to insert next
  input,      \* Compact: the next entry to read
  output,     \* Compact: the entries written so far
  added       \* the entries that Add accepted, in order

vars == <<capacity, slots, stage, policy, status, position, input, output, added>>

Values == Low .. High
Entries == [at : Coordinates, value : Values]
Stages == {"building", "sorting", "compacting", "finalized"}
Duplicates == {"reject", "sum"}
Zeros == {"keep", "drop"}
Statuses == {"ok", "index", "exhausted", "duplicate", "overflow", "invalid",
             "refused"}

-----------------------------------------------------------------------------

Min0(S) == CHOOSE x \in S : \A y \in S : x <= y

Size == Len(slots)

(* The sums of the values at a, entry after entry from the first one on. *)
RunningSums(s, a, first) ==
  LET sum[n \in first - 1 .. Len(s)] ==
        IF n < first THEN 0
        ELSE sum[n - 1] + (IF s[n].at = a THEN s[n].value ELSE 0)
  IN sum

(* A partial sum from left to right does not fit the element type. *)
Overflows(s, first, last) ==
  \E n \in first .. last : RunningSums(s, s[first].at, first)[n] \notin Values

FirstOf(s, i) == \A j \in 1 .. i - 1 : s[j].at # s[i].at

(* PreflightDuplicates visits the coordinates in the order of their first  *)
(* entry and returns the first error it finds.                             *)
Conflicts(s, duplicates) ==
  {i \in DOMAIN s :
     /\ FirstOf(s, i)
     /\ IF duplicates = "reject" THEN \E j \in i + 1 .. Len(s) : s[j].at = s[i].at
        ELSE Overflows(s, i, Len(s))}

-----------------------------------------------------------------------------

(* Create: an empty shape has no room for entries. *)
Init ==
  /\ capacity \in 0 .. MaxCapacity
  /\ (\E d \in DOMAIN Shape : Shape[d] = 0) => capacity = 0
  /\ slots = <<>> /\ added = <<>>
  /\ stage = "building"
  /\ policy = [duplicates |-> "sum", zeros |-> "keep"]
  /\ status = "ok"
  /\ position = 0 /\ input = 0 /\ output = 0

Returns(result) ==
  /\ status' = result
  /\ UNCHANGED <<capacity, slots, stage, policy, position, input, output, added>>

Add(a, v) ==
  \/ stage = "finalized" /\ Returns("invalid")
  \/ stage = "building" /\ ~InBounds(a) /\ Returns("index")
  \/ stage = "building" /\ InBounds(a) /\ Size = capacity /\ Returns("exhausted")
  \/ /\ stage = "building" /\ InBounds(a) /\ Size < capacity
     /\ slots' = Append(slots, [at |-> a, value |-> v])
     /\ added' = Append(added, [at |-> a, value |-> v])
     /\ status' = "ok"
     /\ UNCHANGED <<capacity, stage, policy, position, input, output>>

(* Seeded fault: the duplicates are searched in the sorted entries. *)
FinalizeSortsFirst(duplicates, zeros) ==
  \/ stage = "finalized" /\ Returns("invalid")
  \/ /\ stage = "building" /\ Conflicts(slots, duplicates) # {}
     /\ slots' = SortSeq(slots, LAMBDA x, y : Precedes(x.at, y.at))
     /\ status' = IF duplicates = "reject" THEN "duplicate" ELSE "overflow"
     /\ UNCHANGED <<capacity, stage, policy, position, input, output, added>>
  \/ /\ stage = "building" /\ Conflicts(slots, duplicates) = {}
     /\ stage' = "sorting"
     /\ policy' = [duplicates |-> duplicates, zeros |-> zeros]
     /\ position' = 2
     /\ UNCHANGED <<capacity, slots, status, input, output, added>>

(* Finalize up to the end of the preflight, which changes nothing. It first *)
(* refuses contexts that are not serial and values that are no policies.    *)
Finalize(duplicates, zeros) ==
  \/ stage = "finalized" /\ Returns("invalid")
  \/ stage = "building" /\ Returns("refused")
  \/ /\ stage = "building" /\ Conflicts(slots, duplicates) # {}
     /\ Returns(IF duplicates = "reject" THEN "duplicate" ELSE "overflow")
  \/ /\ stage = "building" /\ Conflicts(slots, duplicates) = {}
     /\ stage' = "sorting"
     /\ policy' = [duplicates |-> duplicates, zeros |-> zeros]
     /\ position' = 2
     /\ UNCHANGED <<capacity, slots, status, input, output, added>>

(* Seeded fault: equal entries are inserted in front, so the sort is not    *)
(* stable.                                                                  *)
InsertionUnstable(p) ==
  Min0({i \in 1 .. p : \A j \in i .. p - 1 : ~Precedes(slots[j].at, slots[p].at)})

(* Where StableSort inserts entry p among the sorted ones before it: after *)
(* the last one that does not follow it.                                   *)
Insertion(p) ==
  Min0({i \in 1 .. p : \A j \in i .. p - 1 : Precedes(slots[p].at, slots[j].at)})

SortRound ==
  /\ stage = "sorting" /\ position <= Size
  /\ slots' = LET i == Insertion(position) IN
       [k \in DOMAIN slots |->
          IF k = i THEN slots[position]
          ELSE IF i < k /\ k <= position THEN slots[k - 1] ELSE slots[k]]
  /\ position' = position + 1
  /\ UNCHANGED <<capacity, stage, policy, status, input, output, added>>

Sorted ==
  /\ stage = "sorting" /\ position > Size
  /\ stage' = "compacting"
  /\ input' = 1 /\ output' = 0
  /\ UNCHANGED <<capacity, slots, policy, status, position, added>>

(* The first entry after the group that begins at input. *)
GroupEnd ==
  Min0({i \in input + 1 .. Size + 1 : i = Size + 1 \/ slots[i].at # slots[input].at})

GroupValue ==
  IF policy.duplicates = "sum"
  THEN RunningSums(slots, slots[input].at, input)[GroupEnd - 1]
  ELSE slots[input].value

(* Seeded fault: a zero is dropped where it is added, before the sum. *)
DropsFirst(v) == policy.zeros = "drop" /\ slots[input].value = 0

Drops(v) == policy.zeros = "drop" /\ v = 0

(* Seeded fault: `continue` on a dropped group skips the advance of input. *)
CompactGroupStays ==
  /\ stage = "compacting" /\ input <= Size
  /\ IF Drops(GroupValue) THEN UNCHANGED <<slots, output, input>>
     ELSE /\ output' = output + 1
          /\ slots' = [slots EXCEPT
               ![output + 1] = [at |-> slots[input].at, value |-> GroupValue]]
          /\ input' = GroupEnd
  /\ UNCHANGED <<capacity, stage, policy, status, position, added>>

CompactGroup ==
  /\ stage = "compacting" /\ input <= Size
  /\ IF Drops(GroupValue) THEN UNCHANGED <<slots, output>>
     ELSE /\ output' = output + 1
          /\ slots' = [slots EXCEPT
               ![output + 1] = [at |-> slots[input].at, value |-> GroupValue]]
  /\ input' = GroupEnd
  /\ UNCHANGED <<capacity, stage, policy, status, position, added>>

(* Seeded fault: the array keeps the size the builder had. *)
PublishAll ==
  /\ stage = "compacting" /\ input > Size
  /\ stage' = "finalized"
  /\ capacity' = 0
  /\ status' = "ok"
  /\ UNCHANGED <<slots, policy, position, input, output, added>>

(* The array takes the buffers and the entries written; the builder is     *)
(* consumed.                                                               *)
Publish ==
  /\ stage = "compacting" /\ input > Size
  /\ stage' = "finalized"
  /\ slots' = SubSeq(slots, 1, output)
  /\ capacity' = 0
  /\ status' = "ok"
  /\ UNCHANGED <<policy, position, input, output, added>>

Next ==
  \/ \E a \in Coordinates, v \in Values : Add(a, v)
  \/ \E d \in Duplicates, z \in Zeros : Finalize(d, z)
  \/ SortRound \/ Sorted \/ CompactGroup \/ Publish

Spec == Init /\ [][Next]_vars

(* Finalize is a synchronous call: once begun, it runs to its end. *)
FairSpec == Spec /\ WF_vars(SortRound \/ Sorted \/ CompactGroup \/ Publish)

-----------------------------------------------------------------------------
(* Reading the published array. *)

(* CoordinateView::Lookup: the binary search of the first stored coordinate *)
(* that does not precede a.                                                 *)
Search(a) ==
  LET search[range \in (1 .. Size + 1) \X (1 .. Size + 1)] ==
        LET first == range[1]
            last == range[2]
            middle == first + (last - first) \div 2
        IN IF first >= last THEN first
           ELSE IF Precedes(slots[middle].at, a) THEN search[<<middle + 1, last>>]
           ELSE search[<<first, middle>>]
  IN search[<<1, Size + 1>>]

Lookup(a) ==
  IF Search(a) <= Size /\ slots[Search(a)].at = a THEN slots[Search(a)].value ELSE 0

-----------------------------------------------------------------------------
(* A call that fails, Finalize included, leaves the builder with the       *)
(* entries it accepted, in the order it accepted them, for another try.    *)
FailureKeepsEntries == stage = "building" => slots = added

(* Compact adds without checking: the preflight has seen the same values   *)
(* of every coordinate in the same order, so no partial sum overflows.     *)
SumsWereChecked ==
  stage = "compacting" /\ input <= Size /\ policy.duplicates = "sum" =>
    ~Overflows(slots, input, GroupEnd - 1)

(* A zero that the caller asked to be left out. *)
Unwanted(v) == policy.zeros = "drop" /\ v = 0

(* The array is canonical: inside the shape, in strictly increasing        *)
(* lexicographic order, with no zero if zeros are dropped.                 *)
ArrayIsCanonical ==
  stage = "finalized" =>
    /\ \A i \in DOMAIN slots : InBounds(slots[i].at) /\ ~Unwanted(slots[i].value)
    /\ \A i, j \in DOMAIN slots : i < j => Precedes(slots[i].at, slots[j].at)

Total(a) == RunningSums(added, a, 1)[Len(added)]

(* Lookup finds at every coordinate the sum of what was added there, and   *)
(* the array stores exactly the coordinates that were added, less the ones *)
(* whose sum the zero policy drops.                                        *)
LookupFindsTheSum ==
  stage = "finalized" =>
    \A a \in {b \in Coordinates : InBounds(b)} :
      /\ Lookup(a) = Total(a)
      /\ (\E i \in DOMAIN slots : slots[i].at = a) <=>
           (\E i \in DOMAIN added : added[i].at = a) /\ ~Unwanted(Total(a))

(* A Finalize that has passed its checks returns an array. *)
FinalizeReturns == stage = "sorting" ~> stage = "finalized"

=============================================================================
