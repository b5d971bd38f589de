--------------------------- MODULE UsbkListProofs ---------------------------
(***************************************************************************)
(* Proofs about UsbkList: the list of all USBKs, pointer by pointer.       *)
(***************************************************************************)
EXTENDS UsbkList, TLAPS, FiniteSetTheorems, SequenceTheorems,
        WellFoundedInduction

-----------------------------------------------------------------------------
(* Walks                                                                   *)

(* A walk is a sequence of addresses, no longer than there are entries.    *)
LEMMA WalkIsSeq ==
    ASSUME NEW first, NEW h, NEW s \in Walks(first, h)
    PROVE  /\ Len(s) \in 0 .. MaxEntries
           /\ s \in [1 .. Len(s) -> Ids]
           /\ s \in Seq(Ids)
           /\ Range(s) = {s[i] : i \in 1 .. Len(s)}
           /\ Range(s) \subseteq Ids
<1> USE EntriesAssumption
<1>1. PICK n \in 0 .. MaxEntries : s \in [1 .. n -> Ids]
  BY DEF Walks, BoundedSeq, SeqOf
<1>2. Len(s) = n /\ s \in Seq(Ids)
  BY <1>1
<1>3. DOMAIN s = 1 .. Len(s)
  BY <1>1, <1>2
<1> QED
  BY <1>1, <1>2, <1>3 DEF Range

(* Two walks from the same entry are the same: at the least index at which *)
(* they differ the pointer before it would say two things, and neither can *)
(* go on where the other one ends.                                         *)
LEMMA WalkUnique ==
    ASSUME NEW first, NEW h, NEW s \in Walks(first, h), NEW t \in Walks(first, h)
    PROVE  s = t
<1> USE EntriesAssumption
<1> DEFINE D == {i \in Nat : i \in 1 .. Len(s) /\ i \in 1 .. Len(t) /\ s[i] # t[i]}
<1>1. /\ Len(s) \in Nat /\ Len(t) \in Nat
      /\ s \in [1 .. Len(s) -> Ids] /\ t \in [1 .. Len(t) -> Ids]
  BY WalkIsSeq
<1>2. D = {}
  <2> SUFFICES ASSUME D # {} PROVE FALSE
    OBVIOUS
  <2>1. PICK i \in D : \A j \in D : ~(<<j, i>> \in OpToRel(<, Nat))
    BY NatLessThanWellFounded, WFMin
  <2>2. i \in Nat /\ i >= 1 /\ i <= Len(s) /\ i <= Len(t) /\ s[i] # t[i]
    BY <1>1
  <2>3. \A j \in Nat : j \in 1 .. Len(s) /\ j \in 1 .. Len(t) /\ j < i => s[j] = t[j]
    BY <2>1 DEF OpToRel
  <2>4. /\ s[i] = Pointer(s, first, h, i - 1)
        /\ t[i] = Pointer(t, first, h, i - 1)
    BY <1>1, <2>2 DEF Walks
  <2>5. CASE i = 1
    BY <2>2, <2>4, <2>5 DEF Pointer
  <2>6. CASE i > 1
    <3>1. s[i - 1] = t[i - 1]
      BY <1>1, <2>2, <2>3, <2>6
    <3> QED
      BY <2>2, <2>4, <2>6, <3>1 DEF Pointer
  <2> QED
    BY <2>2, <2>5, <2>6
<1>3. ASSUME NEW a \in Walks(first, h), NEW b \in Walks(first, h),
             \A i \in 1 .. Len(a) : i \in 1 .. Len(b) => a[i] = b[i]
      PROVE  ~(Len(a) < Len(b))
  <2> SUFFICES ASSUME Len(a) < Len(b) PROVE FALSE
    OBVIOUS
  <2>1. /\ Len(a) \in Nat /\ Len(b) \in Nat /\ b \in [1 .. Len(b) -> Ids]
    BY WalkIsSeq
  <2> DEFINE n == Len(a) + 1
  <2>2. n \in 1 .. Len(b) /\ n - 1 = Len(a)
    BY <2>1
  <2>3. b[n] = Pointer(b, first, h, Len(a)) /\ h[b[n]] # Free /\ b[n] \in Ids
    BY <2>1, <2>2 DEF Walks
  <2>4. Pointer(b, first, h, Len(a)) = Pointer(a, first, h, Len(a))
    <3>1. CASE Len(a) = 0
      BY <3>1 DEF Pointer
    <3>2. CASE Len(a) # 0
      <4>1. Len(a) \in 1 .. Len(a) /\ Len(a) \in 1 .. Len(b)
        BY <2>1, <3>2
      <4> QED
        BY <1>3, <3>2, <4>1 DEF Pointer
    <3> QED
      BY <3>1, <3>2
  <2>5. \/ Pointer(a, first, h, Len(a)) = Null
        \/ h[Pointer(a, first, h, Len(a))] = Free
    BY DEF Walks
  <2> QED
    BY <2>3, <2>4, <2>5, NothingAssumption
<1>4. \A i \in 1 .. Len(s) : i \in 1 .. Len(t) => s[i] = t[i]
  BY <1>1, <1>2
<1>5. ~(Len(s) < Len(t))
  BY <1>3, <1>4
<1>6. ~(Len(t) < Len(s))
  BY <1>3, <1>4
<1>7. Len(s) = Len(t)
  <2>1. Len(s) \in Nat /\ Len(t) \in Nat
    BY <1>1
  <2> QED
    BY <1>5, <1>6, <2>1
<1>8. s \in Seq(Ids) /\ t \in Seq(Ids)
  BY WalkIsSeq
<1> QED
  BY <1>4, <1>7, <1>8, SeqEqual

(* Hence the list is the walk.                                             *)
LEMMA WalkChosen ==
    ASSUME NEW first, NEW h, NEW s \in Walks(first, h)
    PROVE  (CHOOSE t \in Walks(first, h) : TRUE) = s
<1>1. (CHOOSE t \in Walks(first, h) : TRUE) \in Walks(first, h)
  OBVIOUS
<1> QED
  BY <1>1, WalkUnique

(* A walk that visits every entry once and ends at NULL.                   *)
Whole(s, first, h) ==
    /\ s \in Walks(first, h)
    /\ \A i, j \in 1 .. Len(s) : s[i] = s[j] => i = j
    /\ Pointer(s, first, h, Len(s)) = Null

(* What is in a walk, in the words of one that visits its entries once.    *)
LEMMA WholeWalk ==
    ASSUME NEW first, NEW h, NEW s, Whole(s, first, h)
    PROVE  /\ s \in Walks(first, h)
           /\ first = Null => s = << >>
           /\ s = << >> => first = Null
           /\ first # Null => Len(s) >= 1 /\ s[1] = first /\ first \in Range(s)
           /\ \A e \in Range(s) : h[e] # Free /\ h[e].next \in Range(s) \cup {Null}
           /\ Null \notin Range(s)
<1> USE EntriesAssumption, NothingAssumption
<1>1. /\ Len(s) \in Nat /\ s \in [1 .. Len(s) -> Ids] /\ s \in Seq(Ids)
      /\ Range(s) = {s[i] : i \in 1 .. Len(s)} /\ Range(s) \subseteq Ids
  BY WalkIsSeq DEF Whole
<1>2. s \in Walks(first, h) /\ Null \notin Range(s)
  BY <1>1 DEF Whole
<1>3. ASSUME Len(s) # 0 PROVE s[1] = first /\ first \in Range(s)
  <2>1. 1 \in 1 .. Len(s)
    BY <1>1, <1>3
  <2>2. s[1] = Pointer(s, first, h, 1 - 1)
    BY <2>1 DEF Whole, Walks
  <2> QED
    BY <1>1, <2>1, <2>2 DEF Pointer
<1>4. s = << >> <=> Len(s) = 0
  BY <1>1
<1>5. Len(s) = 0 <=> first = Null
  <2>1. ASSUME Len(s) = 0 PROVE first = Null
    BY <2>1 DEF Whole, Pointer
  <2>2. ASSUME Len(s) # 0 PROVE first # Null
    BY <1>2, <1>3, <2>2
  <2> QED
    BY <2>1, <2>2
<1>6. ASSUME NEW i \in 1 .. Len(s)
      PROVE  h[s[i]] # Free /\ h[s[i]].next \in Range(s) \cup {Null}
  <2>1. h[s[i]] # Free
    BY DEF Whole, Walks
  <2>2. h[s[i]].next = Pointer(s, first, h, i)
    BY <1>1 DEF Pointer
  <2>3. CASE i = Len(s)
    BY <2>1, <2>2, <2>3 DEF Whole
  <2>4. CASE i # Len(s)
    <3>1. i + 1 \in 1 .. Len(s) /\ (i + 1) - 1 = i
      BY <1>1, <2>4
    <3>2. s[i + 1] = Pointer(s, first, h, i)
      BY <3>1 DEF Whole, Walks
    <3> QED
      BY <1>1, <2>1, <2>2, <3>1, <3>2
  <2> QED
    BY <2>3, <2>4
<1> QED
  BY <1>1, <1>2, <1>3, <1>4, <1>5, <1>6

(* A list without entries.                                                 *)
LEMMA EmptyWhole == ASSUME NEW h PROVE Whole(<< >>, Null, h)
<1> USE EntriesAssumption
<1>1. << >> \in [1 .. 0 -> Ids] /\ Len(<< >>) = 0 /\ 0 \in 0 .. MaxEntries
  OBVIOUS
<1>2. << >> \in BoundedSeq(Ids, MaxEntries)
  BY <1>1 DEF BoundedSeq, SeqOf
<1> QED
  BY <1>1, <1>2 DEF Whole, Walks, Pointer

(* Memory that changes, but for the links of the entries, keeps the walk.  *)
LEMMA WholeKept ==
    ASSUME NEW first, NEW h, NEW g, NEW s, Whole(s, first, h),
           \A e \in Range(s) : g[e] # Free /\ g[e].next = h[e].next
    PROVE  Whole(s, first, g)
<1> USE EntriesAssumption
<1>1. /\ Len(s) \in Nat /\ Range(s) = {s[i] : i \in 1 .. Len(s)}
      /\ s \in BoundedSeq(Ids, MaxEntries)
  BY WalkIsSeq DEF Whole, Walks
<1>2. ASSUME NEW i \in 0 .. Len(s)
      PROVE  Pointer(s, first, g, i) = Pointer(s, first, h, i)
  BY <1>1 DEF Pointer
<1>3. ASSUME NEW i \in 1 .. Len(s)
      PROVE  s[i] = Pointer(s, first, g, i - 1) /\ g[s[i]] # Free
  <2>1. i - 1 \in 0 .. Len(s)
    BY <1>1
  <2>2. s[i] = Pointer(s, first, h, i - 1)
    BY DEF Whole, Walks
  <2> QED
    BY <1>1, <1>2, <2>1, <2>2
<1>4. Pointer(s, first, g, Len(s)) = Null
  BY <1>1, <1>2 DEF Whole
<1> QED
  BY <1>1, <1>3, <1>4 DEF Whole, Walks

(* A new entry before the first one begins a walk that is longer by one.   *)
LEMMA WholePushed ==
    ASSUME NEW first, NEW h, NEW g, NEW s, Whole(s, first, h), Len(s) < MaxEntries,
           NEW e \in Ids, e \notin Range(s), g[e] # Free, g[e].next = first,
           \A f \in Range(s) : g[f] = h[f]
    PROVE  /\ Whole(<<e>> \o s, e, g)
           /\ Len(<<e>> \o s) = Len(s) + 1
           /\ Range(<<e>> \o s) = {e} \cup Range(s)
<1> USE EntriesAssumption
<1> DEFINE t == <<e>> \o s
<1>1. /\ Len(s) \in Nat /\ s \in Seq(Ids) /\ s \in [1 .. Len(s) -> Ids]
      /\ Range(s) = {s[i] : i \in 1 .. Len(s)}
  BY WalkIsSeq DEF Whole
<1>2. /\ t \in Seq(Ids) /\ Len(t) = Len(s) + 1 /\ t[1] = e
      /\ \A i \in 2 .. Len(t) : i - 1 \in 1 .. Len(s) /\ t[i] = s[i - 1]
  BY <1>1
<1> HIDE DEF t
<1>3. t \in [1 .. Len(t) -> Ids] /\ DOMAIN t = 1 .. Len(t) /\ Len(t) \in 0 .. MaxEntries
  BY <1>1, <1>2, LenProperties
<1>4. t \in BoundedSeq(Ids, MaxEntries)
  BY <1>3 DEF BoundedSeq, SeqOf
<1>5. Range(t) = {e} \cup Range(s)
  <2>1. ASSUME NEW i \in 1 .. Len(t) PROVE t[i] \in {e} \cup Range(s)
    BY <1>1, <1>2
  <2>2. e \in Range(t)
    BY <1>1, <1>2, <1>3 DEF Range
  <2>3. ASSUME NEW i \in 1 .. Len(s) PROVE s[i] \in Range(t)
    <3>1. i + 1 \in 2 .. Len(t) /\ (i + 1) - 1 = i /\ i + 1 \in DOMAIN t
      BY <1>1, <1>2, <1>3
    <3> QED
      BY <1>2, <3>1 DEF Range
  <2> QED
    BY <1>1, <1>3, <2>1, <2>2, <2>3 DEF Range
<1>6. ASSUME NEW i \in 1 .. Len(t)
      PROVE  Pointer(t, e, g, i) = Pointer(s, first, h, i - 1)
  <2>1. CASE i = 1
    BY <1>2, <2>1 DEF Pointer
  <2>2. CASE i # 1
    <3>1. i \in 2 .. Len(t) /\ i # 0 /\ i - 1 # 0
      BY <1>1, <1>2, <2>2
    <3> QED
      BY <1>1, <1>2, <3>1 DEF Pointer
  <2> QED
    BY <2>1, <2>2
<1>7. ASSUME NEW i \in 1 .. Len(t)
      PROVE  t[i] = Pointer(t, e, g, i - 1) /\ g[t[i]] # Free
  <2>1. CASE i = 1
    BY <1>2, <2>1 DEF Pointer
  <2>2. CASE i # 1
    <3>1. i \in 2 .. Len(t) /\ i - 1 \in 1 .. Len(t) /\ i - 1 \in 1 .. Len(s)
      BY <1>1, <1>2, <2>2
    <3>2. s[i - 1] = Pointer(s, first, h, (i - 1) - 1) /\ h[s[i - 1]] # Free
      BY <3>1 DEF Whole, Walks
    <3> QED
      BY <1>1, <1>2, <1>6, <3>1, <3>2
  <2> QED
    BY <2>1, <2>2
<1>8. Pointer(t, e, g, Len(t)) = Null
  <2>1. Len(t) \in 1 .. Len(t) /\ Len(t) - 1 = Len(s)
    BY <1>1, <1>2
  <2> QED
    BY <1>6, <2>1 DEF Whole
<1>9. ASSUME NEW i \in 1 .. Len(t), NEW j \in 1 .. Len(t), t[i] = t[j]
      PROVE  i = j
  <2>1. /\ i # 1 => i \in 2 .. Len(t) /\ t[i] = s[i - 1] /\ i - 1 \in 1 .. Len(s)
        /\ j # 1 => j \in 2 .. Len(t) /\ t[j] = s[j - 1] /\ j - 1 \in 1 .. Len(s)
    BY <1>1, <1>2
  <2>2. i # 1 /\ j # 1 => i - 1 = j - 1
    BY <1>9, <2>1 DEF Whole
  <2> QED
    BY <1>1, <1>2, <1>9, <2>1, <2>2
<1> QED
  BY <1>2, <1>4, <1>5, <1>7, <1>8, <1>9 DEF Whole, Walks, t

(* Without its first entry the walk is shorter by one.                     *)
LEMMA WholePopped ==
    ASSUME NEW first, NEW h, NEW g, NEW s, Whole(s, first, h), first # Null,
           \A f \in Range(s) \ {first} : g[f] = h[f]
    PROVE  /\ Whole(Tail(s), h[first].next, g)
           /\ Len(Tail(s)) = Len(s) - 1
           /\ Range(Tail(s)) = Range(s) \ {first}
<1> USE EntriesAssumption
<1> DEFINE t == Tail(s)
<1>1. /\ Len(s) \in 0 .. MaxEntries /\ s \in Seq(Ids) /\ s \in [1 .. Len(s) -> Ids]
      /\ Range(s) = {s[i] : i \in 1 .. Len(s)}
  BY WalkIsSeq DEF Whole
<1>2. Len(s) >= 1 /\ s[1] = first
  BY WholeWalk
<1>3. /\ t \in Seq(Ids) /\ Len(t) = Len(s) - 1
      /\ \A i \in 1 .. Len(t) : i + 1 \in 1 .. Len(s) /\ i + 1 # 1 /\ t[i] = s[i + 1]
  BY <1>1, <1>2
<1> HIDE DEF t
<1>4. t \in [1 .. Len(t) -> Ids] /\ DOMAIN t = 1 .. Len(t) /\ Len(t) \in 0 .. MaxEntries
  BY <1>1, <1>2, <1>3, LenProperties
<1>5. t \in BoundedSeq(Ids, MaxEntries)
  BY <1>4 DEF BoundedSeq, SeqOf
<1>6. \A i \in 1 .. Len(s) : i # 1 => s[i] # first
  BY <1>1, <1>2 DEF Whole
<1>7. Range(t) = Range(s) \ {first}
  <2>1. ASSUME NEW i \in 1 .. Len(t) PROVE t[i] \in Range(s) \ {first}
    BY <1>1, <1>3, <1>6
  <2>2. ASSUME NEW i \in 1 .. Len(s), s[i] # first PROVE s[i] \in Range(t)
    <3>1. i # 1
      BY <1>2, <2>2
    <3>2. i - 1 \in 1 .. Len(t) /\ (i - 1) + 1 = i
      BY <1>1, <1>3, <3>1
    <3> QED
      BY <1>3, <1>4, <3>2 DEF Range
  <2> QED
    BY <1>1, <1>4, <2>1, <2>2 DEF Range
<1>8. ASSUME NEW i \in 0 .. Len(t)
      PROVE  Pointer(t, h[first].next, g, i) = Pointer(s, first, h, i + 1)
  <2>1. CASE i = 0
    BY <1>2, <2>1 DEF Pointer
  <2>2. CASE i # 0
    <3>1. i \in 1 .. Len(t) /\ i + 1 # 0
      BY <1>1, <1>3, <2>2
    <3>2. t[i] \in Range(s) \ {first} /\ t[i] = s[i + 1]
      BY <1>3, <1>4, <1>7, <3>1 DEF Range
    <3> QED
      BY <3>1, <3>2, <2>2 DEF Pointer
  <2> QED
    BY <2>1, <2>2
<1>9. ASSUME NEW i \in 1 .. Len(t)
      PROVE  t[i] = Pointer(t, h[first].next, g, i - 1) /\ g[t[i]] # Free
  <2>1. i - 1 \in 0 .. Len(t) /\ (i - 1) + 1 = i /\ i + 1 \in 1 .. Len(s) /\ (i + 1) - 1 = i
    BY <1>1, <1>3
  <2>2. s[i + 1] = Pointer(s, first, h, i) /\ h[s[i + 1]] # Free
    BY <2>1 DEF Whole, Walks
  <2>3. t[i] \in Range(s) \ {first}
    BY <1>4, <1>7 DEF Range
  <2> QED
    BY <1>3, <1>8, <2>1, <2>2, <2>3
<1>10. Pointer(t, h[first].next, g, Len(t)) = Null
  <2>1. Len(t) \in 0 .. Len(t) /\ Len(t) + 1 = Len(s)
    BY <1>1, <1>2, <1>3
  <2> QED
    BY <1>8, <2>1 DEF Whole
<1>11. ASSUME NEW i \in 1 .. Len(t), NEW j \in 1 .. Len(t), t[i] = t[j]
       PROVE  i = j
  <2>1. i + 1 = j + 1
    BY <1>3, <1>11 DEF Whole
  <2> QED
    BY <1>1, <1>3, <2>1
<1> QED
  BY <1>3, <1>5, <1>7, <1>9, <1>10, <1>11 DEF Whole, Walks, t

-----------------------------------------------------------------------------
(* The inductive invariant                                                 *)

Working  == {"scan", "find", "read"}
NoList   == {"idle", "none", "faulted", "crashed"}
DevNames == {heap[e].dev : e \in Entries}
InHand   == IF new_usbk = Null THEN {} ELSE {new_usbk.dev}

(* Which of the process's data there is where in its calls.                *)
InPlace ==
    /\ usbks = Null <=> pc \in NoList
    /\ new_usbk = Null <=> pc \notin {"find", "read"}
    /\ pc = "read" => new_usbk.usb_serial \in Devices
    /\ pc \notin Working => todo = {}
    /\ pc = "refresh" => list_entry \in Entries \cup {Null}

(* The walk ends at NULL, passes no entry twice and none that is lost, and *)
(* the counter is its length.                                              *)
ChainOK ==
    usbks # Null =>
        /\ Whole(Chain, usbks.usbk, heap)
        /\ usbks.counter = Len(Chain)
        /\ Entries \cap lost = {}

(* While the list is made there is memory for what is still to come.       *)
MemoryLeft ==
    pc \in Working =>
        Cardinality(Live) + Cardinality(todo) + (IF new_usbk = Null THEN 0 ELSE 1)
            <= MaxEntries

(* Every name is in one place: still to visit, in hand, or in one entry.   *)
NamesApart ==
    /\ \A e, f \in Entries : heap[e].dev = heap[f].dev => e = f
    /\ DevNames \cap (todo \cup InHand) = {}
    /\ InHand \cap todo = {}

(* No device has two names.                                                *)
NodesApart == \A m, n \in Names : Plugged(m) /\ node[m] = node[n] => m = n

(* What was found by name is still under the name it is then read by.      *)
FoundIsThere ==
    pc = "read" /\ new_usbk.dev \notin moved => new_usbk.usb_serial = node[new_usbk.dev]

(* Nothing was plugged or unplugged: no name is missing.                   *)
NoneMissing ==
    quiet /\ pc \in Working \cup {"listed", "refresh"} =>
        /\ moved = {}
        /\ {n \in Names : Plugged(n)} = DevNames \cup todo \cup InHand

IInv ==
    /\ ListTypeOK /\ InPlace /\ ChainOK /\ OnlyNullLoses /\ MemoryLeft
    /\ NamesApart /\ NodesApart /\ FoundIsThere /\ EntryIsOneDevice /\ CurrentOrMarked
    /\ NoneMissing

-----------------------------------------------------------------------------
(* What the steps have in common                                           *)

(* The entries in use are the identities whose memory is not free.         *)
LEMMA LiveIs == Live = {e \in Ids : heap[e] # Free}
  BY DEF Live, Address

(* After a step the list is the walk through the new memory.               *)
LEMMA ChainBecomes ==
    ASSUME usbks' # Null, NEW s, Whole(s, usbks'.usbk, heap')
    PROVE  Chain' = s /\ Entries' = Range(s)
<1>1. s \in Walks(usbks'.usbk, heap')
  BY DEF Whole
<1>2. (CHOOSE t \in Walks(usbks'.usbk, heap') : TRUE) = s
  BY <1>1, WalkChosen
<1> QED
  BY <1>2 DEF Chain, Entries

(* Without a list there are no entries.                                    *)
LEMMA NoEntries ==
    /\ usbks = Null => Chain = << >> /\ Entries = {}
    /\ usbks' = Null => Chain' = << >> /\ Entries' = {}
<1>1. Range(<< >>) = {}
  BY DEF Range
<1> QED
  BY <1>1 DEF Chain, Entries

(* Entries are addresses of memory that holds one.                         *)
LEMMA EntriesLive ==
    ASSUME ChainOK
    PROVE  /\ Entries \subseteq Ids
           /\ \A e \in Entries : heap[e] # Free /\ heap[e].next \in Entries \cup {Null}
           /\ usbks # Null => usbks.usbk \in Entries \cup {Null}
<1>1. CASE usbks = Null
  BY <1>1, NoEntries
<1>2. CASE usbks # Null
  BY <1>2, WholeWalk, WalkIsSeq DEF ChainOK, Entries
<1> QED
  BY <1>1, <1>2

(* A step that leaves the memory alone leaves the list alone.              *)
LEMMA SameMemory ==
    ASSUME UNCHANGED <<heap, usbks>>
    PROVE  /\ Chain' = Chain /\ Entries' = Entries /\ Live' = Live
           /\ DevNames' = DevNames
<1>1. Chain' = Chain
  BY DEF Chain
<1>2. Entries' = Entries
  BY <1>1 DEF Entries
<1>3. Live' = Live
  BY DEF Live, Address
<1> QED
  BY <1>1, <1>2, <1>3 DEF DevNames

(* Memory h whose entries are about the same devices and linked as now.    *)
SameLinks(h) ==
    /\ h \in [Ids -> Entry \cup {Free}]
    /\ \A e \in Ids :
          IF heap[e] = Free THEN h[e] = Free
          ELSE /\ h[e] # Free
               /\ h[e].dev = heap[e].dev /\ h[e].next = heap[e].next
               /\ h[e].usb_serial = heap[e].usb_serial /\ h[e].serial = heap[e].serial

(* Such a step leaves the list alone too.                                  *)
LEMMA SameList ==
    ASSUME ChainOK, SameLinks(heap'),
           usbks' = Null <=> usbks = Null, usbks # Null => usbks'.usbk = usbks.usbk
    PROVE  /\ Chain' = Chain /\ Entries' = Entries /\ Live' = Live
           /\ DevNames' = DevNames
           /\ usbks # Null => Whole(Chain, usbks'.usbk, heap')
<1>1. Live' = Live
  <2>1. Live' = {e \in Ids : heap'[e] # Free}
    BY DEF Live, Address
  <2> QED
    BY <2>1, LiveIs DEF SameLinks
<1>2. /\ Chain' = Chain /\ Entries' = Entries
      /\ usbks # Null => Whole(Chain, usbks'.usbk, heap')
  <2>1. CASE usbks = Null
    BY <2>1, NoEntries
  <2>2. CASE usbks # Null
    <3>1. \A e \in Range(Chain) : heap'[e] # Free /\ heap'[e].next = heap[e].next
      BY EntriesLive DEF SameLinks, Entries
    <3>2. Whole(Chain, usbks'.usbk, heap')
      BY <2>2, <3>1, WholeKept DEF ChainOK
    <3> QED
      BY <2>2, <3>2, ChainBecomes DEF Entries
  <2> QED
    BY <2>1, <2>2
<1>3. DevNames' = DevNames
  <2>1. \A e \in Entries : heap'[e].dev = heap[e].dev
    BY EntriesLive DEF SameLinks
  <2> QED
    BY <1>2, <2>1 DEF DevNames
<1> QED
  BY <1>1, <1>2, <1>3

-----------------------------------------------------------------------------
(* What goes on outside                                                    *)

(* Devices that are plugged or unplugged: the list stays as it is, and the *)
(* process knows nothing about that name any more.                         *)
LEMMA MovedKeeps ==
    ASSUME IInv, NEW n \in Names, NEW d \in Devices \cup {Absent},
           node' = [node EXCEPT ![n] = d], d = Absent \/ \A m \in Names : node[m] # d,
           backdisk' \subseteq Devices, active' = active \ {node[n]}, Moved(n)
    PROVE  IInv'
<1> USE DEF IInv
<1>1. /\ UNCHANGED <<pc, todo, new_usbk, heap, usbks, lost, list_entry, fds>>
      /\ asked' = asked \ {n}
      /\ \A m \in Names : m # n => node'[m] = node[m]
      /\ node'[n] = d
  BY DEF Moved, memory, ListTypeOK
<1>2. /\ Chain' = Chain /\ Entries' = Entries /\ Live' = Live /\ DevNames' = DevNames
      /\ InHand' = InHand
  BY <1>1, SameMemory DEF InHand
<1>3. \A e \in Entries : e \in Ids /\ heap[e] # Free /\ heap[e].dev \in Names
  BY EntriesLive DEF ListTypeOK, Entry
<1>4. ListTypeOK'
  <2>1. node' \in [Names -> Devices \cup {Absent}]
    BY DEF ListTypeOK
  <2>2. moved' \subseteq Names /\ asked' \subseteq Names /\ quiet' \in BOOLEAN
        /\ active' \subseteq Devices
    BY DEF ListTypeOK, Moved
  <2> QED
    BY <1>1, <2>1, <2>2 DEF ListTypeOK
<1>5. InPlace' /\ ChainOK' /\ OnlyNullLoses' /\ MemoryLeft' /\ NamesApart'
  BY <1>1, <1>2 DEF InPlace, ChainOK, OnlyNullLoses, MemoryLeft, NamesApart
<1>6. NodesApart'
  BY <1>1 DEF NodesApart, Plugged
<1>7. FoundIsThere'
  <2>1. usbks # Null => moved' = moved \cup {n}
    BY DEF Moved
  <2>2. ASSUME pc = "read" PROVE usbks # Null /\ new_usbk.dev \in Names
    BY <2>2 DEF InPlace, NoList, ListTypeOK, Making
  <2> QED
    BY <1>1, <2>1, <2>2 DEF FoundIsThere
<1>8. EntryIsOneDevice'
  <2>1. CASE usbks = Null
    <3>1. Entries' = {}
      BY <1>2, <2>1, NoEntries
    <3> QED
      BY ONLY <3>1 DEF EntryIsOneDevice
  <2>2. CASE usbks # Null
    <3>1. moved' = moved \cup {n}
      BY <2>2 DEF Moved
    <3> QED
      BY <1>1, <1>2, <1>3, <3>1 DEF EntryIsOneDevice
  <2> QED
    BY <2>1, <2>2
<1>9. CurrentOrMarked'
  <2>1. ASSUME NEW m \in Names, m # n, Plugged(m)
        PROVE  t_UIP_DEVINFO(m)' = t_UIP_DEVINFO(m)
    <3>1. node[m] # node[n]
      BY <2>1 DEF NodesApart
    <3>2. node'[m] = node[m] /\ (node'[m] \in active' <=> node[m] \in active)
      BY <1>1, <2>1, <3>1
    <3> QED
      BY <3>2 DEF t_UIP_DEVINFO
  <2>2. ASSUME NEW e \in Entries, heap[e].lastopr = USBK_LO_PASS, heap[e].dev \in asked'
        PROVE  /\ heap[e].dev_label = t_UIP_DEVINFO(heap[e].dev).devlabel'
               /\ heap[e].dev_state = t_UIP_DEVINFO(heap[e].dev).devstate'
    <3>1. heap[e].dev \in Names /\ heap[e].dev # n /\ heap[e].dev \in asked
      BY <1>1, <1>3, <2>2
    <3>2. heap[e].dev_label = node[heap[e].dev]
          /\ heap[e].dev_state = t_UIP_DEVINFO(heap[e].dev).devstate
      BY <2>2, <3>1 DEF CurrentOrMarked, t_UIP_DEVINFO
    <3>3. Plugged(heap[e].dev)
      BY <1>3, <3>2, NothingAssumption DEF Plugged, ListTypeOK, Entry
    <3>4. t_UIP_DEVINFO(heap[e].dev)' = t_UIP_DEVINFO(heap[e].dev)
      BY <1>1, <2>1, <3>1, <3>3
    <3> QED
      BY <1>1, <3>2, <3>4 DEF t_UIP_DEVINFO
  <2> QED
    BY <1>1, <1>2, <2>2 DEF CurrentOrMarked
<1>10. NoneMissing'
  BY <1>1 DEF NoneMissing, Moved, InPlace, NoList, Working
<1> QED
  BY <1>4, <1>5, <1>6, <1>7, <1>8, <1>9, <1>10

(* A device is plugged in.                                                 *)
LEMMA PlugKeeps == ASSUME IInv, Plug PROVE IInv'
<1>1. PICK n \in Names, d \in Devices :
        /\ ~Plugged(n) /\ \A m \in Names : node[m] # d
        /\ node' = [node EXCEPT ![n] = d]
        /\ UNCHANGED <<backdisk, active>> /\ Moved(n)
  BY DEF Plug
<1>2. active' = active \ {node[n]} /\ backdisk' \subseteq Devices
  BY <1>1, NothingAssumption DEF IInv, ListTypeOK, Plugged
<1> QED
  BY <1>1, <1>2, MovedKeeps

(* A device goes: its entry stays in the list.                             *)
LEMMA UnplugKeeps == ASSUME IInv, Unplug PROVE IInv'
  BY MovedKeeps DEF Unplug, IInv, ListTypeOK

(* Another process commands a device: what the process knew of its state   *)
(* may be out of date, and of no other.                                    *)
LEMMA ChangedKeeps == ASSUME IInv, Changed PROVE IInv'
<1> USE DEF IInv
<1>1. PICK n \in Names :
        /\ node[n] \in Known
        /\ active' = IF node[n] \in active THEN active \ {node[n]} ELSE active \cup {node[n]}
        /\ asked' = asked \ {n}
  BY DEF Changed
<1>2. UNCHANGED <<node, backdisk, pc, todo, new_usbk, heap, usbks, lost, list_entry, fds,
                  moved, quiet>>
  BY DEF Changed, memory
<1>3. /\ Chain' = Chain /\ Entries' = Entries /\ Live' = Live /\ DevNames' = DevNames
      /\ InHand' = InHand
  BY <1>2, SameMemory DEF InHand
<1>4. \A e \in Entries : e \in Ids /\ heap[e] # Free /\ heap[e].dev \in Names
  BY EntriesLive DEF ListTypeOK, Entry
<1>5. ListTypeOK' /\ InPlace' /\ MemoryLeft' /\ FoundIsThere'
  BY <1>1, <1>2, <1>3, KnownAssumption DEF ListTypeOK, InPlace, MemoryLeft, FoundIsThere
<1>6. ChainOK' /\ OnlyNullLoses' /\ NamesApart'
  BY <1>2, <1>3 DEF ChainOK, OnlyNullLoses, NamesApart
<1>7. EntryIsOneDevice' /\ NodesApart'
  BY <1>2, <1>3 DEF EntryIsOneDevice, NodesApart, Plugged
<1>8. CurrentOrMarked'
  <2>1. ASSUME NEW m \in Names, m # n PROVE node[m] \in active' <=> node[m] \in active
    <3>1. Plugged(n) /\ node[m] # node[n]
      BY <1>1, <2>1, KnownAssumption, NothingAssumption DEF NodesApart, Plugged
    <3> QED
      BY <1>1, <3>1
  <2>2. ASSUME NEW e \in Entries, heap[e].dev \in asked'
        PROVE  /\ heap[e].dev \in asked
               /\ node[heap[e].dev] \in active' <=> node[heap[e].dev] \in active
    BY <1>1, <1>4, <2>1, <2>2
  <2>3. ASSUME NEW e \in Entries, heap[e].dev \in asked'
        PROVE  t_UIP_DEVINFO(heap[e].dev)' = t_UIP_DEVINFO(heap[e].dev)
    BY <1>2, <2>2, <2>3 DEF t_UIP_DEVINFO
  <2> QED
    BY <1>2, <1>3, <2>2, <2>3 DEF CurrentOrMarked, t_UIP_DEVINFO
<1>9. NoneMissing'
  BY <1>2, <1>3 DEF NoneMissing, Plugged
<1> QED
  BY <1>5, <1>6, <1>7, <1>8, <1>9

-----------------------------------------------------------------------------
(* Steps that leave the memory alone                                       *)

(* One turn of the enumeration skips a name or enters a device not in the  *)
(* list.                                                                   *)
LEMMA VisitKeeps == ASSUME IInv, NEW n \in Names, Visit(n) PROVE IInv'
<1> USE DEF IInv
<1>1. /\ pc = "scan" /\ n \in todo /\ todo' = todo \ {n} /\ new_usbk = Null
      /\ UNCHANGED <<node, backdisk, active, heap, usbks, lost, list_entry, fds, moved, asked,
                     quiet>>
      /\ \/ Skip(n)
         \/ Plugged(n) /\ pc' = "find" /\ new_usbk' = [dev |-> n, usb_serial |-> Null]
  BY DEF Visit, Enter, outside, memory, InPlace
<1>2. /\ Chain' = Chain /\ Entries' = Entries /\ Live' = Live /\ DevNames' = DevNames
  BY <1>1, SameMemory
<1>3. /\ IsFiniteSet(todo) /\ Cardinality(todo) \in Nat
      /\ Cardinality(todo') = Cardinality(todo) - 1
      /\ IsFiniteSet(Live) /\ Cardinality(Live) \in Nat
  <2>1. IsFiniteSet(todo)
    BY NamesAssumption, FS_Subset DEF ListTypeOK
  <2>2. IsFiniteSet(Live)
    <3>1. Live \in SUBSET Ids
      BY LiveIs
    <3>2. IsFiniteSet(Ids)
      BY FS_Interval, EntriesAssumption DEF Ids
    <3> QED
      BY <3>1, <3>2, FS_Subset
  <2> QED
    BY <1>1, <2>1, <2>2, FS_RemoveElement, FS_CardinalityType
<1>4. ChainOK' /\ OnlyNullLoses' /\ EntryIsOneDevice' /\ CurrentOrMarked' /\ NodesApart'
  BY <1>1, <1>2 DEF ChainOK, OnlyNullLoses, EntryIsOneDevice, CurrentOrMarked,
                  NodesApart, Plugged, t_UIP_DEVINFO
<1>5. CASE Skip(n)
  <2>1. UNCHANGED <<pc, new_usbk>> /\ (~Plugged(n) \/ n \in moved)
    BY <1>5 DEF Skip
  <2>2. ListTypeOK' /\ InPlace' /\ FoundIsThere'
    BY <1>1, <1>2, <2>1 DEF ListTypeOK, InPlace, FoundIsThere, Working
  <2>3. MemoryLeft'
    BY <1>1, <1>2, <1>3, <2>1, EntriesAssumption DEF MemoryLeft
  <2>4. NamesApart'
    BY <1>1, <1>2, <2>1 DEF NamesApart, InHand
  <2>5. NoneMissing'
    <3>1. ASSUME quiet PROVE moved = {} /\ Plugged(n)
      BY <1>1, <3>1 DEF NoneMissing, Working, ListTypeOK
    <3> QED
      BY <1>1, <2>1, <3>1 DEF NoneMissing
  <2> QED
    BY <1>4, <2>2, <2>3, <2>4, <2>5
<1>6. CASE ~Skip(n)
  <2>1. pc' = "find" /\ new_usbk' = [dev |-> n, usb_serial |-> Null]
    BY <1>1, <1>6
  <2>2. new_usbk' \in Making /\ new_usbk' # Null /\ new_usbk'.dev = n
    BY <2>1, NothingAssumption DEF Making
  <2>3. ListTypeOK' /\ InPlace' /\ FoundIsThere'
    BY <1>1, <1>2, <2>1, <2>2 DEF ListTypeOK, InPlace, FoundIsThere, Working, Places, NoList
  <2>4. MemoryLeft'
    BY <1>1, <1>2, <1>3, <2>2, EntriesAssumption DEF MemoryLeft, Working
  <2>5. InHand = {} /\ InHand' = {n}
    BY <1>1, <2>2 DEF InHand
  <2>6. NamesApart'
    BY <1>1, <1>2, <2>5 DEF NamesApart
  <2>7. NoneMissing'
    BY <1>1, <1>2, <2>1, <2>5 DEF NoneMissing, Plugged, Working
  <2> QED
    BY <1>4, <2>3, <2>4, <2>6, <2>7
<1> QED
  BY <1>5, <1>6

(* The process takes another place, with the same in its hands.            *)
LEMMA PlaceKeeps ==
    ASSUME IInv, pc' \in Places,
           UNCHANGED <<node, active, todo, new_usbk, heap, usbks, lost, fds, moved, asked,
                       quiet>>,
           backdisk' \subseteq Devices, list_entry' \in Ids \cup {Null},
           pc' = "refresh" => list_entry' \in Entries \cup {Null},
           usbks = Null <=> pc' \in NoList,
           new_usbk = Null <=> pc' \notin {"find", "read"},
           pc' = "read" <=> pc = "read",
           pc' \in Working => pc \in Working,
           pc' \notin Working => todo = {},
           pc' \in {"listed", "refresh"} => pc \in Working \cup {"listed", "refresh"}
    PROVE  IInv'
<1> USE DEF IInv
<1>1. /\ Chain' = Chain /\ Entries' = Entries /\ Live' = Live /\ DevNames' = DevNames
      /\ InHand' = InHand
  BY SameMemory DEF InHand
<1>2. ListTypeOK' /\ InPlace'
  BY <1>1 DEF ListTypeOK, InPlace
<1>3. ChainOK' /\ OnlyNullLoses' /\ MemoryLeft'
  BY <1>1 DEF ChainOK, OnlyNullLoses, MemoryLeft
<1>4. NamesApart' /\ FoundIsThere' /\ EntryIsOneDevice' /\ CurrentOrMarked' /\ NodesApart'
  BY <1>1 DEF NamesApart, FoundIsThere, EntryIsOneDevice, CurrentOrMarked,
                  NodesApart, Plugged, t_UIP_DEVINFO
<1>5. NoneMissing'
  BY <1>1 DEF NoneMissing, Plugged
<1> QED
  BY <1>2, <1>3, <1>4, <1>5

(* usbk_list_new returns: nothing but the place in the program changes.    *)
LEMMA ReturnKeeps == ASSUME IInv, Return PROVE IInv'
  BY PlaceKeeps DEF Return, IInv, ListTypeOK, InPlace, Places, NoList, Working, outside, memory

(* usbk_list_release starts with the list as it is.                        *)
LEMMA ReleaseKeeps == ASSUME IInv, usbk_list_release PROVE IInv'
  BY PlaceKeeps DEF usbk_list_release, IInv, ListTypeOK, InPlace, Places, NoList, Working,
                    outside, memory

(* usbk_list_refreshall starts at the first entry, which is in use.        *)
LEMMA RefreshAllKeeps == ASSUME IInv, usbk_list_refreshall PROVE IInv'
<1>1. usbks # Null
  BY DEF IInv, usbk_list_refreshall, InPlace, NoList
<1>2. list_entry' = usbks.usbk /\ usbks.usbk \in Entries \cup {Null} /\ Entries \subseteq Ids
  BY <1>1, EntriesLive DEF IInv, usbk_list_refreshall
<1> QED
  BY <1>1, <1>2, PlaceKeeps DEF usbk_list_refreshall, IInv, ListTypeOK, InPlace, Places,
     NoList, Working, outside, memory

(* linuxcli_show_devices only reads the list, or crashes on NULL.          *)
LEMMA ShowKeeps == ASSUME IInv, linuxcli_show_devices PROVE IInv'
  BY PlaceKeeps DEF linuxcli_show_devices, IInv, ListTypeOK, InPlace, Places, NoList, Working,
                    outside, memory

(* A user that tries again after NULL holds no list.                       *)
LEMMA TryAgainKeeps == ASSUME IInv, TryAgain PROVE IInv'
  BY PlaceKeeps DEF TryAgain, IInv, ListTypeOK, InPlace, Places, NoList, Working,
                    outside, memory

(* A BackDisk appears: the memory is not concerned.                        *)
LEMMA BackDiskShownKeeps == ASSUME IInv, BackDiskShown PROVE IInv'
<1>1. backdisk' \subseteq Devices
  BY DEF BackDiskShown, IInv, ListTypeOK, Plugged
<1> QED
  BY <1>1, PlaceKeeps DEF BackDiskShown, IInv, ListTypeOK, InPlace, memory

(* Nothing happens.                                                        *)
LEMMA StutterKeeps == ASSUME IInv, UNCHANGED vars PROVE IInv'
  BY PlaceKeeps DEF vars, IInv, ListTypeOK, InPlace, outside, memory

-----------------------------------------------------------------------------
(* Beginning and ending a list                                             *)

(* An exchange passes only with a device, and loses at most the descriptor *)
(* it has.                                                                 *)
LEMMA ExchangeIs ==
    ASSUME NEW plugged \in BOOLEAN, NEW n \in 0 .. MaxFds,
           NEW io \in send_scsi_command(plugged, n)
    PROVE  io.fds \in 0 .. MaxFds /\ (~(io.rtn < 0) => plugged)
<1> USE FdsAssumption DEF USBK_SCSI_PASS, USBK_SCSI_OPEN_FAIL, USBK_SCSI_TRANSFER_FAIL,
        USBK_SG_PASS, USBK_SG_ERR_NOT_DEVICE
<1>1. CASE plugged /\ n < MaxFds
  <2>1. PICK t \in usbk_sg_tansfer : io = Exchange(t, n)
    BY <1>1 DEF send_scsi_command, usbk_sg_open
  <2> QED
    BY <1>1, <2>1 DEF Exchange
<1>2. CASE ~(plugged /\ n < MaxFds)
  BY <1>2 DEF send_scsi_command, usbk_sg_open
<1> QED
  BY <1>1, <1>2

(* usbk_list_new begins with an empty chain.                               *)
LEMMA NewListKeeps == ASSUME IInv, usbk_list_new PROVE IInv'
<1> USE DEF IInv
<1>1. /\ pc = "idle" /\ pc' = "scan" /\ usbks = Null /\ new_usbk = Null
      /\ usbks' = [usbk |-> Null, counter |-> 0, lastopr |-> USBK_LO_PASS]
      /\ todo' = {n \in Names : Plugged(n)}
      /\ moved' = {} /\ asked' = {} /\ quiet' = TRUE
      /\ Cardinality(Live) + Cardinality(Names) <= MaxEntries
      /\ UNCHANGED <<node, backdisk, active, new_usbk, heap, list_entry, fds, lost>>
  BY DEF usbk_list_new, InPlace, NoList, outside
<1>2. usbks' \in Lists /\ usbks' # Null
  <2>1. USBK_LO_PASS \in USBK_LO /\ 0 \in 0 .. MaxEntries
    BY EntriesAssumption DEF USBK_LO, USBK_LO_PASS
  <2>2. usbks' \in Lists
    BY <1>1, <2>1 DEF Lists
  <2> QED
    BY <2>2, NothingAssumption
<1>3. Entries = {} /\ Chain' = << >> /\ Entries' = {} /\ Whole(Chain', usbks'.usbk, heap')
  <2>1. Range(<< >>) = {}
    BY DEF Range
  <2>2. Whole(<< >>, usbks'.usbk, heap')
    BY <1>1, EmptyWhole
  <2> QED
    BY <1>1, <1>2, <2>1, <2>2, NoEntries, ChainBecomes
<1>4. DevNames' = {} /\ InHand' = {} /\ Live' = Live
  BY <1>1, <1>3 DEF DevNames, InHand, Live, Address
<1>5. ListTypeOK' /\ InPlace'
  BY <1>1, <1>2, <1>3 DEF ListTypeOK, InPlace, Places, NoList, Working
<1>6. ChainOK' /\ OnlyNullLoses'
  BY <1>1, <1>2, <1>3, <1>4 DEF ChainOK, OnlyNullLoses
<1>7. MemoryLeft'
  <2>1. /\ IsFiniteSet(todo') /\ Cardinality(todo') <= Cardinality(Names)
        /\ Cardinality(todo') \in Nat /\ Cardinality(Names) \in Nat
    BY <1>1, NamesAssumption, FS_Subset, FS_CardinalityType
  <2>2. Cardinality(Live) \in Nat
    <3>1. Live \in SUBSET Ids /\ IsFiniteSet(Ids)
      BY LiveIs, FS_Interval, EntriesAssumption DEF Ids
    <3> QED
      BY <3>1, FS_Subset, FS_CardinalityType
  <2> QED
    BY <1>1, <1>4, <2>1, <2>2, EntriesAssumption DEF MemoryLeft
<1>8. NamesApart' /\ FoundIsThere' /\ EntryIsOneDevice' /\ CurrentOrMarked' /\ NodesApart'
  BY <1>1, <1>3, <1>4 DEF NamesApart, FoundIsThere, EntryIsOneDevice, CurrentOrMarked,
                  NodesApart, Plugged, t_UIP_DEVINFO
<1>9. NoneMissing'
  BY <1>1, <1>4 DEF NoneMissing, Plugged
<1> QED
  BY <1>5, <1>6, <1>7, <1>8, <1>9

(* The list is given up: its entries are lost, and nothing else is.        *)
LEMMA GiveUpKeeps ==
    ASSUME IInv, pc \in Working, NEW place \in {"none", "faulted"}, GiveUp(place),
           fds' \in 0 .. MaxFds
    PROVE  IInv'
<1> USE DEF IInv
<1>1. /\ pc' = place /\ usbks' = Null /\ new_usbk' = Null /\ todo' = {} /\ moved' = {}
      /\ asked' = {} /\ quiet' = TRUE /\ lost' = lost \cup Entries
      /\ UNCHANGED <<node, backdisk, active, heap, list_entry>>
  BY DEF GiveUp, outside
<1>2. Entries' = {} /\ Live' = Live /\ Entries \subseteq Ids
  BY <1>1, NoEntries, EntriesLive DEF Live, Address
<1>3. DevNames' = {} /\ InHand' = {}
  BY <1>1, <1>2 DEF DevNames, InHand
<1>4. ListTypeOK' /\ InPlace'
  BY <1>1, <1>2 DEF ListTypeOK, InPlace, Places, NoList, Working
<1>5. ChainOK' /\ OnlyNullLoses' /\ MemoryLeft'
  BY <1>1, <1>2 DEF ChainOK, OnlyNullLoses, MemoryLeft, Working
<1>6. NamesApart' /\ FoundIsThere' /\ EntryIsOneDevice' /\ CurrentOrMarked' /\ NodesApart'
  BY <1>1, <1>2, <1>3 DEF NamesApart, FoundIsThere, EntryIsOneDevice, CurrentOrMarked,
                  NodesApart, Plugged, t_UIP_DEVINFO
<1>7. NoneMissing'
  BY <1>1 DEF NoneMissing, Working
<1> QED
  BY <1>4, <1>5, <1>6, <1>7

(* getudevinfo fills in the device, or the list is given up.               *)
LEMMA FindKeeps == ASSUME IInv, Find PROVE IInv'
<1> USE DEF IInv
<1>1. pc = "find" /\ fds' = fds
  BY DEF Find
<1>2. CASE Found(new_usbk.dev) = {} /\ ReturnNull
  BY <1>1, <1>2, GiveUpKeeps DEF ReturnNull, Working, ListTypeOK
<1>4. CASE GiveUp("faulted")
  BY <1>1, <1>4, GiveUpKeeps DEF Working, ListTypeOK
<1>3. ASSUME NEW d \in Found(new_usbk.dev), pc' = "read",
             new_usbk' = [new_usbk EXCEPT !.usb_serial = d],
             moved' = moved \ {new_usbk.dev},
             UNCHANGED <<outside, todo, memory, list_entry, asked, quiet>>
      PROVE  IInv'
  <2>1. UNCHANGED <<node, backdisk, active, heap, usbks, lost, todo, list_entry, asked, quiet,
                    fds>>
    BY <1>1, <1>3 DEF outside, memory
  <2>2. /\ new_usbk # Null /\ new_usbk' # Null /\ new_usbk \in Making /\ new_usbk' \in Making
        /\ new_usbk'.dev = new_usbk.dev /\ new_usbk'.usb_serial = d
        /\ d \in Devices /\ node[new_usbk.dev] = d
    <3>1. new_usbk \in Making /\ new_usbk # Null
      BY <1>1 DEF InPlace, ListTypeOK
    <3>2. d \in Devices /\ node[new_usbk.dev] = d
      BY <1>3, KnownAssumption DEF Found
    <3>3. new_usbk' \in Making /\ new_usbk'.dev = new_usbk.dev /\ new_usbk'.usb_serial = d
      BY <1>3, <3>1, <3>2 DEF Making
    <3> QED
      BY <3>1, <3>2, <3>3, NothingAssumption
  <2>3. /\ Chain' = Chain /\ Entries' = Entries /\ Live' = Live /\ DevNames' = DevNames
        /\ InHand' = InHand
    BY <2>1, <2>2, SameMemory DEF InHand
  <2>4. ListTypeOK' /\ InPlace'
    BY <1>1, <1>3, <2>1, <2>2, <2>3 DEF ListTypeOK, InPlace, Places, NoList, Working
  <2>5. ChainOK' /\ OnlyNullLoses' /\ CurrentOrMarked' /\ NamesApart' /\ NodesApart'
    BY <2>1, <2>3 DEF ChainOK, OnlyNullLoses, CurrentOrMarked, NamesApart, NodesApart,
                      t_UIP_DEVINFO, Plugged
  <2>6. MemoryLeft'
    BY <1>1, <2>1, <2>2, <2>3 DEF MemoryLeft, Working
  <2>7. FoundIsThere'
    BY <2>1, <2>2 DEF FoundIsThere
  <2>8. EntryIsOneDevice'
    <3>1. \A e \in Entries : heap[e].dev # new_usbk.dev
      BY <2>2 DEF NamesApart, DevNames, InHand
    <3> QED
      BY <1>3, <2>1, <2>3, <3>1 DEF EntryIsOneDevice
  <2>9. NoneMissing'
    BY <1>1, <1>3, <2>1, <2>3 DEF NoneMissing, Plugged, Working
  <2> QED
    BY <2>4, <2>5, <2>6, <2>7, <2>8, <2>9
<1> QED
  BY <1>2, <1>4, <1>3 DEF Find

(* At the end of the program all memory is free and nothing is lost.       *)
LEMMA ExitKeeps == ASSUME IInv, Exit PROVE IInv'
<1> USE DEF IInv
<1>1. /\ pc \in NoList /\ pc' = "idle" /\ usbks = Null /\ fds' = 0
      /\ heap' = [e \in Ids |-> Free] /\ lost' = {}
      /\ UNCHANGED <<node, backdisk, active, todo, new_usbk, usbks, list_entry, moved, asked,
                     quiet>>
  BY DEF Exit, InPlace, outside, NoList
<1>2. Entries' = {} /\ Live' = {}
  BY <1>1, NoEntries DEF Live, Address
<1>3. DevNames' = {} /\ InHand' = {} /\ new_usbk = Null /\ todo = {}
  BY <1>1, <1>2 DEF DevNames, InHand, InPlace, NoList, Working
<1>4. ListTypeOK' /\ InPlace'
  BY <1>1, <1>2, <1>3, FdsAssumption DEF ListTypeOK, InPlace, Places, NoList, Working
<1>5. ChainOK' /\ OnlyNullLoses' /\ MemoryLeft'
  BY <1>1, <1>2 DEF ChainOK, OnlyNullLoses, MemoryLeft, Working
<1>6. NamesApart' /\ FoundIsThere' /\ EntryIsOneDevice' /\ CurrentOrMarked' /\ NodesApart'
  BY <1>1, <1>2, <1>3 DEF NamesApart, FoundIsThere, EntryIsOneDevice, CurrentOrMarked,
                  NodesApart, Plugged, t_UIP_DEVINFO
<1>7. NoneMissing'
  BY <1>1 DEF NoneMissing, Working
<1> QED
  BY <1>4, <1>5, <1>6, <1>7

-----------------------------------------------------------------------------
(* Refreshing                                                              *)

(* A refreshed entry keeps its name, its serial numbers and its links; it  *)
(* says PASS only if it shows what the device answered.                    *)
LEMMA RefreshedIs ==
    ASSUME NEW entry \in Entry, NEW info, NEW rtn,
           ~(rtn < 0) => info.devlabel \in Devices
                         /\ info.devstate \in {USBK_DS_DEACTIVATE, USBK_DS_ACTIVATE}
    PROVE  LET new == Refreshed(entry, info, rtn)
           IN  /\ new \in Entry
               /\ new.dev = entry.dev /\ new.next = entry.next
               /\ new.usb_serial = entry.usb_serial /\ new.serial = entry.serial
               /\ new.dev_label = entry.dev_label \/ new.dev_label = info.devlabel
               /\ new.lastopr = USBK_LO_PASS =>
                      ~(rtn < 0) /\ new.dev_label = info.devlabel
                      /\ new.dev_state = info.devstate
               /\ rtn < 0 => new.dev_label = entry.dev_label
<1> DEFINE new == Refreshed(entry, info, rtn)
<1>1. CASE rtn < 0
  <2>1. new = [entry EXCEPT !.lastopr = USBK_LO_SCSI_ERROR]
    BY <1>1 DEF Refreshed
  <2>2. USBK_LO_SCSI_ERROR # USBK_LO_PASS
    BY DEF USBK_LO_SCSI_ERROR, USBK_LO_PASS
  <2> HIDE DEF new
  <2>3. /\ new \in Entry /\ new.lastopr = USBK_LO_SCSI_ERROR
        /\ new.dev = entry.dev /\ new.next = entry.next
        /\ new.usb_serial = entry.usb_serial /\ new.serial = entry.serial
        /\ new.dev_label = entry.dev_label
    BY <2>1 DEF Entry
  <2> QED
    BY <2>2, <2>3 DEF new
<1>2. CASE ~(rtn < 0)
  <2> DEFINE label == info.devlabel
             state == info.devstate
  <2>1. /\ new = [entry EXCEPT !.lastopr = USBK_LO_PASS, !.dev_label = label,
                               !.dev_state = state]
        /\ label \in Devices /\ state \in {USBK_DS_DEACTIVATE, USBK_DS_ACTIVATE}
    BY <1>2 DEF Refreshed
  <2> HIDE DEF new, label, state
  <2>2. /\ new \in Entry /\ new.dev = entry.dev /\ new.next = entry.next
        /\ new.usb_serial = entry.usb_serial /\ new.serial = entry.serial
        /\ new.dev_label = label /\ new.dev_state = state
    BY <2>1 DEF Entry
  <2> QED
    BY <1>2, <2>2 DEF new, label, state
<1> QED
  BY <1>1, <1>2

(* What a device answers can be an entry's label and state.                *)
LEMMA AnswerIs ==
    ASSUME ListTypeOK, NEW n \in Names, Plugged(n)
    PROVE  /\ t_UIP_DEVINFO(n).devlabel = node[n] /\ t_UIP_DEVINFO(n).serial = node[n]
           /\ node[n] \in Devices
           /\ t_UIP_DEVINFO(n).devstate \in {USBK_DS_DEACTIVATE, USBK_DS_ACTIVATE}
  BY DEF t_UIP_DEVINFO, ListTypeOK, Plugged

(* Refreshing an entry writes its fields, none of its links, and walks on. *)
LEMMA RefreshEntryKeeps == ASSUME IInv, RefreshEntry PROVE IInv'
<1> USE DEF IInv
<1>1. /\ pc = "refresh"
      /\ UNCHANGED <<node, backdisk, active, todo, new_usbk, lost, moved, quiet>>
  BY DEF RefreshEntry, outside
<1>2. usbks # Null /\ todo = {} /\ new_usbk = Null /\ usbks \in Lists
  BY <1>1 DEF InPlace, NoList, Working, ListTypeOK
<1>3. Entries \subseteq Ids /\ \A e \in Entries : heap[e] # Free
  BY EntriesLive
<1>4. CASE list_entry = Null
  <2>1. /\ pc' = "listed" /\ usbks' = [usbks EXCEPT !.lastopr = USBK_LO_PASS]
        /\ UNCHANGED <<heap, list_entry, fds, asked>>
    BY <1>4 DEF RefreshEntry
  <2>2. /\ usbks' \in Lists /\ usbks' # Null
        /\ usbks'.usbk = usbks.usbk /\ usbks'.counter = usbks.counter
    <3>1. USBK_LO_PASS \in USBK_LO
      BY DEF USBK_LO, USBK_LO_PASS
    <3>2. /\ usbks' \in Lists
          /\ usbks'.usbk = usbks.usbk /\ usbks'.counter = usbks.counter
      BY <1>2, <2>1, <3>1 DEF Lists
    <3> QED
      BY <3>2, NothingAssumption
  <2>3. SameLinks(heap')
    BY <2>1 DEF SameLinks, ListTypeOK
  <2>4. /\ Chain' = Chain /\ Entries' = Entries /\ Live' = Live /\ DevNames' = DevNames
        /\ Whole(Chain, usbks'.usbk, heap') /\ InHand' = InHand
    BY <1>1, <1>2, <2>2, <2>3, SameList DEF InHand
  <2>5. ListTypeOK' /\ InPlace'
    BY <1>1, <1>2, <2>1, <2>2, <2>4 DEF ListTypeOK, InPlace, Places, NoList, Working
  <2>6. ChainOK' /\ OnlyNullLoses' /\ MemoryLeft'
    BY <1>1, <1>2, <2>1, <2>2, <2>4 DEF ChainOK, OnlyNullLoses, MemoryLeft, Working
  <2>7. NamesApart' /\ FoundIsThere' /\ EntryIsOneDevice' /\ CurrentOrMarked' /\ NodesApart'
    BY <1>1, <2>1, <2>4 DEF NamesApart, FoundIsThere, EntryIsOneDevice, CurrentOrMarked,
                  NodesApart, Plugged, t_UIP_DEVINFO
  <2>8. NoneMissing'
    BY <1>1, <2>1, <2>4 DEF NoneMissing, Plugged
  <2> QED
    BY <2>5, <2>6, <2>7, <2>8
<1>5. CASE list_entry # Null
  <2> DEFINE n    == heap[list_entry].dev
             info == t_UIP_DEVINFO(n)
             new  == heap'[list_entry]
  <2>1. PICK io \in send_scsi_command(Plugged(n), fds) :
          /\ fds' = io.fds
          /\ heap' = [heap EXCEPT ![list_entry] = Refreshed(@, info, io.rtn)]
          /\ list_entry' = heap[list_entry].next
          /\ asked' = asked \cup {n}
          /\ UNCHANGED <<pc, usbks>>
    BY <1>5 DEF RefreshEntry
  <2>2. /\ list_entry \in Entries /\ list_entry \in Ids /\ heap[list_entry] \in Entry
        /\ list_entry' \in Entries \cup {Null} /\ n \in Names
    BY <1>1, <1>3, <1>5, <2>1, EntriesLive DEF InPlace, ListTypeOK, Entry
  <2>3. fds' \in 0 .. MaxFds /\ (~(io.rtn < 0) => Plugged(n))
    BY <2>1, ExchangeIs DEF ListTypeOK, Plugged
  <2>4. ~(io.rtn < 0) =>
           /\ info.devlabel = node[n] /\ info.devlabel \in Devices
           /\ info.devstate \in {USBK_DS_DEACTIVATE, USBK_DS_ACTIVATE}
    BY <2>2, <2>3, AnswerIs
  <2> HIDE DEF info
  <2>5. /\ new \in Entry /\ new.dev = n /\ new.next = heap[list_entry].next
        /\ new.usb_serial = heap[list_entry].usb_serial
        /\ new.serial = heap[list_entry].serial
        /\ new.dev_label = heap[list_entry].dev_label \/ new.dev_label = node[n]
        /\ new.lastopr = USBK_LO_PASS =>
               new.dev_label = info.devlabel /\ new.dev_state = info.devstate
        /\ \A e \in Ids : e # list_entry => heap'[e] = heap[e]
        /\ heap' \in [Ids -> Entry \cup {Free}]
    <3>1. new = Refreshed(heap[list_entry], info, io.rtn)
      BY <2>1, <2>2 DEF ListTypeOK
    <3> DEFINE entry == heap[list_entry]
    <3> HIDE DEF new, entry
    <3>2. entry \in Entry /\ new = Refreshed(entry, info, io.rtn)
      BY <2>2, <3>1 DEF entry
    <3>3. /\ new \in Entry /\ new.dev = entry.dev /\ new.next = entry.next
          /\ new.usb_serial = entry.usb_serial
          /\ new.serial = entry.serial
          /\ new.dev_label = entry.dev_label \/ new.dev_label = info.devlabel
          /\ new.lastopr = USBK_LO_PASS =>
                 ~(io.rtn < 0) /\ new.dev_label = info.devlabel
                 /\ new.dev_state = info.devstate
          /\ io.rtn < 0 => new.dev_label = entry.dev_label
      BY <2>4, <3>2, RefreshedIs
    <3>4. /\ \A e \in Ids : e # list_entry => heap'[e] = heap[e]
          /\ heap' \in [Ids -> Entry \cup {Free}]
      BY <2>1, <2>2, <3>2, <3>3 DEF ListTypeOK, entry
    <3> QED
      BY <2>4, <3>3, <3>4 DEF entry
  <2> HIDE DEF new
  <2>6. SameLinks(heap')
    BY <2>2, <2>5, NothingAssumption DEF SameLinks, new
  <2>7. /\ Chain' = Chain /\ Entries' = Entries /\ Live' = Live /\ DevNames' = DevNames
        /\ Whole(Chain, usbks'.usbk, heap') /\ InHand' = InHand
    BY <1>1, <1>2, <2>1, <2>6, SameList DEF InHand
  <2>8. ListTypeOK' /\ InPlace'
    BY <1>1, <2>1, <2>2, <2>3, <2>5, <2>7, <1>3 DEF ListTypeOK, InPlace
  <2>9. ChainOK' /\ OnlyNullLoses' /\ MemoryLeft'
    BY <1>1, <1>2, <2>1, <2>7 DEF ChainOK, OnlyNullLoses, MemoryLeft
  <2>10. \A e \in Entries : /\ heap'[e].dev = heap[e].dev
                            /\ heap'[e].usb_serial = heap[e].usb_serial
                            /\ heap'[e].serial = heap[e].serial
    BY <1>3, <2>6 DEF SameLinks
  <2>11. NamesApart' /\ NodesApart' /\ FoundIsThere'
    BY <1>1, <2>1, <2>7, <2>10 DEF NamesApart, NodesApart, FoundIsThere, Plugged
  <2>12. EntryIsOneDevice'
    <3>1. ASSUME NEW e \in Entries, heap[e].dev \notin moved
          PROVE  heap'[e].dev_label = heap'[e].serial
      BY <1>3, <2>2, <2>5, <2>10, <3>1 DEF EntryIsOneDevice, new
    <3> QED
      BY <1>1, <2>7, <2>10, <3>1 DEF EntryIsOneDevice
  <2>13. CurrentOrMarked'
    <3>1. \A m : t_UIP_DEVINFO(m)' = t_UIP_DEVINFO(m)
      BY <1>1 DEF t_UIP_DEVINFO
    <3>2. ASSUME NEW e \in Entries, e # list_entry
          PROVE  heap'[e] = heap[e] /\ (heap[e].dev \in asked' => heap[e].dev \in asked)
      BY <1>3, <2>1, <2>2, <2>5, <3>2 DEF NamesApart
    <3>3. ASSUME NEW e \in Entries, heap'[e].lastopr = USBK_LO_PASS, heap'[e].dev \in asked'
          PROVE  /\ heap'[e].dev_label = t_UIP_DEVINFO(heap'[e].dev).devlabel
                 /\ heap'[e].dev_state = t_UIP_DEVINFO(heap'[e].dev).devstate
      <4>1. CASE e = list_entry
        BY <2>5, <3>3, <4>1 DEF new, info
      <4>2. CASE e # list_entry
        BY <3>2, <3>3, <4>2 DEF CurrentOrMarked
      <4> QED
        BY <4>1, <4>2
    <3> QED
      BY <1>1, <2>7, <3>3 DEF CurrentOrMarked, t_UIP_DEVINFO
  <2>14. NoneMissing'
    BY <1>1, <2>1, <2>7 DEF NoneMissing, Plugged
  <2> QED
    BY <2>8, <2>9, <2>11, <2>12, <2>13, <2>14
<1> QED
  BY <1>4, <1>5

-----------------------------------------------------------------------------
(* Releasing                                                               *)

(* Freeing the first entry leaves the others linked and counted.           *)
LEMMA ReleaseEntryKeeps == ASSUME IInv, ReleaseEntry PROVE IInv'
<1> USE DEF IInv
<1>1. /\ pc = "release"
      /\ UNCHANGED <<node, backdisk, active, todo, new_usbk, list_entry, lost, fds>>
  BY DEF ReleaseEntry, outside
<1>2. usbks # Null /\ todo = {} /\ new_usbk = Null /\ usbks \in Lists
  BY <1>1 DEF InPlace, NoList, Working, ListTypeOK
<1>3. InHand' = {}
  BY <1>1, <1>2 DEF InHand
<1>4. CASE usbks.usbk = Null
  <2>1. /\ usbks' = Null /\ moved' = {} /\ asked' = {} /\ quiet' = TRUE /\ pc' = "idle"
        /\ UNCHANGED heap
    BY <1>4 DEF ReleaseEntry
  <2>2. Entries = {}
    <3>1. Chain = << >>
      BY <1>2, <1>4, WholeWalk DEF ChainOK
    <3> QED
      BY <3>1 DEF Entries, Range
  <2>3. Entries' = {} /\ Live' = Live /\ DevNames' = {}
    <3>1. Entries' = {} /\ Live' = Live
      BY <2>1, NoEntries DEF Live, Address
    <3> QED
      BY <3>1 DEF DevNames
  <2>4. ListTypeOK' /\ InPlace'
    BY <1>1, <1>2, <2>1, <2>3 DEF ListTypeOK, InPlace, Places, NoList, Working
  <2>5. ChainOK' /\ OnlyNullLoses' /\ MemoryLeft'
    BY <1>1, <2>1, <2>2, <2>3 DEF ChainOK, OnlyNullLoses, MemoryLeft, Working
  <2>6. NamesApart' /\ EntryIsOneDevice' /\ CurrentOrMarked'
    BY <1>3, <2>3 DEF NamesApart, EntryIsOneDevice, CurrentOrMarked
  <2>7. NoneMissing'
    BY <2>1 DEF NoneMissing, Working
  <2>8. FoundIsThere' /\ NodesApart'
    BY <1>1, <2>1 DEF FoundIsThere, NodesApart, Plugged
  <2> QED
    BY <2>4, <2>5, <2>6, <2>7, <2>8
<1>5. CASE usbks.usbk # Null
  <2> DEFINE first == usbks.usbk
  <2>1. /\ usbks' = AfterFirst /\ heap' = [heap EXCEPT ![first] = Free]
        /\ UNCHANGED <<pc, moved, asked, quiet>>
    BY <1>5 DEF ReleaseEntry
  <2>2. /\ first \in Entries /\ first \in Ids /\ heap[first] \in Entry
        /\ heap[first].next \in Ids \cup {Null} /\ first \notin lost
    <3>1. first \in Entries /\ first \in Ids /\ heap[first] # Free
      BY <1>2, <1>5, EntriesLive
    <3> QED
      BY <1>2, <3>1 DEF ListTypeOK, Entry, ChainOK
  <2>3. /\ heap'[first] = Free /\ \A e \in Ids : e # first => heap'[e] = heap[e]
        /\ heap' \in [Ids -> Entry \cup {Free}]
    BY <2>1, <2>2 DEF ListTypeOK
  <2>4. /\ Whole(Tail(Chain), heap[first].next, heap')
        /\ Len(Tail(Chain)) = Len(Chain) - 1
        /\ Range(Tail(Chain)) = Entries \ {first}
        /\ Len(Chain) \in 1 .. MaxEntries
    <3>1. \A e \in Range(Chain) \ {first} : heap'[e] = heap[e]
      BY <2>3, EntriesLive DEF Entries
    <3>2. Len(Chain) \in 0 .. MaxEntries /\ Len(Chain) >= 1
      <4>1. Whole(Chain, first, heap)
        BY <1>2 DEF ChainOK
      <4>2. Len(Chain) \in 0 .. MaxEntries
        BY <4>1, WalkIsSeq DEF Whole
      <4>3. Len(Chain) >= 1
        BY <1>5, <4>1, WholeWalk
      <4> QED
        BY <4>2, <4>3
    <3> QED
      BY <1>2, <1>5, <3>1, <3>2, WholePopped, EntriesAssumption DEF ChainOK, Entries
  <2>5. /\ usbks' \in Lists /\ usbks' # Null
        /\ usbks'.usbk = heap[first].next /\ usbks'.counter = usbks.counter - 1
    <3>1. usbks.counter - 1 \in 0 .. MaxEntries
      BY <1>2, <2>4, EntriesAssumption DEF ChainOK
    <3>2. /\ usbks' \in Lists
          /\ usbks'.usbk = heap[first].next /\ usbks'.counter = usbks.counter - 1
      BY <1>2, <2>1, <2>2, <3>1 DEF Lists, AfterFirst
    <3> QED
      BY <3>2, NothingAssumption
  <2>6. Chain' = Tail(Chain) /\ Entries' = Entries \ {first}
    BY <2>4, <2>5, ChainBecomes
  <2>7. Live' = Live \ {first}
    <3>1. Live' = {e \in Ids : heap'[e] # Free}
      BY DEF Live, Address
    <3> QED
      BY <2>3, <3>1, LiveIs
  <2> HIDE DEF first
  <2>8. ListTypeOK' /\ InPlace'
    BY <1>1, <1>2, <2>1, <2>3, <2>5 DEF ListTypeOK, InPlace, NoList, Working
  <2>9. ChainOK' /\ OnlyNullLoses' /\ MemoryLeft'
    <3>1. ChainOK'
      BY <1>1, <1>2, <2>4, <2>5, <2>6 DEF ChainOK
    <3>2. OnlyNullLoses'
      BY <1>1, <2>2, <2>6, <2>7 DEF OnlyNullLoses
    <3> QED
      BY <1>1, <2>1, <3>1, <3>2 DEF MemoryLeft, Working
  <2>10. \A e \in Entries' : e \in Entries /\ heap'[e] = heap[e]
    BY <2>3, <2>6, EntriesLive
  <2>11. NamesApart' /\ FoundIsThere' /\ EntryIsOneDevice' /\ CurrentOrMarked' /\ NodesApart'
    <3>1. NamesApart'
      BY <1>1, <1>2, <1>3, <2>10 DEF NamesApart, DevNames
    <3> QED
      BY <1>1, <2>1, <2>10, <3>1 DEF FoundIsThere, EntryIsOneDevice, CurrentOrMarked,
                  NodesApart, Plugged, t_UIP_DEVINFO
  <2>12. NoneMissing'
    BY <1>1, <2>1 DEF NoneMissing, Working
  <2> QED
    BY <2>8, <2>9, <2>11, <2>12
<1> QED
  BY <1>4, <1>5

-----------------------------------------------------------------------------
(* Reading a device and putting its entry into the list                    *)

(* Memory for one entry is left.                                           *)
LEMMA NewIdIsFree ==
    ASSUME ListTypeOK, Cardinality(Live) < MaxEntries
    PROVE  NewId \in Ids /\ NewId \notin Live
<1>1. Live \in SUBSET Ids /\ IsFiniteSet(Ids) /\ Cardinality(Ids) = MaxEntries
  BY LiveIs, FS_Interval, EntriesAssumption DEF Ids
<1> DEFINE T == Ids \ Live
<1>2. T # {} /\ T \subseteq Nat
  <2>1. Live # Ids
    BY <1>1, FS_CardinalityType, EntriesAssumption
  <2>2. T # {}
    BY <1>1, <2>1
  <2>3. T \subseteq Nat
    BY DEF Ids
  <2> QED
    BY <2>2, <2>3
<1>3. PICK e \in T : \A f \in T : ~(<<f, e>> \in OpToRel(<, Nat))
  BY <1>2, NatLessThanWellFounded, WFMin
<1>4. \A f \in T : e <= f
  <2>1. \A f \in T : ~(f < e) /\ f \in Nat /\ e \in Nat
    BY <1>2, <1>3 DEF OpToRel
  <2> QED
    BY <2>1
<1>5. NewId \in T
  BY <1>3, <1>4 DEF NewId
<1> QED
  BY <1>5

(* Each entry has an address of its own: there are no more entries in the  *)
(* list than there are in memory.                                          *)
LEMMA ChainFits ==
    ASSUME ListTypeOK, ChainOK, OnlyNullLoses, usbks # Null
    PROVE  /\ IsFiniteSet(Entries) /\ Cardinality(Entries) = Len(Chain)
           /\ IsFiniteSet(Live) /\ Len(Chain) <= Cardinality(Live)
           /\ Cardinality(Live) \in Nat /\ Len(Chain) \in Nat
<1>1. /\ Len(Chain) \in Nat /\ Chain \in [1 .. Len(Chain) -> Ids]
      /\ Entries = {Chain[i] : i \in 1 .. Len(Chain)}
  BY WalkIsSeq, EntriesAssumption DEF ChainOK, Whole, Entries
<1>2. Chain \in Bijection(1 .. Len(Chain), Entries)
  <2>1. Chain \in [1 .. Len(Chain) -> Entries]
    BY <1>1
  <2>2. \A i, j \in 1 .. Len(Chain) : Chain[i] = Chain[j] => i = j
    BY DEF ChainOK, Whole
  <2>3. \A e \in Entries : \E i \in 1 .. Len(Chain) : Chain[i] = e
    BY <1>1
  <2> QED
    BY <2>1, <2>2, <2>3 DEF Bijection, Injection, Surjection, IsInjective
<1>3. IsFiniteSet(1 .. Len(Chain)) /\ Cardinality(1 .. Len(Chain)) = Len(Chain)
  BY <1>1, FS_Interval
<1>4. IsFiniteSet(Entries) /\ Cardinality(Entries) = Len(Chain)
  BY <1>2, <1>3, FS_Bijection DEF ExistsBijection
<1>5. IsFiniteSet(Live)
  <2>1. Live \in SUBSET Ids /\ IsFiniteSet(Ids)
    BY LiveIs, FS_Interval, EntriesAssumption DEF Ids
  <2> QED
    BY <2>1, FS_Subset
<1>6. Entries \in SUBSET Live
  BY DEF OnlyNullLoses
<1> QED
  BY <1>1, <1>4, <1>5, <1>6, FS_Subset, FS_CardinalityType

(* An entry put in front differs from the one read in its links only.      *)
LEMMA LinkedIs ==
    ASSUME NEW entry \in Entry, NEW first \in Ids \cup {Null}
    PROVE  /\ Linked(entry, first) \in Entry
           /\ Linked(entry, first).next = first
           /\ Linked(entry, first).dev = entry.dev
           /\ Linked(entry, first).usb_serial = entry.usb_serial
           /\ Linked(entry, first).serial = entry.serial
           /\ Linked(entry, first).dev_label = entry.dev_label
           /\ Linked(entry, first).dev_state = entry.dev_state
  BY DEF Linked, Entry

(* The entry read is put in front of the others, or the list is given up.  *)
LEMMA ReadKeeps == ASSUME IInv, Read PROVE IInv'
<1> USE DEF IInv
<1>1. pc = "read" /\ usbks # Null /\ new_usbk # Null /\ usbks \in Lists
  BY DEF Read, InPlace, NoList, ListTypeOK
<1>2. /\ new_usbk \in Making /\ new_usbk.dev \in Names /\ new_usbk.usb_serial \in Devices
  BY <1>1 DEF InPlace, ListTypeOK, Making
<1> DEFINE n == new_usbk.dev
           info == t_UIP_DEVINFO(n)
           made == [dev |-> n, usb_serial |-> new_usbk.usb_serial,
                    serial |-> info.serial, dev_label |-> info.devlabel,
                    dev_state |-> info.devstate, lastopr |-> USBK_LO_PASS,
                    next |-> Null, previous |-> Null]
           linked == Linked(made, usbks.usbk)
<1>3. PICK io \in send_scsi_command(Plugged(n), fds) :
        /\ fds' = io.fds
        /\ IF io.rtn < 0 THEN ReturnNull
           ELSE /\ Push(made)
                /\ pc' = "scan" /\ new_usbk' = Null
                /\ asked' = asked \cup {n}
                /\ UNCHANGED <<outside, todo, lost, list_entry, moved, quiet>>
  BY DEF Read
<1>4. fds' \in 0 .. MaxFds /\ (~(io.rtn < 0) => Plugged(n))
  BY <1>3, ExchangeIs DEF ListTypeOK, Plugged
<1>5. CASE io.rtn < 0
  BY <1>1, <1>3, <1>4, <1>5, GiveUpKeeps DEF ReturnNull, Working
<1>6. CASE ~(io.rtn < 0)
  <2>1. /\ heap' = [heap EXCEPT ![NewId] = linked]
        /\ usbks' = [usbks EXCEPT !.usbk = NewId, !.counter = @ + 1]
        /\ pc' = "scan" /\ new_usbk' = Null /\ asked' = asked \cup {n}
        /\ UNCHANGED <<node, backdisk, active, todo, lost, list_entry, moved, quiet>>
    BY <1>3, <1>6 DEF Push, outside
  <2>2. /\ linked \in Entry /\ linked # Free
        /\ linked.dev = n /\ linked.next = usbks.usbk
        /\ linked.usb_serial = new_usbk.usb_serial /\ linked.serial = node[n]
        /\ linked.dev_label = node[n] /\ linked.dev_state = info.devstate
    <3>1. /\ info.devlabel = node[n] /\ info.serial = node[n] /\ node[n] \in Devices
          /\ info.devstate \in {USBK_DS_DEACTIVATE, USBK_DS_ACTIVATE}
      BY <1>2, <1>4, <1>6, AnswerIs
    <3>2. usbks.usbk \in Ids \cup {Null}
      BY <1>1 DEF Lists
    <3> HIDE DEF info
    <3>3. made \in Entry
      BY <1>2, <3>1 DEF Entry
    <3>4. /\ made.dev = n /\ made.usb_serial = new_usbk.usb_serial /\ made.serial = node[n]
          /\ made.dev_label = node[n] /\ made.dev_state = info.devstate
      BY <3>1
    <3> HIDE DEF made
    <3> QED
      BY <3>2, <3>3, <3>4, LinkedIs, NothingAssumption
  <2> HIDE DEF linked, made, info
  <2>3. /\ Cardinality(Live) \in Nat /\ Cardinality(todo) \in Nat /\ IsFiniteSet(Live)
        /\ Cardinality(Live) + Cardinality(todo) + 1 <= MaxEntries
        /\ Len(Chain) \in Nat /\ Len(Chain) < MaxEntries /\ Cardinality(Live) < MaxEntries
    <3>1. IsFiniteSet(todo)
      BY NamesAssumption, FS_Subset DEF ListTypeOK
    <3>2. Cardinality(todo) \in Nat
      BY <3>1, FS_CardinalityType
    <3>3. Cardinality(Live) + Cardinality(todo) + 1 <= MaxEntries
      BY <1>1 DEF MemoryLeft, Working
    <3>4. /\ IsFiniteSet(Live) /\ Len(Chain) <= Cardinality(Live)
          /\ Cardinality(Live) \in Nat /\ Len(Chain) \in Nat
      BY <1>1, ChainFits
    <3> QED
      BY <3>2, <3>3, <3>4, EntriesAssumption
  <2>4. NewId \in Ids /\ NewId \notin Live
    BY <2>3, NewIdIsFree
  <2>5. /\ NewId \notin Entries /\ NewId \notin lost
        /\ heap'[NewId] = linked /\ \A e \in Ids : e # NewId => heap'[e] = heap[e]
        /\ heap' \in [Ids -> Entry \cup {Free}]
    BY <2>1, <2>2, <2>4 DEF OnlyNullLoses, ListTypeOK
  <2>6. /\ Whole(<<NewId>> \o Chain, NewId, heap')
        /\ Len(<<NewId>> \o Chain) = Len(Chain) + 1
        /\ Range(<<NewId>> \o Chain) = {NewId} \cup Entries
    <3>1. \A e \in Range(Chain) : heap'[e] = heap[e]
      BY <2>5, EntriesLive DEF Entries
    <3>2. NewId \notin Range(Chain) /\ Whole(Chain, usbks.usbk, heap)
      BY <1>1, <2>5 DEF Entries, ChainOK
    <3> QED
      BY <2>2, <2>3, <2>4, <2>5, <3>1, <3>2, WholePushed DEF Entries
  <2>7. /\ usbks' \in Lists /\ usbks' # Null
        /\ usbks'.usbk = NewId /\ usbks'.counter = usbks.counter + 1
    <3>1. usbks.counter + 1 \in 0 .. MaxEntries
      BY <1>1, <2>3, EntriesAssumption DEF ChainOK
    <3>2. /\ usbks' \in Lists
          /\ usbks'.usbk = NewId /\ usbks'.counter = usbks.counter + 1
      BY <1>1, <2>1, <2>4, <3>1 DEF Lists
    <3> QED
      BY <3>2, NothingAssumption
  <2>8. Chain' = <<NewId>> \o Chain /\ Entries' = {NewId} \cup Entries
    BY <2>6, <2>7, ChainBecomes
  <2>9. Live' = Live \cup {NewId}
    <3>1. Live' = {e \in Ids : heap'[e] # Free}
      BY DEF Live, Address
    <3> QED
      BY <2>2, <2>4, <2>5, <3>1, LiveIs
  <2>10. \A e \in Entries : e # NewId /\ heap'[e] = heap[e]
    BY <2>5, EntriesLive
  <2>11. InHand = {n} /\ InHand' = {} /\ DevNames' = DevNames \cup {n}
    <3>1. DevNames' = DevNames \cup {n}
      BY <2>2, <2>5, <2>8, <2>10 DEF DevNames
    <3> QED
      BY <1>1, <2>1, <3>1 DEF InHand
  <2>12. ListTypeOK' /\ InPlace'
    BY <1>1, <1>2, <1>4, <2>1, <2>5, <2>7 DEF ListTypeOK, InPlace, Places, NoList, Working
  <2>13. ChainOK' /\ OnlyNullLoses'
    <3>1. ChainOK'
      BY <1>1, <2>1, <2>5, <2>6, <2>7, <2>8 DEF ChainOK
    <3> QED
      BY <2>1, <2>8, <2>9, <3>1 DEF OnlyNullLoses
  <2>14. MemoryLeft'
    <3>1. Cardinality(Live') = Cardinality(Live) + 1
      BY <2>3, <2>4, <2>9, FS_AddElement
    <3> QED
      BY <2>1, <2>3, <3>1 DEF MemoryLeft
  <2>15. NamesApart'
    <3>1. \A e \in Entries : heap[e].dev # n
      BY <2>11 DEF NamesApart, DevNames
    <3>2. \A e, f \in Entries' : heap'[e].dev = heap'[f].dev => e = f
      BY <2>2, <2>5, <2>8, <2>10, <3>1 DEF NamesApart
    <3> QED
      BY <2>1, <2>11, <3>2 DEF NamesApart
  <2>16. EntryIsOneDevice'
    <3>1. n \notin moved => linked.usb_serial = linked.serial /\ linked.serial = node[n]
      BY <1>1, <2>2 DEF FoundIsThere
    <3> QED
      BY <2>1, <2>2, <2>5, <2>8, <2>10, <3>1 DEF EntryIsOneDevice
  <2>17. CurrentOrMarked'
    <3>1. \A m : t_UIP_DEVINFO(m)' = t_UIP_DEVINFO(m)
      BY <2>1 DEF t_UIP_DEVINFO
    <3>2. ASSUME NEW e \in Entries
          PROVE  heap'[e] = heap[e] /\ (heap[e].dev \in asked' => heap[e].dev \in asked)
      <4>1. heap[e].dev # n
        BY <2>11 DEF NamesApart, DevNames
      <4> QED
        BY <2>1, <2>10, <4>1
    <3>3. ASSUME NEW e \in Entries', heap'[e].lastopr = USBK_LO_PASS,
                 heap'[e].dev \in asked'
          PROVE  /\ heap'[e].dev_label = t_UIP_DEVINFO(heap'[e].dev).devlabel
                 /\ heap'[e].dev_state = t_UIP_DEVINFO(heap'[e].dev).devstate
      <4>1. CASE e = NewId
        BY <2>2, <2>5, <4>1 DEF info, t_UIP_DEVINFO
      <4>2. CASE e # NewId
        BY <2>8, <3>2, <3>3, <4>2 DEF CurrentOrMarked
      <4> QED
        BY <4>1, <4>2
    <3> QED
      BY <2>1, <3>3 DEF CurrentOrMarked, t_UIP_DEVINFO
  <2>18. NoneMissing'
    BY <1>1, <2>1, <2>11 DEF NoneMissing, Plugged, Working
  <2>19. FoundIsThere' /\ NodesApart'
    BY <2>1 DEF FoundIsThere, NodesApart, Plugged
  <2> QED
    BY <2>12, <2>13, <2>14, <2>15, <2>16, <2>17, <2>18, <2>19
<1> QED
  BY <1>5, <1>6

-----------------------------------------------------------------------------
(* The theorems                                                            *)

(* At the start there is no list and no entry.                             *)
LEMMA InvInitially == ASSUME Init PROVE IInv
<1> USE DEF Init
<1>1. Entries = {} /\ Live = {} /\ DevNames = {} /\ InHand = {}
  BY NoEntries DEF Live, Address, DevNames, InHand
<1>2. ListTypeOK /\ InPlace
  BY FdsAssumption DEF ListTypeOK, InPlace, Places, NoList, Working
<1>3. ChainOK /\ OnlyNullLoses /\ MemoryLeft
  BY <1>1 DEF ChainOK, OnlyNullLoses, MemoryLeft, Working
<1>4. NamesApart /\ NodesApart /\ FoundIsThere /\ EntryIsOneDevice /\ CurrentOrMarked
  BY <1>1 DEF NamesApart, NodesApart, Plugged, FoundIsThere, EntryIsOneDevice, CurrentOrMarked
<1>5. NoneMissing
  BY DEF NoneMissing, Working
<1> QED
  BY <1>2, <1>3, <1>4, <1>5 DEF IInv

(* The invariant is inductive: one case for every action.                  *)
LEMMA InvKept == ASSUME IInv, [Next]_vars PROVE IInv'
<1>1. CASE Proceed
  BY <1>1, VisitKeeps, FindKeeps, ReadKeeps, ReturnKeeps, RefreshEntryKeeps, ReleaseEntryKeeps
     DEF Proceed
<1>2. CASE User
  BY <1>2, NewListKeeps, RefreshAllKeeps, ReleaseKeeps, ShowKeeps, TryAgainKeeps, ExitKeeps
     DEF User
<1>3. CASE Surroundings
  BY <1>3, PlugKeeps, BackDiskShownKeeps, UnplugKeeps, ChangedKeeps DEF Surroundings
<1>4. CASE UNCHANGED vars
  BY <1>4, StutterKeeps
<1> QED
  BY <1>1, <1>2, <1>3, <1>4 DEF Next

(* The invariant holds in every state of every behaviour.                  *)
LEMMA InvAlways == Spec => []IInv
<1>1. Init => IInv
  BY InvInitially
<1>2. IInv /\ [Next]_vars => IInv'
  BY InvKept
<1> QED
  BY <1>1, <1>2, PTL DEF Spec

(* Every variable keeps its type: no counter leaves its range, no pointer  *)
(* is to memory the process has not.                                       *)
THEOREM ListTypeCorrect == Spec => []ListTypeOK
<1>1. IInv => ListTypeOK
  BY DEF IInv
<1> QED
  BY <1>1, InvAlways, PTL

(* usbk_list_new and usbk_list_release keep the number usbk -s prints the  *)
(* number of entries it walks, at every step of making and unmaking.       *)
THEOREM CounterAlwaysLength == Spec => []CounterIsLength
<1>1. IInv => CounterIsLength
  BY DEF IInv, ChainOK, CounterIsLength
<1> QED
  BY <1>1, InvAlways, PTL

(* All memory that holds an entry is reached by the walk or was lost when  *)
(* usbk_list_new returned NULL; usbk_list_release frees every entry once.  *)
THEOREM NothingElseLost == Spec => []OnlyNullLoses
<1>1. IInv => OnlyNullLoses
  BY DEF IInv
<1> QED
  BY <1>1, InvAlways, PTL

(* What getudevinfo found by name, what GET_DEV_INFO read by path and what *)
(* a refresh read again is the same device, the one still under the name,  *)
(* unless something was plugged or unplugged there since.                  *)
THEOREM EntryAlwaysOneDevice == Spec => []EntryIsOneDevice
<1>1. IInv => EntryIsOneDevice
  BY DEF IInv
<1> QED
  BY <1>1, InvAlways, PTL

(* The label and the state in an entry that says PASS are those the device *)
(* under its name would answer with, although another device may have      *)
(* taken the name, if nothing happened there since it was last asked.      *)
THEOREM AlwaysCurrentOrMarked == Spec => []CurrentOrMarked
<1>1. IInv => CurrentOrMarked
  BY DEF IInv
<1> QED
  BY <1>1, InvAlways, PTL

(* The invariant counts: every plugged device is in one entry.             *)
LEMMA CompleteByInv == ASSUME IInv PROVE ListIsComplete
<1> USE DEF IInv
<1> SUFFICES ASSUME pc = "listed", quiet
             PROVE  /\ {heap[e].serial : e \in Entries} = {node[n] : n \in Names} \ {Absent}
                    /\ Len(Chain) = Cardinality({n \in Names : Plugged(n)})
  BY DEF ListIsComplete
<1>1. usbks # Null /\ todo = {} /\ InHand = {}
  BY DEF InPlace, NoList, Working, InHand
<1>2. moved = {} /\ {n \in Names : Plugged(n)} = DevNames
  BY <1>1 DEF NoneMissing
<1>3. \A e \in Entries : heap[e].serial = node[heap[e].dev]
  BY <1>2 DEF EntryIsOneDevice
<1>4. {heap[e].serial : e \in Entries} = {node[n] : n \in DevNames}
  BY <1>3 DEF DevNames
<1>5. {node[n] : n \in Names} \ {Absent} = {node[n] : n \in {m \in Names : Plugged(m)}}
  BY DEF Plugged
<1>6. Len(Chain) = Cardinality(DevNames)
  <2> DEFINE f == [e \in Entries |-> heap[e].dev]
  <2>1. f \in Bijection(Entries, DevNames)
    BY DEF NamesApart, DevNames, Bijection, Injection, Surjection, IsInjective
  <2>2. IsFiniteSet(Entries) /\ Cardinality(Entries) = Len(Chain)
    BY <1>1, ChainFits
  <2> QED
    BY <2>1, <2>2, FS_Bijection DEF ExistsBijection
<1> QED
  BY <1>2, <1>4, <1>5, <1>6

(* The list usbk_list_new returns has every device of the vendor that is   *)
(* plugged in, each once, if nothing was plugged or unplugged meanwhile.   *)
THEOREM ListAlwaysComplete == Spec => []ListIsComplete
<1>1. IInv => ListIsComplete
  BY CompleteByInv
<1> QED
  BY <1>1, InvAlways, PTL

=============================================================================
