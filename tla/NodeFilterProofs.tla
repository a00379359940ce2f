-------------------------- MODULE NodeFilterProofs --------------------------
(***************************************************************************)
(* Proofs about NodeFilter, for any number of goroutines and keys, any     *)
(* hash of keys to bits and any layout of bits in words.                   *)
(***************************************************************************)
EXTENDS NodeFilter, TLAPS

Writing == {"addwrite", "setwrite"}
Working == {"add", "addwrite", "test", "set", "setwrite", "check"}

(* The holders of the lock are the calls that run under it; a filter that  *)
(* is being reset has no members.                                          *)
LockInv ==
  /\ \A c \in Callers : c \in readers <=> pc[c] \in {"check", "checked", "full"}
  /\ \A c \in Callers : c \in writer <=> pc[c] = "reset"
  /\ \A c, d \in writer : c = d
  /\ writer = {} \/ members = {}

(* What a call has still to go through, and the locals of one that starts. *)
LocalsInv ==
  \A c \in Callers :
    /\ pc[c] \in Adding => key[c] \in Keys
    /\ pc[c] \in Working => key[c] \in Keys /\ todo[c] # {} /\ todo[c] \subseteq BitsOf[key[c]]
    /\ pc[c] = "reset" => todo[c] \subseteq Words
    /\ pc[c] = "idle" => present[c]
    /\ pc[c] = "countwrite" => ~present[c]

(* An AddNode that is not disturbed has the words to itself. *)
AloneInv ==
  /\ disturbed \subseteq ActiveAdds
  /\ \A c \in ActiveAdds \ disturbed : writer = {} /\ ActiveAdds = {c}

(* Such an AddNode has set the bits it has gone through, and finds them.   *)
OwnBitsInv ==
  \A c \in ActiveAdds \ disturbed :
    /\ \A b \in BitsOf[key[c]] : IsSet(b) \/ (pc[c] \in {"add", "addwrite"} /\ b \in todo[c])
    /\ pc[c] \in Writing => word[c] = bits[WordOf[Here(c)]]
    /\ present[c]

(* The bits of the members are set, and no word that a racing AddNode is   *)
(* about to write back has lost one.                                       *)
MembersInv ==
  \A k \in members : \A b \in BitsOf[k] :
    /\ IsSet(b)
    /\ \A c \in Callers : pc[c] \in Writing /\ WordOf[Here(c)] = WordOf[b] => b \in word[c]

(* A Check that began with a member still has one to look for. *)
KnownInv ==
  \A c \in known :
    \/ pc[c] = "check" /\ key[c] \in members
    \/ pc[c] = "checked" /\ present[c]

(* The bits of the nodes whose AddNode began since the last Reset. *)
AddedBits == UNION {BitsOf[k] : k \in added}

(* No AddNode runs while the filter is cleared, and no other bits are left *)
(* but in words that are still to be cleared: none in the copies that are  *)
(* about to be written back, and none that a Check has found.              *)
ForgetInv ==
  ~leftover =>
    /\ writer # {} => ActiveAdds = {}
    /\ \A x \in Words : bits[x] \subseteq AddedBits \/ \E c \in writer : x \in todo[c]
    /\ \A c \in Callers :
         /\ pc[c] \in Adding => key[c] \in added
         /\ pc[c] \in Writing => word[c] \subseteq AddedBits
         /\ pc[c] = "check" => BitsOf[key[c]] \ todo[c] \subseteq AddedBits
         /\ pc[c] = "checked" /\ present[c] => BitsOf[key[c]] \subseteq AddedBits

(* amount, and what an AddNode has read of it, is no more than has been    *)
(* counted since the last Reset.                                           *)
AmountInv ==
  ~leftover =>
    /\ writer = {} => amount <= counted
    /\ \A c \in Callers : pc[c] = "countwrite" => count[c] <= counted

IInv ==
  /\ TypeOK
  /\ LockInv
  /\ LocalsInv
  /\ AloneInv
  /\ OwnBitsInv
  /\ MembersInv
  /\ KnownInv
  /\ ForgetInv
  /\ AmountInv
  /\ NotFullTooEarly

------------------------------------------------------------------------------
(* Some element of a set that is not empty comes first. *)
LEMMA FirstIsIn == \A S : S # {} => First(S) \in S
BY DEF First

(* The invariant holds at the start. *)
LEMMA InvariantInit == Init => IInv
<1> SUFFICES ASSUME Init PROVE IInv
  OBVIOUS
<1> USE FilterAssumption DEF Init
<1>1. TypeOK
  <2>1. present \in [Callers -> BOOLEAN] /\ leftover \in BOOLEAN
    BY Zenon
  <2> QED BY <2>1 DEF TypeOK, States
<1>2. LockInv /\ LocalsInv
  BY DEF LockInv, LocalsInv, Adding, Working
<1>3. ActiveAdds = {}
  BY DEF ActiveAdds, Adding
<1>4. AloneInv /\ OwnBitsInv
  BY <1>3 DEF AloneInv, OwnBitsInv
<1>5. MembersInv /\ KnownInv /\ ForgetInv /\ AmountInv /\ NotFullTooEarly
  BY DEF MembersInv, KnownInv, ForgetInv, AmountInv, NotFullTooEarly, Adding, Writing
<1> QED BY <1>1, <1>2, <1>4, <1>5 DEF IInv

(* AddNode *)
LEMMA AddNodeStep ==
  ASSUME IInv, NEW c \in Callers, NEW k \in Keys, AddNode(c, k)
  PROVE  IInv'
<1> USE FilterAssumption DEF IInv, AddNode, Goto, lock
<1> USE DEF TypeOK
<1>0. /\ pc' = [pc EXCEPT ![c] = "add"]
      /\ \A d \in Callers : d # c => pc'[d] = pc[d] /\ todo'[d] = todo[d] /\ key'[d] = key[d]
      /\ pc'[c] = "add" /\ key'[c] = k /\ todo'[c] = BitsOf[k]
  OBVIOUS
<1>1. TypeOK'
  BY DEF States, Adding, ActiveAdds
<1>2. LockInv'
  BY <1>0 DEF LockInv
<1>3. LocalsInv'
  BY <1>0 DEF LocalsInv, Adding, Working
<1>4. ActiveAdds' = ActiveAdds \cup {c}
  BY <1>0 DEF ActiveAdds, Adding
<1>5. AloneInv'
  BY <1>0, <1>4 DEF AloneInv
<1>6. OwnBitsInv'
  <2> SUFFICES ASSUME NEW d \in ActiveAdds' \ disturbed'
               PROVE  /\ \A b \in BitsOf[key'[d]] :
                           IsSet(b)' \/ (pc'[d] \in {"add", "addwrite"} /\ b \in todo'[d])
                      /\ pc'[d] \in Writing => word'[d] = bits'[WordOf[Here(d)']]
                      /\ present'[d]
    BY DEF OwnBitsInv
  <2>1. d = c
    BY <1>4, <1>5 DEF AloneInv
  <2> QED BY <2>1, <1>0 DEF LocalsInv, Writing
<1>7. MembersInv'
  BY <1>0 DEF MembersInv, IsSet, Writing, Here
<1>8. KnownInv'
  BY <1>0 DEF KnownInv
<1>9. ForgetInv'
  <2>1. AddedBits \subseteq AddedBits'
    BY DEF AddedBits
  <2> QED BY <1>0, <2>1 DEF ForgetInv, Writing, Adding
<1>10. AmountInv' /\ NotFullTooEarly'
  BY <1>0 DEF AmountInv, NotFullTooEarly
<1> QED BY <1>1, <1>2, <1>3, <1>5, <1>6, <1>7, <1>8, <1>9, <1>10

(* AddString or TestAndAddString reads a word. *)
LEMMA ReadWordStep ==
  ASSUME IInv, NEW c \in Callers, NEW from, NEW to, ReadWord(c, from, to),
         \/ from = "add" /\ to = "addwrite"
         \/ from = "set" /\ to = "setwrite"
  PROVE  IInv'
<1> USE FilterAssumption, FirstIsIn DEF IInv, TypeOK, ReadWord, Goto, lock, history, since
<1>0. /\ pc' = [pc EXCEPT ![c] = to]
      /\ \A d \in Callers : d # c => pc'[d] = pc[d] /\ word'[d] = word[d]
      /\ pc'[c] = to /\ word'[c] = bits[WordOf[Here(c)]]
  OBVIOUS
<1>h. /\ Here(c) \in Bits
      /\ WordOf[Here(c)] \in Words
      /\ \A d \in Callers : Here(d)' = Here(d)
  BY DEF LocalsInv, Working, Here
<1>1. TypeOK'
  BY <1>h DEF States, Adding
<1>2. LockInv'
  BY <1>0 DEF LockInv
<1>3. LocalsInv'
  BY <1>0 DEF LocalsInv, Adding, Working
<1>4. ActiveAdds' = ActiveAdds
  BY <1>0 DEF ActiveAdds, Adding
<1>5. AloneInv'
  BY <1>4 DEF AloneInv
<1>6. OwnBitsInv'
  BY <1>0, <1>4, <1>h DEF OwnBitsInv, IsSet, ActiveAdds
<1>7. MembersInv'
  <2> SUFFICES ASSUME NEW k \in members, NEW b \in BitsOf[k]
               PROVE  /\ IsSet(b)
                      /\ \A d \in Callers : pc'[d] \in Writing /\ WordOf[Here(d)] = WordOf[b]
                                              => b \in word'[d]
    BY <1>h DEF MembersInv, IsSet
  <2> QED BY <1>0 DEF MembersInv, IsSet
<1>8. KnownInv'
  BY <1>0 DEF KnownInv
<1>9. ForgetInv'
  <2>1. AddedBits' = AddedBits
    BY DEF AddedBits
  <2> QED BY <1>0, <1>4, <1>h, <2>1 DEF ForgetInv, Writing, Adding, ActiveAdds
<1>10. AmountInv' /\ NotFullTooEarly'
  BY <1>0 DEF AmountInv, NotFullTooEarly
<1> QED BY <1>1, <1>2, <1>3, <1>5, <1>6, <1>7, <1>8, <1>9, <1>10

(* AddString or TestAndAddString writes a word back.  A word that is       *)
(* written back has the members' bits, and nobody else is at one when the  *)
(* AddNode is not disturbed.                                               *)
LEMMA WriteWordStep ==
  ASSUME IInv, NEW c \in Callers, AddWrite(c) \/ SetWrite(c)
  PROVE  IInv'
<1> USE FilterAssumption DEF IInv, TypeOK, AddWrite, SetWrite, WriteWord, Goto, lock, history, since
<1>h. /\ key[c] \in Keys
      /\ Here(c) \in BitsOf[key[c]]
      /\ Here(c) \in Bits
      /\ WordOf[Here(c)] \in Words
      /\ Rest(c) \subseteq BitsOf[key[c]]
      /\ BitsOf[key[c]] # {} /\ BitsOf[key[c]] \subseteq Bits
  BY FirstIsIn DEF LocalsInv, Working, Here, Rest
<1>0. /\ \A d \in Callers : d # c => pc'[d] = pc[d] /\ todo'[d] = todo[d] /\ Here(d)' = Here(d)
      /\ pc'[c] \in {"add", "test", "count"}
      /\ pc[c] \in {"addwrite", "setwrite"}
      /\ pc'[c] = "add" => pc[c] = "addwrite" /\ todo'[c] = Rest(c)
      /\ pc'[c] # "count" => todo'[c] # {}
      /\ todo'[c] \subseteq BitsOf[key[c]]
      /\ pc' \in [Callers -> States] /\ todo' \in [Callers -> SUBSET (Bits \cup Words)]
  BY <1>h DEF States, Adding, Here
<1>b. /\ bits' \in [Words -> SUBSET Bits]
      /\ bits'[WordOf[Here(c)]] = word[c] \cup {Here(c)}
      /\ \A x \in Words : x # WordOf[Here(c)] => bits'[x] = bits[x]
  BY <1>h
<1>1. TypeOK'
  BY <1>0, <1>b
<1>2. LockInv'
  BY <1>0 DEF LockInv
<1>3. LocalsInv'
  BY <1>0 DEF LocalsInv, Adding, Working
<1>4. ActiveAdds' = ActiveAdds /\ c \in ActiveAdds
  BY <1>0 DEF ActiveAdds, Adding
<1>5. AloneInv'
  BY <1>4 DEF AloneInv
<1>6. OwnBitsInv'
  <2> SUFFICES ASSUME NEW d \in ActiveAdds \ disturbed
               PROVE  /\ \A b \in BitsOf[key[d]] :
                           IsSet(b)' \/ (pc'[d] \in {"add", "addwrite"} /\ b \in todo'[d])
                      /\ pc'[d] \notin Writing
                      /\ present[d]
    BY <1>4 DEF OwnBitsInv
  <2>1. d = c
    BY <1>4 DEF AloneInv
  <2>2. bits'[WordOf[Here(c)]] = bits[WordOf[Here(c)]] \cup {Here(c)}
    BY <2>1, <1>0, <1>b DEF OwnBitsInv, Writing
  <2>3. ASSUME NEW b \in BitsOf[key[c]]
        PROVE  IsSet(b)' \/ (pc'[c] \in {"add", "addwrite"} /\ b \in todo'[c])
    <3>1. b \in Bits /\ WordOf[b] \in Words
      BY <1>h
    <3>2. CASE IsSet(b) \/ b = Here(c)
      BY <3>1, <3>2, <2>2, <1>b DEF IsSet
    <3>3. CASE ~IsSet(b) /\ b # Here(c)
      <4>1. pc[c] = "addwrite" /\ b \in Rest(c)
        BY <3>3, <2>1, <1>0 DEF OwnBitsInv, Rest
      <4> QED BY <4>1
    <3> QED BY <3>2, <3>3
  <2> QED BY <2>1, <2>3, <1>0 DEF OwnBitsInv, Writing
<1>7. MembersInv'
  <2> SUFFICES ASSUME NEW k \in members, NEW b \in BitsOf[k]
               PROVE  /\ IsSet(b)'
                      /\ \A d \in Callers : pc'[d] \in Writing /\ WordOf[Here(d)'] = WordOf[b]
                                              => b \in word[d]
    BY DEF MembersInv
  <2>1. b \in Bits /\ WordOf[b] \in Words
    OBVIOUS
  <2>2. IsSet(b)'
    BY <2>1, <1>0, <1>b DEF MembersInv, IsSet, Writing
  <2> QED BY <2>2, <1>0 DEF MembersInv, Writing
<1>8. KnownInv'
  BY <1>0 DEF KnownInv
<1>9. ForgetInv'
  <2>1. AddedBits' = AddedBits
    BY DEF AddedBits
  \* its key is one that has been added, and no Reset is under way
  <2>2. ~leftover => writer = {} /\ word[c] \cup {Here(c)} \subseteq AddedBits
    BY <1>h, <1>0, <1>4 DEF ForgetInv, AddedBits, Writing, Adding
  <2>3. UNCHANGED <<writer, key, word, present, added, leftover>>
    OBVIOUS
  <2>4. ~leftover => \A x \in Words : bits'[x] \subseteq bits[x] \cup word[c] \cup {Here(c)}
    BY <1>b
  <2>5. ForgetInv
    OBVIOUS
  <2> HIDE DEF IInv, TypeOK, AddWrite, SetWrite, WriteWord, Goto
  <2>6. ASSUME ~leftover, NEW x \in Words PROVE bits'[x] \subseteq AddedBits
    BY <2>6, <2>2, <2>4, <2>5 DEF ForgetInv
  <2> QED BY <1>0, <1>4, <2>1, <2>2, <2>3, <2>5, <2>6 DEF ForgetInv, Writing, Adding
<1>10. AmountInv' /\ NotFullTooEarly'
  BY <1>0 DEF AmountInv, NotFullTooEarly
<1> QED BY <1>1, <1>2, <1>3, <1>5, <1>6, <1>7, <1>8, <1>9, <1>10

(* TestAndAddString tests a bit. *)
LEMMA TestBitStep ==
  ASSUME IInv, NEW c \in Callers, TestBit(c)
  PROVE  IInv'
<1> USE FilterAssumption DEF IInv, TypeOK, TestBit, Goto, lock, history, since
<1>h. /\ key[c] \in Keys /\ Here(c) \in BitsOf[key[c]]
      /\ \A d \in Callers : Here(d)' = Here(d)
  BY FirstIsIn DEF LocalsInv, Working, Here
<1>0. /\ \A d \in Callers : d # c => pc'[d] = pc[d] /\ present'[d] = present[d]
      /\ pc'[c] = "set"
      /\ present'[c] = (present[c] /\ IsSet(Here(c)))
      /\ pc' \in [Callers -> States]
  BY DEF States, Adding
<1>1. TypeOK'
  <2>1. present' \in [Callers -> BOOLEAN]
    BY Zenon
  <2> QED BY <2>1, <1>0
<1>2. LockInv'
  BY <1>0 DEF LockInv
<1>3. LocalsInv'
  BY <1>0 DEF LocalsInv, Adding, Working
<1>4. ActiveAdds' = ActiveAdds
  BY <1>0 DEF ActiveAdds, Adding
<1>5. AloneInv'
  BY <1>4 DEF AloneInv
<1>6. OwnBitsInv'
  <2> SUFFICES ASSUME NEW d \in ActiveAdds \ disturbed
               PROVE  /\ \A b \in BitsOf[key[d]] :
                           IsSet(b) \/ (pc'[d] \in {"add", "addwrite"} /\ b \in todo[d])
                      /\ pc'[d] \in Writing => word[d] = bits[WordOf[Here(d)]]
                      /\ present'[d]
    BY <1>4, <1>h DEF OwnBitsInv, IsSet, ActiveAdds
  <2>1. d = c => IsSet(Here(c))
    BY <1>h DEF OwnBitsInv
  <2> QED BY <2>1, <1>0 DEF OwnBitsInv, Writing
<1>7. MembersInv'
  BY <1>0, <1>h DEF MembersInv, IsSet, Writing
<1>8. KnownInv'
  BY <1>0 DEF KnownInv
<1>9. ForgetInv'
  <2>1. AddedBits' = AddedBits
    BY DEF AddedBits
  <2> QED BY <1>0, <1>4, <1>h, <2>1 DEF ForgetInv, Writing, Adding, ActiveAdds
<1>10. AmountInv' /\ NotFullTooEarly'
  BY <1>0 DEF AmountInv, NotFullTooEarly
<1> QED BY <1>1, <1>2, <1>3, <1>5, <1>6, <1>7, <1>8, <1>9, <1>10

(* AddNode returns.  One that was not disturbed has set all bits of its    *)
(* key, and no other AddNode is about to write a word back.                *)
LEMMA AddReturnsStep ==
  ASSUME IInv, NEW c \in Callers, AddKnown(c) \/ CountWrite(c)
  PROVE  IInv'
<1> USE FilterAssumption DEF IInv, TypeOK
<1> USE DEF AddKnown, CountWrite, AddReturns, Return, Goto, lock, since
<1>0. /\ \A d \in Callers : d # c => /\ pc'[d] = pc[d] /\ todo'[d] = todo[d]
                                     /\ Here(d)' = Here(d) /\ key'[d] = key[d]
                                     /\ word'[d] = word[d] /\ present'[d] = present[d]
      /\ pc'[c] = "idle" /\ present'[c] = TRUE
      /\ pc[c] \in {"count", "countwrite"}
      /\ key[c] \in Keys
  BY DEF Here, LocalsInv, Adding
<1>m. /\ counted' \in 0..MaxAmount /\ amount' \in 0..MaxAmount
      /\ counted <= counted'
      /\ amount' = amount \/ (pc[c] = "countwrite" /\ amount' = More(count[c]) /\ counted' = More(counted))
  BY DEF More
<1>1. TypeOK'
  <2>1. pc' \in [Callers -> States]
    BY DEF States
  <2>2. present' \in [Callers -> BOOLEAN]
    BY Zenon
  <2>3. members' \subseteq Keys /\ count' \in [Callers -> 0..MaxAmount]
    BY <1>0
  <2>4. key' \in [Callers -> Keys \cup {NoKey}] /\ todo' \in [Callers -> SUBSET (Bits \cup Words)]
        /\ word' \in [Callers -> SUBSET Bits]
    OBVIOUS
  <2>5. disturbed' \subseteq Callers
    OBVIOUS
  <2> HIDE DEF AddKnown, CountWrite, AddReturns, Return, Goto
  <2>6. UNCHANGED <<bits, readers, writer, known, added, leftover>>
    BY DEF AddKnown, CountWrite, AddReturns, lock
  <2> QED BY <2>1, <2>2, <2>3, <2>4, <2>5, <2>6, <1>m
<1>2. LockInv'
  <2>1. writer = {} \/ members' = {}
    BY <1>0 DEF LockInv, AloneInv, ActiveAdds, Adding
  <2> QED BY <1>0, <2>1 DEF LockInv
<1>3. LocalsInv'
  BY <1>0 DEF LocalsInv, Adding, Working
<1>4. ActiveAdds' = ActiveAdds \ {c} /\ c \in ActiveAdds
  BY <1>0 DEF ActiveAdds, Adding
<1>5. AloneInv'
  BY <1>4 DEF AloneInv
<1>6. OwnBitsInv'
  <2> SUFFICES ASSUME NEW d \in ActiveAdds' \ disturbed' PROVE FALSE
    BY DEF OwnBitsInv
  <2>1. d # c /\ d \in ActiveAdds \ disturbed
    BY <1>4
  <2> QED BY <2>1, <1>4 DEF AloneInv
<1>7. MembersInv'
  <2> SUFFICES ASSUME NEW k \in members', NEW b \in BitsOf[k]
               PROVE  /\ IsSet(b)
                      /\ \A d \in Callers : pc'[d] \in Writing /\ WordOf[Here(d)'] = WordOf[b]
                                              => b \in word'[d]
    BY DEF MembersInv, IsSet
  <2>1. CASE k \in members
    BY <2>1, <1>0 DEF MembersInv, Writing
  <2>2. CASE k \notin members
    <3>1. k = key[c] /\ c \in ActiveAdds \ disturbed
      BY <2>2, <1>4
    <3>2. ActiveAdds = {c}
      BY <3>1 DEF AloneInv
    <3>3. \A d \in Callers : pc'[d] \notin Writing
      BY <3>2, <1>0, <1>4 DEF ActiveAdds, Adding, Writing
    <3> QED BY <3>1, <3>3, <1>0 DEF OwnBitsInv
  <2> QED BY <2>1, <2>2
<1>8. KnownInv'
  BY <1>0 DEF KnownInv
<1>9. ForgetInv'
  <2>1. AddedBits' = AddedBits
    BY DEF AddedBits
  <2> HIDE DEF AddKnown, CountWrite, AddReturns, Return, Goto, TypeOK
  <2>2. UNCHANGED <<bits, writer, added, leftover>>
    BY DEF AddKnown, CountWrite, AddReturns
  <2> QED BY <1>0, <1>4, <2>1, <2>2 DEF ForgetInv, Writing, Adding, ActiveAdds
<1>10. AmountInv' /\ NotFullTooEarly'
  <2>1. /\ \A d \in Callers : count'[d] = count[d] \/ d = c
        /\ UNCHANGED <<writer, leftover>>
    OBVIOUS
  <2>2. ASSUME ~leftover PROVE writer' = {} => amount' <= counted'
    <3>1. writer = {} => amount <= counted
      BY <2>2 DEF AmountInv
    <3>2. pc[c] = "countwrite" => count[c] <= counted
      BY <2>2 DEF AmountInv
    <3>3. \A x, y \in 0..MaxAmount : x <= y => More(x) <= More(y)
      BY DEF More
    <3>4. count[c] \in 0..MaxAmount
      OBVIOUS
    <3> QED BY <2>1, <3>1, <3>2, <3>3, <3>4, <1>m
  <2>3. ASSUME ~leftover, NEW d \in Callers, pc'[d] = "countwrite" PROVE count'[d] <= counted'
    <3>1. d # c /\ pc[d] = "countwrite" /\ count'[d] = count[d]
      BY <2>3, <2>1, <1>0
    <3>2. count[d] <= counted
      BY <2>3, <3>1 DEF AmountInv
    <3>3. \A x, y, z \in 0..MaxAmount : x <= y /\ y <= z => x <= z
      OBVIOUS
    <3> QED BY <3>1, <3>2, <3>3, <1>m
  <2>4. AmountInv'
    BY <2>1, <2>2, <2>3 DEF AmountInv
  <2>6. ASSUME NEW d \in Callers, pc'[d] = "full", present'[d], ~leftover PROVE counted' >= Cap
    <3>1. pc[d] = "full" /\ present[d]
      BY <2>6, <1>0
    <3>2. counted >= Cap
      BY <3>1, <2>6 DEF NotFullTooEarly
    <3> QED BY <3>2, <1>m
  <2>7. NotFullTooEarly'
    BY <2>1, <2>6 DEF NotFullTooEarly
  <2> QED BY <2>4, <2>7
<1> QED BY <1>1, <1>2, <1>3, <1>5, <1>6, <1>7, <1>8, <1>9, <1>10

(* AddNode reads amount. *)
LEMMA CountReadStep ==
  ASSUME IInv, NEW c \in Callers, CountRead(c)
  PROVE  IInv'
<1> USE FilterAssumption DEF IInv, TypeOK, CountRead, Goto, lock, history, since
<1>0. /\ \A d \in Callers : /\ d # c => pc'[d] = pc[d]
                            /\ Here(d)' = Here(d)
      /\ pc'[c] = "countwrite"
  BY DEF Here
<1>1. TypeOK'
  BY DEF States, Adding
<1>2. LockInv'
  BY <1>0 DEF LockInv
<1>3. LocalsInv'
  BY <1>0 DEF LocalsInv, Adding, Working
<1>4. ActiveAdds' = ActiveAdds
  BY <1>0 DEF ActiveAdds, Adding
<1>5. AloneInv'
  BY <1>4 DEF AloneInv
<1>6. OwnBitsInv'
  BY <1>0, <1>4 DEF OwnBitsInv, IsSet, Writing, ActiveAdds
<1>7. MembersInv'
  BY <1>0 DEF MembersInv, IsSet, Writing
<1>8. KnownInv'
  BY <1>0 DEF KnownInv
<1>9. ForgetInv'
  <2>1. AddedBits' = AddedBits
    BY DEF AddedBits
  <2> QED BY <1>0, <1>4, <2>1 DEF ForgetInv, Writing, Adding, ActiveAdds
<1>10. AmountInv' /\ NotFullTooEarly'
  <2>1. ~leftover => writer = {} /\ amount <= counted
    BY DEF ForgetInv, AmountInv, ActiveAdds, Adding
  <2>2. count'[c] = amount /\ \A d \in Callers : d # c => count'[d] = count[d]
    OBVIOUS
  <2>3. AmountInv'
    BY <2>1, <2>2, <1>0 DEF AmountInv
  <2> QED BY <2>3, <1>0 DEF NotFullTooEarly
<1> QED BY <1>1, <1>2, <1>3, <1>5, <1>6, <1>7, <1>8, <1>9, <1>10

(* Check takes the lock. *)
LEMMA CheckLockStep ==
  ASSUME IInv, NEW c \in Callers, NEW k \in Keys, CheckLock(c, k)
  PROVE  IInv'
<1> USE FilterAssumption DEF IInv, TypeOK, CheckLock, Goto, since
<1>0. /\ \A d \in Callers : d # c => /\ pc'[d] = pc[d] /\ todo'[d] = todo[d]
                                     /\ Here(d)' = Here(d) /\ key'[d] = key[d]
      /\ pc'[c] = "check" /\ key'[c] = k /\ todo'[c] = BitsOf[k]
  BY DEF Here
<1>1. TypeOK'
  BY DEF States, Adding
<1>2. LockInv'
  BY <1>0 DEF LockInv
<1>3. LocalsInv'
  BY <1>0 DEF LocalsInv, Adding, Working
<1>4. ActiveAdds' = ActiveAdds /\ c \notin ActiveAdds
  BY <1>0 DEF ActiveAdds, Adding
<1>5. AloneInv'
  BY <1>4 DEF AloneInv
<1>6. OwnBitsInv'
  BY <1>0, <1>4 DEF OwnBitsInv, IsSet, Writing, ActiveAdds
<1>7. MembersInv'
  BY <1>0 DEF MembersInv, IsSet, Writing
<1>8. KnownInv'
  BY <1>0 DEF KnownInv
<1>9. ForgetInv'
  <2>1. AddedBits' = AddedBits
    BY DEF AddedBits
  <2> QED BY <1>0, <1>4, <2>1 DEF ForgetInv, Writing, Adding
<1>10. AmountInv' /\ NotFullTooEarly'
  BY <1>0 DEF AmountInv, NotFullTooEarly
<1> QED BY <1>1, <1>2, <1>3, <1>5, <1>6, <1>7, <1>8, <1>9, <1>10

(* Check tests a bit; the bits of a member are all set. *)
LEMMA CheckBitStep ==
  ASSUME IInv, NEW c \in Callers, CheckBit(c)
  PROVE  IInv'
<1> USE FilterAssumption DEF IInv, TypeOK, CheckBit, Goto, lock, history, since
<1>h. /\ key[c] \in Keys /\ Here(c) \in BitsOf[key[c]]
      /\ Rest(c) \subseteq BitsOf[key[c]]
      /\ BitsOf[key[c]] \subseteq Bits
  BY FirstIsIn DEF LocalsInv, Working, Here, Rest
<1>0. /\ \A d \in Callers : d # c => /\ pc'[d] = pc[d] /\ todo'[d] = todo[d]
                                     /\ Here(d)' = Here(d) /\ present'[d] = present[d]
      /\ \/ pc'[c] = "check" /\ todo'[c] = Rest(c) /\ Rest(c) # {}
         \/ pc'[c] = "checked"
      /\ present'[c] = IsSet(Here(c))
      /\ pc' \in [Callers -> States]
  BY DEF States, Here
<1>1. TypeOK'
  <2>1. IsSet(Here(c)) \in BOOLEAN
    BY DEF IsSet
  <2>2. present' \in [Callers -> BOOLEAN]
    BY <2>1, Zenon
  <2>3. todo' \in [Callers -> SUBSET (Bits \cup Words)]
    BY <1>h
  <2> QED BY <2>2, <2>3, <1>0
<1>2. LockInv'
  BY <1>0 DEF LockInv
<1>3. LocalsInv'
  BY <1>0, <1>h DEF LocalsInv, Adding, Working
<1>4. ActiveAdds' = ActiveAdds /\ c \notin ActiveAdds
  BY <1>0 DEF ActiveAdds, Adding
<1>5. AloneInv'
  BY <1>4 DEF AloneInv
<1>6. OwnBitsInv'
  BY <1>0, <1>4 DEF OwnBitsInv, IsSet, Writing, ActiveAdds
<1>7. MembersInv'
  BY <1>0 DEF MembersInv, IsSet, Writing
<1>8. KnownInv'
  <2>1. c \in known => key[c] \in members /\ present'[c]
    BY <1>0, <1>h DEF KnownInv, MembersInv
  <2> QED BY <2>1, <1>0 DEF KnownInv
<1>9. ForgetInv'
  <2>1. AddedBits' = AddedBits
    BY DEF AddedBits
  \* a bit that is set is one of an added key, for there is no Reset now
  <2>2. ~leftover /\ present'[c] => Here(c) \in AddedBits
    BY <1>0, <1>h DEF ForgetInv, LockInv, IsSet
  <2>3. ~leftover /\ present'[c] => BitsOf[key[c]] \ Rest(c) \subseteq AddedBits
    BY <2>2, <1>0 DEF ForgetInv, Rest
  <2>4. pc'[c] = "check" => present'[c] /\ Rest(c) # {}
    BY <1>0
  <2>5. pc'[c] = "checked" /\ present'[c] => Rest(c) = {}
    BY <1>0
  <2>6. pc'[c] = "check" => todo'[c] = Rest(c)
    BY <1>0
  <2>7. pc'[c] \notin Adding /\ UNCHANGED <<bits, writer, key, word, added, leftover>>
    BY <1>0 DEF Adding
  <2>8. writer = {} \/ c \notin writer
    BY DEF LockInv
  <2>9. ASSUME ~leftover, NEW d \in Callers
        PROVE  /\ pc'[d] \in Adding => key[d] \in added
               /\ pc'[d] \in Writing => word[d] \subseteq AddedBits
               /\ pc'[d] = "check" => BitsOf[key[d]] \ todo'[d] \subseteq AddedBits
               /\ pc'[d] = "checked" /\ present'[d] => BitsOf[key[d]] \subseteq AddedBits
    <3>1. CASE d = c
      <4>1. pc'[c] = "check" => BitsOf[key[c]] \ todo'[c] \subseteq AddedBits
        BY <2>9, <2>3, <2>4, <2>6
      <4>2. pc'[c] = "checked" /\ present'[c] => BitsOf[key[c]] \subseteq AddedBits
        BY <2>9, <2>3, <2>5
      <4> QED BY <3>1, <2>7, <4>1, <4>2 DEF Writing, Adding
    <3>2. CASE d # c
      BY <2>9, <3>2, <1>0 DEF ForgetInv
    <3> QED BY <3>1, <3>2
  <2>10. \A d \in writer : todo'[d] = todo[d]
    BY <2>8, <1>0
  <2>11. ForgetInv
    OBVIOUS
  <2> HIDE DEF IInv, TypeOK, CheckBit, Goto
  <2> QED BY <1>4, <2>1, <2>7, <2>9, <2>10, <2>11 DEF ForgetInv
<1>10. AmountInv' /\ NotFullTooEarly'
  BY <1>0 DEF AmountInv, NotFullTooEarly
<1> QED BY <1>1, <1>2, <1>3, <1>5, <1>6, <1>7, <1>8, <1>9, <1>10

(* Check or IsFull gives the lock back. *)
LEMMA ReadersReturnStep ==
  ASSUME IInv, NEW c \in Callers, CheckReturn(c) \/ IsFullReturn(c)
  PROVE  IInv'
<1> USE FilterAssumption DEF IInv, TypeOK, CheckReturn, IsFullReturn, Return, Goto, history, since
<1>0. /\ \A d \in Callers : d # c => /\ pc'[d] = pc[d] /\ todo'[d] = todo[d]
                                     /\ Here(d)' = Here(d) /\ key'[d] = key[d]
                                     /\ word'[d] = word[d] /\ present'[d] = present[d]
      /\ pc'[c] = "idle" /\ present'[c] = TRUE
      /\ pc[c] \in {"checked", "full"}
  BY DEF Here
<1>1. TypeOK'
  <2>1. pc' \in [Callers -> States]
    BY DEF States
  <2>2. present' \in [Callers -> BOOLEAN]
    BY Zenon
  <2> QED BY <2>1, <2>2
<1>2. LockInv'
  BY <1>0 DEF LockInv
<1>3. LocalsInv'
  BY <1>0 DEF LocalsInv, Adding, Working
<1>4. ActiveAdds' = ActiveAdds /\ c \notin ActiveAdds
  BY <1>0 DEF ActiveAdds, Adding
<1>5. AloneInv'
  BY <1>4 DEF AloneInv
<1>6. OwnBitsInv'
  BY <1>0, <1>4 DEF OwnBitsInv, IsSet, Writing, ActiveAdds
<1>7. MembersInv'
  BY <1>0 DEF MembersInv, IsSet, Writing
<1>8. KnownInv'
  BY <1>0 DEF KnownInv
<1>9. ForgetInv'
  <2>1. AddedBits' = AddedBits
    BY DEF AddedBits
  <2>2. UNCHANGED <<bits, writer, added, leftover>> /\ c \notin writer
    BY DEF LockInv, lock
  <2>3. ForgetInv
    OBVIOUS
  <2>4. \A d \in writer : todo'[d] = todo[d]
    BY <2>2, <1>0
  <2> HIDE DEF IInv, TypeOK, CheckReturn, IsFullReturn, Return, Goto
  <2> QED BY <1>0, <1>4, <2>1, <2>2, <2>3, <2>4 DEF ForgetInv, Writing, Adding
<1>10. AmountInv' /\ NotFullTooEarly'
  BY <1>0 DEF AmountInv, NotFullTooEarly
<1> QED BY <1>1, <1>2, <1>3, <1>5, <1>6, <1>7, <1>8, <1>9, <1>10

(* Reset takes the lock: from here on the filter has no members, and every *)
(* AddNode that runs is disturbed.                                         *)
LEMMA ResetLockStep ==
  ASSUME IInv, NEW c \in Callers, ResetLock(c)
  PROVE  IInv'
<1> USE FilterAssumption DEF IInv, TypeOK, ResetLock, Goto, Forget
<1>0. /\ \A d \in Callers : d # c => pc'[d] = pc[d] /\ todo'[d] = todo[d]
      /\ pc'[c] = "reset" /\ todo'[c] = Words
      /\ pc' \in [Callers -> States]
  BY DEF States
<1>1. TypeOK'
  BY <1>0 DEF ActiveAdds
<1>2. LockInv'
  BY <1>0 DEF LockInv
<1>3. LocalsInv'
  BY <1>0 DEF LocalsInv, Adding, Working
<1>4. ActiveAdds' = ActiveAdds
  BY <1>0 DEF ActiveAdds, Adding
<1>5. AloneInv' /\ OwnBitsInv'
  BY <1>4 DEF AloneInv, OwnBitsInv
<1>6. MembersInv'
  BY DEF MembersInv
<1>7. KnownInv'
  BY <1>0 DEF KnownInv, LockInv
<1>8. ForgetInv'
  <2>1. ~leftover' => ActiveAdds = {}
    OBVIOUS
  <2>2. ~leftover' => \A d \in Callers : pc'[d] \notin Adding \cup {"check", "checked"}
    BY <2>1, <1>0 DEF ActiveAdds, Adding, LockInv
  <2>3. \A x \in Words : \E d \in writer' : x \in todo'[d]
    BY <1>0
  <2> HIDE DEF IInv, TypeOK, ResetLock, Goto, Forget
  <2> QED BY <2>1, <2>2, <2>3, <1>4 DEF ForgetInv, Writing, Adding
<1>9. AmountInv' /\ NotFullTooEarly'
  BY <1>0 DEF AmountInv, NotFullTooEarly, LockInv, ActiveAdds, Adding
<1> QED BY <1>1, <1>2, <1>3, <1>5, <1>6, <1>7, <1>8, <1>9

(* Reset clears the next word, or returns.  No AddNode is undisturbed and  *)
(* there are no members while it holds the lock.                           *)
LEMMA ResetStepStep ==
  ASSUME IInv, NEW c \in Callers, ResetWord(c) \/ ResetReturn(c)
  PROVE  IInv'
<1> USE FilterAssumption DEF IInv, TypeOK, ResetWord, ResetReturn, Return, Goto, lock, history, since
<1>0. /\ \A d \in Callers : d # c => /\ pc'[d] = pc[d] /\ todo'[d] = todo[d]
                                     /\ key'[d] = key[d] /\ present'[d] = present[d]
      /\ pc[c] = "reset"
      /\ \/ pc'[c] = "idle" /\ present'[c] = TRUE /\ writer' = {}
         \/ pc' = pc /\ writer' = writer
      /\ todo'[c] \subseteq todo[c]
      /\ c \in writer /\ members' = {} /\ known' = known
  BY DEF LockInv, Rest
<1>1. TypeOK'
  <2>1. pc' \in [Callers -> States]
    BY DEF States
  <2>2. present' \in [Callers -> BOOLEAN]
    BY Zenon
  <2>3. todo' \in [Callers -> SUBSET (Bits \cup Words)]
    BY DEF Rest
  <2>4. bits' \in [Words -> SUBSET Bits]
    OBVIOUS
  <2>5. amount' \in 0..MaxAmount
    OBVIOUS
  <2> QED BY <2>1, <2>2, <2>3, <2>4, <2>5
<1>2. LockInv'
  BY <1>0 DEF LockInv
<1>3. LocalsInv'
  BY <1>0 DEF LocalsInv, Adding, Working
<1>4. ActiveAdds' = ActiveAdds
  BY <1>0 DEF ActiveAdds, Adding
<1>5. ActiveAdds \ disturbed = {}
  BY <1>0 DEF AloneInv
<1>6. AloneInv' /\ OwnBitsInv'
  BY <1>4, <1>5 DEF AloneInv, OwnBitsInv
<1>7. MembersInv'
  BY <1>0 DEF MembersInv
<1>8. KnownInv'
  BY <1>0 DEF KnownInv, LockInv
<1>9. ForgetInv'
  <2>1. AddedBits' = AddedBits
    BY DEF AddedBits
  <2>2. \A d \in writer : d = c
    BY <1>0 DEF LockInv
  <2>3. ASSUME ~leftover, NEW x \in Words
        PROVE  bits'[x] \subseteq AddedBits \/ \E d \in writer' : x \in todo'[d]
    BY <2>3, <2>2, <1>0 DEF ForgetInv, Rest
  <2>4. ~leftover => ActiveAdds' = {}
    BY <1>0, <1>4 DEF ForgetInv
  <2>5. ASSUME ~leftover, NEW d \in Callers
        PROVE  /\ pc'[d] \notin Adding
               /\ pc'[d] # "check" /\ ~(pc'[d] = "checked")
    BY <2>4, <2>5, <1>0 DEF ActiveAdds, LockInv
  <2>6. UNCHANGED leftover /\ (writer' # {} => ActiveAdds' = {} \/ leftover)
    BY <2>4
  <2> HIDE DEF IInv, TypeOK, ResetWord, ResetReturn, Return, Goto
  <2> QED BY <2>1, <2>3, <2>4, <2>5, <2>6 DEF ForgetInv, Writing, Adding
<1>10. AmountInv' /\ NotFullTooEarly'
  BY <1>0 DEF AmountInv, NotFullTooEarly
<1> QED BY <1>1, <1>2, <1>3, <1>6, <1>7, <1>8, <1>9, <1>10

(* IsFull takes the lock and looks at amount; no Reset is under way.     *)
LEMMA IsFullStep ==
  ASSUME IInv, NEW c \in Callers, IsFull(c)
  PROVE  IInv'
<1> USE FilterAssumption DEF IInv, TypeOK, IsFull, Goto, history, since
<1>0. /\ \A d \in Callers : /\ d # c => pc'[d] = pc[d] /\ present'[d] = present[d]
                            /\ Here(d)' = Here(d)
      /\ pc'[c] = "full"
      /\ present'[c] = (amount >= Cap)
      /\ pc' \in [Callers -> States]
  BY DEF States, Here
<1>1. TypeOK'
  <2>1. (amount >= Cap) \in BOOLEAN
    OBVIOUS
  <2>2. present' \in [Callers -> BOOLEAN]
    BY <2>1, Zenon
  <2>3. writer' = {} /\ readers' \subseteq Callers
    OBVIOUS
  <2> QED BY <2>2, <2>3, <1>0
<1>2. LockInv'
  BY <1>0 DEF LockInv
<1>3. LocalsInv'
  BY <1>0 DEF LocalsInv, Adding, Working
<1>4. ActiveAdds' = ActiveAdds /\ c \notin ActiveAdds
  BY <1>0 DEF ActiveAdds, Adding
<1>5. AloneInv'
  BY <1>4 DEF AloneInv
<1>6. OwnBitsInv'
  BY <1>0, <1>4 DEF OwnBitsInv, IsSet, Writing, ActiveAdds
<1>7. MembersInv'
  BY <1>0 DEF MembersInv, IsSet, Writing
<1>8. KnownInv'
  BY <1>0 DEF KnownInv
<1>9. ForgetInv'
  <2>1. AddedBits' = AddedBits
    BY DEF AddedBits
  <2> QED BY <1>0, <1>4, <2>1 DEF ForgetInv, Writing, Adding, ActiveAdds
<1>10. AmountInv' /\ NotFullTooEarly'
  BY <1>0 DEF AmountInv, NotFullTooEarly
<1> QED BY <1>1, <1>2, <1>3, <1>5, <1>6, <1>7, <1>8, <1>9, <1>10

------------------------------------------------------------------------------
(* Every step of every goroutine keeps the invariant. *)
LEMMA InvariantStep == IInv /\ [Next]_vars => IInv'
<1> SUFFICES ASSUME IInv, [Next]_vars PROVE IInv'
  OBVIOUS
<1>1. ASSUME NEW c \in Callers, AddStep(c) PROVE IInv'
  BY <1>1, AddNodeStep, ReadWordStep, WriteWordStep, TestBitStep, AddReturnsStep, CountReadStep
  DEF AddStep, AddRead, SetRead
<1>2. ASSUME NEW c \in Callers, CheckStep(c) PROVE IInv'
  BY <1>2, CheckLockStep, CheckBitStep, ReadersReturnStep DEF CheckStep
<1>3. ASSUME NEW c \in Callers, ResetStep(c) PROVE IInv'
  BY <1>3, ResetLockStep, ResetStepStep DEF ResetStep
<1>4. ASSUME NEW c \in Callers, FullStep(c) PROVE IInv'
  BY <1>4, IsFullStep, ReadersReturnStep DEF FullStep
<1>5. CASE UNCHANGED vars
  BY <1>5
  DEF vars, lock, since, history, Adding, Writing, Working, Rest, IInv, TypeOK, LockInv, LocalsInv, AloneInv, OwnBitsInv, MembersInv,
      KnownInv, ForgetInv, AddedBits, AmountInv, NotFullTooEarly, ActiveAdds, IsSet, Here
<1> QED BY <1>1, <1>2, <1>3, <1>4, <1>5 DEF Next

(* The invariant holds in every state of every run. *)
LEMMA Invariant == Spec => []IInv
BY InvariantInit, InvariantStep, PTL DEF Spec

(* Type correctness of the filter, the RWMutex included: readers and a     *)
(* writer never hold it together.                                          *)
THEOREM TypeCorrect == Spec => []TypeOK
BY Invariant, PTL DEF IInv

(* A node added by an AddNode that was not disturbed is found by Check     *)
(* until the next Reset, although AddNode writes the words of the bit set  *)
(* without the lock.                                                       *)
THEOREM AddedNodesAreFound == Spec => []AddedIsFound
<1>1. IInv => AddedIsFound
  BY DEF IInv, KnownInv, AddedIsFound
<1> QED BY <1>1, Invariant, PTL

(* After a Reset that no AddNode ran across, Check finds no bits but those *)
(* of nodes added since: the Reset takes effect as a whole, although it    *)
(* clears word by word and AddNode writes words back without the lock.     *)
THEOREM OldNodesAreForgotten == Spec => []ResetForgets
<1>1. IInv => ResetForgets
  BY DEF IInv, ForgetInv, AddedBits, ResetForgets
<1> QED BY <1>1, Invariant, PTL

(* Although amount is counted up without the lock, the filter is not       *)
(* called full for fewer than Cap additions since the last Reset.          *)
THEOREM FullIsCounted == Spec => []NotFullTooEarly
BY Invariant, PTL DEF IInv
==============================================================================
