----------------------------- MODULE NodeFilter -----------------------------
(***************************************************************************)
(* dht/crawler.go: nodeFilter, the bloom filter that remembers which nodes *)
(* have answered, shared by the workers (AddNode, Check), the transaction  *)
(* loop and the refresher (Reset, IsFull) and Stimulate (Reset).           *)
(*                                                                         *)
(* Check, Reset and IsFull hold the lock for as long as they run.  AddNode *)
(* locks and unlocks before it starts (crawler.go:320-321), so its reads   *)
(* and writes of the words of the bit set and of amount race with those of *)
(* everyone else; each such read and write is a step here.  The bit set    *)
(* (github.com/willf/bloom) sets a bit by reading its word and writing it  *)
(* back.                                                                   *)
(***************************************************************************)
EXTENDS Naturals

CONSTANTS
  Callers,   \* goroutines
  Keys,      \* "ip:port" of nodes
  NoKey,
  Bits,      \* bits of the bloom filter
  Words,     \* the words of its bit set
  WordOf,    \* the word a bit is in
  BitsOf,    \* the bits a key is hashed to
  Cap,       \* nodeFilter.cap
  MaxAmount  \* bound of this model: amount saturates here

ASSUME FilterAssumption ==
  /\ NoKey \notin Keys
  /\ WordOf \in [Bits -> Words]
  /\ BitsOf \in [Keys -> (SUBSET Bits) \ {{}}]
  /\ Cap \in Nat \ {0}
  /\ MaxAmount \in Nat

VARIABLES
  bits,      \* bits[x]: the bits that are set in word x
  amount,    \* nodeFilter.amount
  readers,   \* callers that hold the lock for reading
  writer,    \* callers that hold it for writing (at most one)
  pc,        \* pc[c]: where caller c is
  key,       \* key[c]: the key of its AddNode or Check
  todo,      \* todo[c]: the bits (AddNode, Check) or words (Reset) to come
  word,      \* word[c]: the copy it read of the word it is about to write
  present,   \* present[c]: what Test, or IsFull, has come to so far
  count,     \* count[c]: the amount it read
  disturbed, \* history: callers whose AddNode overlaps an AddNode or a Reset
  members,   \* history: keys added since the last Reset by an undisturbed AddNode
  known,     \* history: callers whose Check began with a member
  added,     \* history: keys whose AddNode began since the last Reset
  counted,   \* history: how many of them have been counted in amount
  leftover   \* history: an AddNode ran when the last Reset began

lock == <<readers, writer>>
since == <<added, counted, leftover>>
history == <<disturbed, members, known, since>>
vars == <<bits, amount, lock, pc, key, todo, word, present, count, history>>

Adding == {"add", "addwrite", "test", "set", "setwrite", "count", "countwrite"}
States == {"idle", "check", "checked", "reset", "full"} \cup Adding

TypeOK ==
  /\ bits \in [Words -> SUBSET Bits]
  /\ amount \in 0..MaxAmount
  /\ readers \subseteq Callers
  /\ writer \subseteq Callers
  /\ pc \in [Callers -> States]
  /\ key \in [Callers -> Keys \cup {NoKey}]
  /\ todo \in [Callers -> SUBSET (Bits \cup Words)]
  /\ word \in [Callers -> SUBSET Bits]
  /\ present \in [Callers -> BOOLEAN]
  /\ count \in [Callers -> 0..MaxAmount]
  /\ disturbed \subseteq Callers
  /\ members \subseteq Keys
  /\ known \subseteq Callers
  /\ added \subseteq Keys
  /\ counted \in 0..MaxAmount
  /\ leftover \in BOOLEAN
  \* the states of an RWMutex
  /\ readers = {} \/ writer = {}

Init ==
  /\ bits = [x \in Words |-> {}]
  /\ amount = 0
  /\ readers = {}
  /\ writer = {}
  /\ pc = [c \in Callers |-> "idle"]
  /\ key = [c \in Callers |-> NoKey]
  /\ todo = [c \in Callers |-> {}]
  /\ word = [c \in Callers |-> {}]
  /\ present = [c \in Callers |-> TRUE]
  /\ count = [c \in Callers |-> 0]
  /\ disturbed = {}
  /\ members = {}
  /\ known = {}
  /\ added = {}
  /\ counted = 0
  /\ leftover = FALSE

------------------------------------------------------------------------------
Goto(c, s) == pc' = [pc EXCEPT ![c] = s]

(* The bits of a key, and the words, are gone through in some fixed order. *)
First(S) == CHOOSE x \in S : TRUE
Here(c) == First(todo[c])
Rest(c) == todo[c] \ {Here(c)}

IsSet(b) == b \in bits[WordOf[b]]
ActiveAdds == {c \in Callers : pc[c] \in Adding}

(* A call returns; its locals are gone. *)
Return(c) ==
  /\ Goto(c, "idle")
  /\ key' = [key EXCEPT ![c] = NoKey]
  /\ todo' = [todo EXCEPT ![c] = {}]
  /\ word' = [word EXCEPT ![c] = {}]
  /\ present' = [present EXCEPT ![c] = TRUE]
  /\ count' = [count EXCEPT ![c] = 0]

AddReturns(c) ==
  /\ Return(c)
  /\ disturbed' = disturbed \ {c}
  /\ members' = IF c \in disturbed THEN members ELSE members \cup {key[c]}
  /\ UNCHANGED <<known, added, leftover>>

------------------------------------------------------------------------------
(* AddNode *)

(* lock.Lock(); lock.Unlock(): AddNode waits for the calls that hold the   *)
(* lock and goes on without it.                                            *)
AddNode(c, k) ==
  /\ pc[c] = "idle"
  /\ readers = {} /\ writer = {}
  /\ Goto(c, "add")
  /\ key' = [key EXCEPT ![c] = k]
  /\ todo' = [todo EXCEPT ![c] = BitsOf[k]]
  /\ disturbed' = IF ActiveAdds = {} THEN disturbed ELSE disturbed \cup ActiveAdds \cup {c}
  /\ added' = added \cup {k}
  /\ UNCHANGED <<bits, amount, lock, word, present, count, members, known, counted, leftover>>

(* The word of the next bit is read, first by AddString, then again by     *)
(* TestAndAddString ...                                                    *)
ReadWord(c, from, to) ==
  /\ pc[c] = from
  /\ Goto(c, to)
  /\ word' = [word EXCEPT ![c] = bits[WordOf[Here(c)]]]
  /\ UNCHANGED <<bits, amount, lock, key, todo, present, count, history>>

(* ... and written back with the bit.                                      *)
WriteWord(c) ==
  /\ bits' = [bits EXCEPT ![WordOf[Here(c)]] = word[c] \cup {Here(c)}]
  /\ UNCHANGED <<amount, lock, key, word, present, count, history>>

AddRead(c) == ReadWord(c, "add", "addwrite")

(* AddString sets the next bit; after the last one TestAndAddString starts. *)
AddWrite(c) ==
  /\ pc[c] = "addwrite"
  /\ WriteWord(c)
  /\ Goto(c, IF Rest(c) = {} THEN "test" ELSE "add")
  /\ todo' = [todo EXCEPT ![c] = IF Rest(c) = {} THEN BitsOf[key[c]] ELSE Rest(c)]

TestBit(c) ==
  /\ pc[c] = "test"
  /\ Goto(c, "set")
  /\ present' = [present EXCEPT ![c] = @ /\ IsSet(Here(c))]
  /\ UNCHANGED <<bits, amount, lock, key, todo, word, count, history>>

SetRead(c) == ReadWord(c, "set", "setwrite")

SetWrite(c) ==
  /\ pc[c] = "setwrite"
  /\ WriteWord(c)
  /\ Goto(c, IF Rest(c) = {} THEN "count" ELSE "test")
  /\ todo' = [todo EXCEPT ![c] = Rest(c)]

(* The node was there already: return true. *)
AddKnown(c) ==
  /\ pc[c] = "count"
  /\ present[c]
  /\ AddReturns(c)
  /\ UNCHANGED <<bits, amount, lock, counted>>

More(n) == IF n < MaxAmount THEN n + 1 ELSE MaxAmount

(* filter.amount++, then return false. *)
CountRead(c) ==
  /\ pc[c] = "count"
  /\ ~present[c]
  /\ Goto(c, "countwrite")
  /\ count' = [count EXCEPT ![c] = amount]
  /\ UNCHANGED <<bits, amount, lock, key, todo, word, present, history>>

CountWrite(c) ==
  /\ pc[c] = "countwrite"
  /\ amount' = More(count[c])
  /\ counted' = More(counted)
  /\ AddReturns(c)
  /\ UNCHANGED <<bits, lock>>

------------------------------------------------------------------------------
(* Check *)

CheckLock(c, k) ==
  /\ pc[c] = "idle"
  /\ writer = {}
  /\ readers' = readers \cup {c}
  /\ Goto(c, "check")
  /\ key' = [key EXCEPT ![c] = k]
  /\ todo' = [todo EXCEPT ![c] = BitsOf[k]]
  /\ known' = IF k \in members THEN known \cup {c} ELSE known
  /\ UNCHANGED <<bits, amount, writer, word, present, count, disturbed, members, since>>

(* TestString gives up at the first bit that is not set. *)
CheckBit(c) ==
  /\ pc[c] = "check"
  /\ present' = [present EXCEPT ![c] = IsSet(Here(c))]
  /\ todo' = [todo EXCEPT ![c] = Rest(c)]
  /\ Goto(c, IF IsSet(Here(c)) /\ Rest(c) # {} THEN "check" ELSE "checked")
  /\ UNCHANGED <<bits, amount, lock, key, word, count, history>>

(* return !present, and the deferred RUnlock. *)
CheckReturn(c) ==
  /\ pc[c] = "checked"
  /\ readers' = readers \ {c}
  /\ known' = known \ {c}
  /\ Return(c)
  /\ UNCHANGED <<bits, amount, writer, disturbed, members, since>>

------------------------------------------------------------------------------
(* Reset *)

(* The old nodes are forgotten; an AddNode that runs across the Reset may  *)
(* bring some of them back, or the amount that there was.                  *)
Forget ==
  /\ disturbed' = disturbed \cup ActiveAdds
  /\ members' = {}
  /\ added' = {}
  /\ counted' = 0
  /\ leftover' = (ActiveAdds # {})

(* Mutant: Reset locks and unlocks at once, as AddNode does. *)
ResetUnlocked(c) ==
  /\ pc[c] = "idle"
  /\ readers = {} /\ writer = {}
  /\ Goto(c, "reset")
  /\ todo' = [todo EXCEPT ![c] = Words]
  /\ Forget
  /\ UNCHANGED <<bits, amount, lock, key, word, present, count, known>>

ResetLock(c) ==
  /\ pc[c] = "idle"
  /\ readers = {} /\ writer = {}
  /\ writer' = {c}
  /\ Goto(c, "reset")
  /\ todo' = [todo EXCEPT ![c] = Words]
  /\ Forget
  /\ UNCHANGED <<bits, amount, readers, key, word, present, count, known>>

(* ClearAll, word by word. *)
ResetWord(c) ==
  /\ pc[c] = "reset"
  /\ todo[c] # {}
  /\ bits' = [bits EXCEPT ![Here(c)] = {}]
  /\ todo' = [todo EXCEPT ![c] = Rest(c)]
  /\ UNCHANGED <<amount, lock, pc, key, word, present, count, history>>

(* Mutant: amount is not reset. *)
ResetReturnKeeps(c) ==
  /\ pc[c] = "reset"
  /\ todo[c] = {}
  /\ writer' = {}
  /\ Return(c)
  /\ UNCHANGED <<bits, amount, readers, history>>

(* amount = 0, and the deferred Unlock. *)
ResetReturn(c) ==
  /\ pc[c] = "reset"
  /\ todo[c] = {}
  /\ amount' = 0
  /\ writer' = {}
  /\ Return(c)
  /\ UNCHANGED <<bits, readers, history>>

------------------------------------------------------------------------------
(* IsFull *)

IsFull(c) ==
  /\ pc[c] = "idle"
  /\ writer = {}
  /\ readers' = readers \cup {c}
  /\ Goto(c, "full")
  /\ present' = [present EXCEPT ![c] = amount >= Cap]
  /\ UNCHANGED <<bits, amount, writer, key, todo, word, count, history>>

IsFullReturn(c) ==
  /\ pc[c] = "full"
  /\ readers' = readers \ {c}
  /\ Return(c)
  /\ UNCHANGED <<bits, amount, writer, history>>

------------------------------------------------------------------------------
AddStep(c) ==
  \/ \E k \in Keys : AddNode(c, k)
  \/ AddRead(c) \/ AddWrite(c)
  \/ TestBit(c) \/ SetRead(c) \/ SetWrite(c)
  \/ AddKnown(c) \/ CountRead(c) \/ CountWrite(c)

CheckStep(c) ==
  \/ \E k \in Keys : CheckLock(c, k)
  \/ CheckBit(c) \/ CheckReturn(c)

ResetStep(c) == ResetLock(c) \/ ResetWord(c) \/ ResetReturn(c)

FullStep(c) == IsFull(c) \/ IsFullReturn(c)

Next == \E c \in Callers : AddStep(c) \/ CheckStep(c) \/ ResetStep(c) \/ FullStep(c)

Spec == Init /\ [][Next]_vars

------------------------------------------------------------------------------
(* A node that was added, by an AddNode that overlapped neither another    *)
(* AddNode nor a Reset, is not admitted again before the next Reset: Check *)
(* finds all its bits, however many AddNodes race for the words they are   *)
(* in afterwards.                                                          *)
AddedIsFound ==
  \A c \in Callers : pc[c] = "checked" /\ c \in known => present[c]

(* After a Reset nobody is taken for a node that was known before it: a    *)
(* Check that finds all the bits of its node finds them among those of     *)
(* nodes whose AddNode began since (which is the error rate of a bloom     *)
(* filter, crawler.go:314).  Only an AddNode that was running when Reset   *)
(* took the lock, and writes back a word that it read before, may bring    *)
(* old nodes back (crawler.go:324-325, 343).                               *)
ResetForgets ==
  \A c \in Callers : pc[c] = "checked" /\ present[c] /\ ~leftover =>
    BitsOf[key[c]] \subseteq UNION {BitsOf[k] : k \in added}

(* amount is read and written back without the lock, and so may miss       *)
(* additions, but the filter is not called full for fewer than cap of them *)
(* since the last Reset (crawler.go:326, 344, 350), unless an AddNode ran  *)
(* across it and brought the old amount back.                              *)
NotFullTooEarly ==
  \A c \in Callers : pc[c] = "full" /\ present[c] /\ ~leftover => counted >= Cap
==============================================================================
