-------------------------- MODULE PluginChatsProof --------------------------
(***************************************************************************)
(* Theorems of PluginChats, for any number of windows, conversations and   *)
(* requests, whatever is hidden, replaced, stopped or lost meanwhile: a    *)
(* reply joins a conversation only right below the request it answers,     *)
(* what is submitted is within the gateway's limits, what is shown is      *)
(* saved or about to be, and a saved reply stays.                          *)
(*                                                                         *)
(* IInv is what each window and each stored conversation is by itself.  A  *)
(* busy window ends with its question: nothing may be added, and no other  *)
(* conversation taken over, until the request has ended.  The data file    *)
(* only ever takes what a window holds.                                    *)
(*                                                                         *)
(* HInv is what they owe each other.  At most one open window of a kind    *)
(* holds a conversation of that kind; while no request of an earlier run   *)
(* can write it, what the window holds is in the data file or its timer    *)
(* is armed, and no reply on disk is missing in the window.                *)
(***************************************************************************)
EXTENDS PluginChats, SequenceTheorems, WellFoundedInduction, TLAPS

Drafts == 0..MaxRequests

\* A stored conversation.
ContentNames == {"kind", "mode", "messages", "turns", "draft", "status"}

GoodConversation(c) ==
    /\ c = [x \in ContentNames |-> c[x]]
    /\ c.messages \in Seq(Message)
    /\ c.turns \in Seq(Turn)
    /\ AnswersFollow(c.turns)
    /\ c.draft \in Drafts

\* The data file.
GoodDisk(d) ==
    /\ d = [stored |-> d.stored, index |-> d.index, active |-> d.active]
    /\ d.stored = [id \in Ids |-> d.stored[id]]
    /\ \A id \in Ids : GoodConversation(d.stored[id])
    /\ d.index = [k \in Kept |-> d.index[k]]
    /\ d.active \in [Kept -> Ids \cup {0}]
    /\ \A k \in Kept : d.active[k] = 0 => d.index[k] = <<>>

\* Answers follow their questions in a conversation; an audit has none.
KeepsOrder(v) == v.kind \in Kept => AnswersFollow(v.turns)

\* A busy window's conversation ends with the question that it asks.
EndsWithQuestion(v) ==
    /\ v.asked \in Requests
    /\ v.kind \in Kept =>
         /\ v.turns # <<>>
         /\ v.turns[Len(v.turns)] = [role |-> "user", n |-> v.asked]

\* What it submits ends with that question and is within the limits.
WithinLimits(v) ==
    /\ v.messages # <<>>
    /\ Last(v.messages).role = "user"
    /\ Last(v.messages).n = v.asked
    /\ Fits(v.messages)

FieldNames == {"kind", "st", "sess", "mode", "messages", "turns", "draft",
               "status", "asked", "pc", "aborted", "armed"}

IsWindow(v) == v = [x \in FieldNames |-> v[x]]

\* Windows that may still write their conversation.
Alive == {"shown", "hidden", "late"}

GoodWindow(v) ==
    /\ IsWindow(v)
    /\ v.messages \in Seq(Message)
    /\ v.turns \in Seq(Turn)
    /\ KeepsOrder(v)
    /\ v.draft \in Drafts
    /\ v.st \in Alive => v.kind \in Kinds
    /\ v.st \in Alive /\ v.kind \in Kept => v.sess \in Ids
    /\ v.pc # "idle" => EndsWithQuestion(v) /\ WithinLimits(v) /\ v.st \in Alive

GoodWindows(f) == f = [w \in Windows |-> f[w]] /\ \A w \in Windows : GoodWindow(f[w])

IInv == GoodDisk(Disk) /\ GoodWindows(win) /\ typed \in Drafts

-----------------------------------------------------------------------------
(***************************************************************************)
(* Sets and sequences                                                      *)
(***************************************************************************)

LEMMA LessThan == OpToRel(<, Nat) = {ss \in Nat \X Nat : ss[1] < ss[2]}
  BY Zenon DEF OpToRel

\* A set of naturals has a least member, a bounded one a greatest.
LEMMA MinLeast ==
    ASSUME NEW S, S \subseteq Nat, S # {}
    PROVE  Min(S) \in S /\ \A y \in S : Min(S) <= y
<1> DEFINE R == {ss \in Nat \X Nat : ss[1] < ss[2]}
<1>0. IsWellFoundedOn(R, Nat)
  BY NatLessThanWellFounded, LessThan
<1>1. PICK x \in S : \A y \in S : ~(<<y, x>> \in R)
  BY <1>0, WFMin
<1>2. ASSUME NEW y \in S PROVE x <= y
  <2>1. <<y, x>> \in Nat \X Nat /\ <<y, x>> \notin R
    BY <1>1
  <2>2. ~(y < x)
    BY <2>1
  <2> QED
    BY <2>2
<1> QED
  BY <1>2 DEF Min

LEMMA MaxGreatest ==
    ASSUME NEW n \in Nat, NEW T, T \subseteq 0..n, T # {}
    PROVE  Max(T) \in T /\ \A y \in T : Max(T) >= y
<1> DEFINE B == {b \in 0..n : \A y \in T : b >= y}
<1>1. n \in B /\ B \subseteq Nat
  OBVIOUS
<1>2. PICK m \in B : \A b \in B : m <= b
  BY <1>1, MinLeast
<1>3. m \in T
  <2> SUFFICES ASSUME m \notin T PROVE FALSE
    OBVIOUS
  <2>1. \A y \in T : y \in Nat /\ y < m
    BY <1>2
  <2>2. PICK y \in T : TRUE
    OBVIOUS
  <2>3. m \in Nat /\ m - 1 \in 0..n
    BY <2>1, <2>2
  <2>4. m - 1 \in B
    BY <2>1, <2>3
  <2>5. m <= m - 1
    BY <1>2, <2>4
  <2> QED
    BY <2>3, <2>5
<1>4. \A y \in T : m >= y
  BY <1>2
<1> QED
  BY <1>3, <1>4 DEF Max

\* A question may follow anything.
LEMMA QuestionFollows ==
    ASSUME NEW ts \in Seq(Turn), AnswersFollow(ts), NEW n \in Requests
    PROVE  LET q == [role |-> "user", n |-> n]
               new == Append(ts, q)
           IN  /\ new \in Seq(Turn) /\ new # <<>> /\ AnswersFollow(new)
               /\ new[Len(new)] = q
<1> DEFINE q == [role |-> "user", n |-> n]
           new == Append(ts, q)
<1>1. q \in Turn /\ q.role = "user"
  BY DEF Turn
<1> HIDE DEF q
<1>2. /\ new \in Seq(Turn) /\ new # <<>> /\ Len(new) = Len(ts) + 1
      /\ \A i \in 1..Len(ts) : new[i] = ts[i]
      /\ new[Len(ts) + 1] = q /\ Len(ts) \in Nat
  BY <1>1, AppendProperties, LenProperties
<1> HIDE DEF new
<1>3. ASSUME NEW i \in 1..Len(new), new[i].role = "assistant"
      PROVE  i > 1 /\ new[i-1] = [role |-> "user", n |-> new[i].n]
  <2>1. i \in 1..Len(ts) /\ new[i] = ts[i]
    BY <1>1, <1>2, <1>3
  <2>2. i > 1 /\ ts[i-1] = [role |-> "user", n |-> ts[i].n]
    BY <1>3, <2>1 DEF AnswersFollow
  <2>3. i - 1 \in 1..Len(ts)
    BY <1>2, <2>1, <2>2
  <2> QED
    BY <1>2, <2>1, <2>2, <2>3
<1>4. AnswersFollow(new)
  BY <1>3 DEF AnswersFollow
<1> QED
  BY <1>2, <1>4 DEF new, q

\* An answer follows its question.
LEMMA AnswerFollows ==
    ASSUME NEW ts \in Seq(Turn), AnswersFollow(ts), NEW n \in Requests, ts # <<>>,
           ts[Len(ts)] = [role |-> "user", n |-> n]
    PROVE  LET new == Append(ts, [role |-> "assistant", n |-> n])
           IN  new \in Seq(Turn) /\ AnswersFollow(new)
<1> DEFINE a == [role |-> "assistant", n |-> n]
           new == Append(ts, a)
<1>1. a \in Turn /\ a.n = n
  BY DEF Turn
<1> HIDE DEF a
<1>2. /\ new \in Seq(Turn) /\ Len(new) = Len(ts) + 1
      /\ \A i \in 1..Len(ts) : new[i] = ts[i]
      /\ new[Len(ts) + 1] = a /\ Len(ts) \in Nat
  BY <1>1, AppendProperties, LenProperties
<1>3. Len(ts) \in Nat \ {0}
  BY EmptySeq
<1> HIDE DEF new
<1>4. ASSUME NEW i \in 1..Len(new), new[i].role = "assistant"
      PROVE  i > 1 /\ new[i-1] = [role |-> "user", n |-> new[i].n]
  <2>1. CASE i \in 1..Len(ts)
    <3>1. i > 1 /\ ts[i-1] = [role |-> "user", n |-> ts[i].n]
      BY <1>2, <1>4, <2>1 DEF AnswersFollow
    <3>2. i - 1 \in 1..Len(ts)
      BY <1>2, <2>1, <3>1
    <3> QED
      BY <1>2, <2>1, <3>1, <3>2
  <2>2. CASE i = Len(ts) + 1
    <3>1. i > 1 /\ i - 1 = Len(ts) /\ i - 1 \in 1..Len(ts)
      BY <1>3, <2>2
    <3>2. new[i-1] = ts[Len(ts)] /\ new[i].n = n
      BY <1>1, <1>2, <2>2, <3>1
    <3> QED
      BY <3>1, <3>2
  <2> QED
    BY <1>2, <2>1, <2>2
<1>5. AnswersFollow(new)
  BY <1>4 DEF AnswersFollow
<1> QED
  BY <1>2, <1>5 DEF new, a

LEMMA LastOfAppend ==
    ASSUME NEW S, NEW s \in Seq(S), NEW x \in S
    PROVE  Append(s, x) \in Seq(S) /\ Append(s, x) # <<>> /\ Last(Append(s, x)) = x
<1>1. Len(Append(s, x)) = Len(s) + 1 /\ Append(s, x)[Len(s) + 1] = x /\ Append(s, x) \in Seq(S)
  BY AppendProperties
<1>2. Append(s, x) # <<>>
  BY AppendProperties
<1> QED
  BY <1>1, <1>2 DEF Last

LEMMA FrontOf ==
    ASSUME NEW S, NEW s \in Seq(S), s # <<>> PROVE Front(s) \in Seq(S)
<1>1. Len(s) - 1 \in 0..Len(s) /\ Len(s) \in Nat /\ \A i \in 1..Len(s) : s[i] \in S
  BY EmptySeq, LenProperties
<1>2. \A i \in 1..(Len(s) - 1) : s[i] \in S
  BY <1>1
<1> QED
  BY <1>1, <1>2, SubSeqProperties DEF Front

\* The last turn may be taken back.
LEMMA FrontFollows ==
    ASSUME NEW ts \in Seq(Turn), AnswersFollow(ts), ts # <<>>
    PROVE  Front(ts) \in Seq(Turn) /\ AnswersFollow(Front(ts))
<1> DEFINE m == Len(ts) - 1
           new == SubSeq(ts, 1, m)
<1>1. Len(ts) \in Nat \ {0} /\ \A i \in 1..Len(ts) : ts[i] \in Turn
  BY EmptySeq, LenProperties
<1>2. m \in Int /\ m >= 0 /\ \A i \in 1..m : i \in 1..Len(ts) /\ ts[i] \in Turn
  BY <1>1
<1>3. /\ new \in Seq(Turn) /\ Len(new) = IF 1 <= m THEN m - 1 + 1 ELSE 0
      /\ \A i \in 1..(m - 1 + 1) : new[i] = ts[1 + i - 1]
  BY <1>2, SubSeqProperties
<1> HIDE DEF m, new
<1>4. Len(new) = m /\ \A i \in 1..m : new[i] = ts[i]
  BY <1>2, <1>3
<1>5. AnswersFollow(new)
  <2> SUFFICES ASSUME NEW i \in 1..m, new[i].role = "assistant"
               PROVE  i > 1 /\ new[i-1] = [role |-> "user", n |-> new[i].n]
    BY <1>4 DEF AnswersFollow
  <2>1. i \in 1..Len(ts) /\ new[i] = ts[i]
    BY <1>2, <1>4
  <2>2. i > 1 /\ ts[i-1] = [role |-> "user", n |-> ts[i].n]
    BY <2>1 DEF AnswersFollow
  <2>3. i - 1 \in 1..m
    BY <1>2, <2>2
  <2> QED
    BY <1>4, <2>1, <2>2, <2>3
<1> QED
  BY <1>3, <1>5 DEF Front, new, m

-----------------------------------------------------------------------------
(***************************************************************************)
(* The weight of a context                                                 *)
(***************************************************************************)

\* What the fold adds up, on the sets of positions D.
IsSum(ms, g, D) ==
    g = [T \in D |-> IF T = {} THEN 0 ELSE g[T \ {Max(T)}] + ms[Max(T)].size]

SumOf(ms) == CHOOSE g : IsSum(ms, g, SUBSET DOMAIN ms)

LEMMA WeightIs == ASSUME NEW ms PROVE Weight(ms) = SumOf(ms)[DOMAIN ms]
BY Zenon DEF Weight, FoldLeft, MapThenFoldSet, SumOf, IsSum

\* There is such a sum: there is none shorter that cannot be continued.
LEMMA SumExists ==
    ASSUME NEW ms, NEW n \in Nat PROVE \E g : IsSum(ms, g, SUBSET (1..n))
<1> DEFINE Bad == {i \in Nat : ~ \E g : IsSum(ms, g, SUBSET (1..i))}
<1> SUFFICES ASSUME Bad # {} PROVE FALSE
  OBVIOUS
<1>1. PICK m \in Bad : \A i \in Bad : m <= i
  BY MinLeast
<1>2. m # 0
  <2> DEFINE g == [T \in SUBSET (1..0) |-> 0]
  <2>1. \A T \in SUBSET (1..0) : T = {}
    OBVIOUS
  <2>2. IsSum(ms, g, SUBSET (1..0))
    BY <2>1 DEF IsSum
  <2> QED
    BY <2>2
<1>3. m \in Nat /\ m - 1 \in Nat /\ m - 1 \notin Bad
  <2>1. m \in Nat /\ m - 1 \in Nat
    BY <1>2
  <2>2. m - 1 \in Bad => m <= m - 1
    BY <1>1
  <2>3. ~(m <= m - 1)
    BY <2>1
  <2> QED
    BY <2>1, <2>2, <2>3
<1>4. PICK g : IsSum(ms, g, SUBSET (1..(m - 1)))
  BY <1>3
<1> DEFINE h == [T \in SUBSET (1..m) |-> IF m \in T THEN g[T \ {m}] + ms[m].size ELSE g[T]]
<1>5. \A T \in SUBSET (1..(m - 1)) :
        g[T] = IF T = {} THEN 0 ELSE g[T \ {Max(T)}] + ms[Max(T)].size
  BY <1>4, Zenon DEF IsSum
<1>6. ASSUME NEW T \in SUBSET (1..m)
      PROVE  h[T] = IF T = {} THEN 0 ELSE h[T \ {Max(T)}] + ms[Max(T)].size
  <2>1. CASE T = {}
    BY <1>5, <2>1
  <2>2. CASE T # {} /\ m \in T
    <3>1. Max(T) \in T /\ Max(T) >= m
      <4>1. T \subseteq 0..m
        BY <1>3
      <4> QED
        BY <1>3, <2>2, <4>1, MaxGreatest
    <3>2. Max(T) = m
      <4>1. Max(T) \in 1..m
        BY <3>1
      <4> QED
        BY <1>3, <3>1, <4>1
    <3>3. T \ {m} \in SUBSET (1..m)
      OBVIOUS
    <3>4. h[T \ {m}] = g[T \ {m}] /\ h[T] = g[T \ {m}] + ms[m].size
      BY <2>2, <3>3
    <3> HIDE DEF h
    <3> QED
      BY <2>2, <3>2, <3>4
  <2>3. CASE T # {} /\ m \notin T
    <3>1. T \in SUBSET (1..(m - 1))
      BY <2>3
    <3>2. T \ {Max(T)} \in SUBSET (1..m)
      OBVIOUS
    <3>3. h[T] = g[T] /\ h[T \ {Max(T)}] = g[T \ {Max(T)}]
      BY <2>3, <3>2
    <3> HIDE DEF h
    <3> QED
      BY <1>5, <2>3, <3>1, <3>3
  <2> QED
    BY <2>1, <2>2, <2>3
<1>7. DOMAIN h = SUBSET (1..m) /\ h = [T \in DOMAIN h |-> h[T]]
  OBVIOUS
<1> HIDE DEF h
<1>8. IsSum(ms, h, SUBSET (1..m))
  BY <1>6, <1>7 DEF IsSum
<1> QED
  BY <1>8

LEMMA SumSteps ==
    ASSUME NEW ms \in Seq(Message)
    PROVE  /\ SumOf(ms)[1..0] = 0
           /\ \A i \in 1..Len(ms) : SumOf(ms)[1..i] = SumOf(ms)[1..(i-1)] + ms[i].size
<1> DEFINE g == SumOf(ms)
<1>1. DOMAIN ms = 1..Len(ms) /\ Len(ms) \in Nat
  BY LenProperties
<1>2. IsSum(ms, g, SUBSET (1..Len(ms)))
  BY <1>1, SumExists DEF SumOf
<1> HIDE DEF g
<1>3. \A T \in SUBSET (1..Len(ms)) :
        g[T] = IF T = {} THEN 0 ELSE g[T \ {Max(T)}] + ms[Max(T)].size
  BY <1>2, Zenon DEF IsSum
<1>4. 1..0 = {} /\ {} \in SUBSET (1..Len(ms))
  OBVIOUS
<1>5. ASSUME NEW i \in 1..Len(ms) PROVE g[1..i] = g[1..(i-1)] + ms[i].size
  <2>1. i \in Nat /\ i >= 1 /\ i <= Len(ms)
    BY <1>1
  <2>8. i \in 1..i
    BY <2>1
  <2>4. i \in 1..i /\ 1..i # {}
    BY <2>8
  <2>6. 1..i \subseteq 0..i
    BY <2>1
  <2>7. ASSUME NEW x \in 1..i PROVE x \in 1..Len(ms)
    BY <1>1, <2>1
  <2>5. 1..i \in SUBSET (1..Len(ms))
    BY <2>7
  <2>2. Max(1..i) \in 1..i /\ Max(1..i) >= i
    BY <2>1, <2>4, <2>6, MaxGreatest
  <2>3. Max(1..i) = i /\ (1..i) \ {i} = 1..(i-1)
    BY <2>1, <2>2
  <2> QED
    BY <1>3, <2>3, <2>4, <2>5
<1> QED
  BY <1>3, <1>4, <1>5 DEF g

LEMMA WeightNat == ASSUME NEW ms \in Seq(Message) PROVE Weight(ms) \in Nat
<1> DEFINE g == SumOf(ms)
           Bad == {i \in 0..Len(ms) : g[1..i] \notin Nat}
<1>1. DOMAIN ms = 1..Len(ms) /\ Len(ms) \in Nat /\ \A i \in 1..Len(ms) : ms[i].size \in Nat
  <2>1. \A i \in 1..Len(ms) : ms[i] \in Message
    BY LenProperties
  <2>2. \A m \in Message : m.size \in Nat
    BY DEF Message
  <2> QED
    BY <2>1, <2>2, LenProperties
<1>2. g[1..0] = 0 /\ \A i \in 1..Len(ms) : g[1..i] = g[1..(i-1)] + ms[i].size
  BY SumSteps
<1> HIDE DEF g
<1>3. Bad = {}
  <2> SUFFICES ASSUME Bad # {} PROVE FALSE
    OBVIOUS
  <2>0. Bad \subseteq Nat
    BY <1>1
  <2>1. PICK m \in Bad : \A i \in Bad : m <= i
    BY <2>0, MinLeast
  <2>2. m # 0
    BY <1>2
  <2>3. m - 1 \in 0..Len(ms) /\ m \in 1..Len(ms) /\ m - 1 \notin Bad
    BY <1>1, <2>1, <2>2
  <2>4. g[1..(m-1)] \in Nat
    BY <2>3
  <2>5. g[1..m] = g[1..(m-1)] + ms[m].size /\ ms[m].size \in Nat
    BY <1>1, <1>2, <2>3
  <2>6. g[1..m] \in Nat
    BY <2>4, <2>5
  <2> QED
    BY <2>6
<1>4. g[1..Len(ms)] \in Nat
  BY <1>1, <1>3
<1> QED
  BY <1>1, <1>4, WeightIs DEF g

LEMMA WeightEmpty == Weight(<<>>) = 0
<1>1. <<>> \in Seq(Message) /\ DOMAIN <<>> = 1..0
  OBVIOUS
<1> QED
  BY <1>1, SumSteps, WeightIs

\* One more message adds its size.
LEMMA WeightAppend ==
    ASSUME NEW ms \in Seq(Message), NEW m \in Message
    PROVE  Weight(Append(ms, m)) = Weight(ms) + m.size
<1> DEFINE new == Append(ms, m)
           g == SumOf(ms)
           h == SumOf(new)
           Bad == {i \in 0..Len(ms) : g[1..i] # h[1..i]}
<1>1. /\ new \in Seq(Message) /\ Len(new) = Len(ms) + 1 /\ Len(ms) \in Nat
      /\ \A i \in 1..Len(ms) : new[i] = ms[i]
      /\ new[Len(ms) + 1] = m
      /\ DOMAIN ms = 1..Len(ms) /\ DOMAIN new = 1..(Len(ms) + 1)
  BY AppendProperties, LenProperties
<1> HIDE DEF new
<1>2. g[1..0] = 0 /\ \A i \in 1..Len(ms) : g[1..i] = g[1..(i-1)] + ms[i].size
  BY SumSteps
<1>3. h[1..0] = 0 /\ \A i \in 1..Len(new) : h[1..i] = h[1..(i-1)] + new[i].size
  BY <1>1, SumSteps
<1> HIDE DEF g, h
<1>4. Bad = {}
  <2> SUFFICES ASSUME Bad # {} PROVE FALSE
    OBVIOUS
  <2>0. Bad \subseteq Nat
    BY <1>1
  <2>1. PICK b \in Bad : \A i \in Bad : b <= i
    BY <2>0, MinLeast
  <2>2. b # 0
    BY <1>2, <1>3
  <2>3. b - 1 \in 0..Len(ms) /\ b \in 1..Len(ms) /\ b \in 1..Len(new) /\ b - 1 \notin Bad
    BY <1>1, <2>1, <2>2
  <2>4. g[1..(b-1)] = h[1..(b-1)]
    BY <2>3
  <2>5. g[1..b] = h[1..b]
    BY <1>1, <1>2, <1>3, <2>3, <2>4
  <2> QED
    BY <2>5
<1>5. g[1..Len(ms)] = h[1..Len(ms)]
  BY <1>1, <1>4
<1>6. h[1..(Len(ms) + 1)] = h[1..Len(ms)] + m.size
  <2>1. Len(ms) + 1 \in 1..Len(new) /\ (Len(ms) + 1) - 1 = Len(ms)
    BY <1>1
  <2> QED
    BY <1>1, <1>3, <2>1
<1> QED
  BY <1>1, <1>5, <1>6, WeightIs DEF g, h, new

-----------------------------------------------------------------------------
(***************************************************************************)
(* Compaction                                                              *)
(***************************************************************************)

LEMMA SummaryIs ==
    /\ Summary \in Seq(Message) /\ Len(Summary) = 2
    /\ Weight(Summary) = SummarySize
<1> DEFINE a == [role |-> "user", n |-> 0, size |-> SummarySize]
           b == [role |-> "assistant", n |-> 0, size |-> 0]
<1>1. a \in Message /\ b \in Message /\ a.size = SummarySize /\ b.size = 0
  BY ChatBounds DEF Message
<1> HIDE DEF a, b
<1>2. Summary = Append(Append(<<>>, a), b)
  BY DEF Summary, a, b
<1>3. Append(<<>>, a) \in Seq(Message) /\ Len(Append(<<>>, a)) = 1
  BY <1>1
<1>4. SummarySize \in Nat
  BY ChatBounds
<1>5. Weight(Summary) = SummarySize
  <2>1. <<>> \in Seq(Message)
    OBVIOUS
  <2>2. Weight(Append(<<>>, a)) = Weight(<<>>) + a.size
    BY <1>1, <2>1, WeightAppend
  <2>3. Weight(Summary) = Weight(Append(<<>>, a)) + b.size
    BY <1>1, <1>2, <1>3, WeightAppend
  <2> QED
    BY <1>1, <1>4, <2>2, <2>3, WeightEmpty
<1> QED
  BY <1>1, <1>2, <1>3, <1>5

\* The messages that a compaction keeps are messages.
LEMMA NewestGood ==
    ASSUME NEW ms \in Seq(Message), NEW j \in 0..Len(ms)
    PROVE  Newest(ms, j) \in Seq(Message)
<1> DEFINE m == Len(ms) - j + 1
           n == Len(ms)
<1>1. n \in Nat /\ m \in 1..(n + 1) /\ \A i \in 1..n : ms[i] \in Message
  BY LenProperties
<1>2. \A i \in m..n : ms[i] \in Message
  BY <1>1
<1>3. SubSeq(ms, m, n) \in Seq(Message)
  BY <1>1, <1>2, SubSeqProperties
<1> QED
  BY <1>3, SummaryIs, ConcatProperties DEF Newest

\* With nothing kept there is the summary alone.
LEMMA NewestNone == ASSUME NEW ms \in Seq(Message) PROVE Newest(ms, 0) = Summary
<1> DEFINE n == Len(ms)
<1>1. n \in Nat
  BY LenProperties
<1>2. SubSeq(ms, n - 0 + 1, n) = <<>>
  BY <1>1, SubSeqEmpty
<1> QED
  BY <1>2, SummaryIs, ConcatEmptySeq DEF Newest

\* What suits an upcoming request of a size.
Suiting(s, upcoming) ==
    LET room  == Max({LeastContext, Context - upcoming})
        extra == IF upcoming > 0 THEN 1 ELSE 0
    IN  Len(s) + extra <= MaxMessages /\ Weight(s) <= room

Keeping(k, ms, upcoming) ==
    {j \in 0..Min({Recent[k], Len(ms)}) : Suiting(Newest(ms, j), upcoming)}

LEMMA CompactIs ==
    ASSUME NEW k, NEW ms, NEW u
    PROVE  Compact(k, ms, u) = IF Suiting(ms, u) THEN ms
                               ELSE Newest(ms, Max(Keeping(k, ms, u) \cup {0}))
BY DEF Compact, Suiting, Keeping

LEMMA KeptRange ==
    ASSUME NEW k \in Kept, NEW ms \in Seq(Message), NEW u
    PROVE  Keeping(k, ms, u) \cup {0} \subseteq 0..Len(ms)
<1> DEFINE S == {Recent[k], Len(ms)}
<1>1. S \subseteq Nat /\ S # {} /\ Len(ms) \in S
  BY ChatBounds, LenProperties
<1>2. Min(S) \in Nat /\ Min(S) <= Len(ms)
  BY <1>1, MinLeast
<1> QED
  BY <1>1, <1>2 DEF Keeping

\* A compacted context is a context, of any kind of window that is stored.
LEMMA CompactGood ==
    ASSUME NEW k \in Kept, NEW ms \in Seq(Message), NEW u
    PROVE  Compact(k, ms, u) \in Seq(Message)
<1> DEFINE T == Keeping(k, ms, u) \cup {0}
<1>1. T \subseteq 0..Len(ms) /\ T # {} /\ Len(ms) \in Nat
  BY KeptRange, LenProperties
<1>2. Max(T) \in 0..Len(ms)
  <2> HIDE DEF T
  <2>1. Max(T) \in T
    BY <1>1, MaxGreatest
  <2> QED
    BY <1>1, <2>1
<1> QED
  BY <1>2, NewestGood, CompactIs

\* And it leaves room for the request, if a summary does.
LEMMA CompactFits ==
    ASSUME NEW k \in Kept, NEW ms \in Seq(Message), NEW u \in 1..Context,
           ms # <<>> => u + SummarySize <= Context /\ u + LeastContext <= Context
    PROVE  Len(Compact(k, ms, u)) + 1 <= MaxMessages /\ Weight(Compact(k, ms, u)) + u <= Context
<1> DEFINE R == {LeastContext, Context - u}
           room == Max(R)
<1>1. /\ Context \in Nat /\ LeastContext \in Nat /\ SummarySize \in Nat
      /\ MaxMessages \in Nat /\ MaxMessages >= 3 /\ u \in Nat /\ u >= 1 /\ u <= Context
  BY ChatBounds
<1>2. room \in R /\ room >= LeastContext /\ room >= Context - u
  <2>1. R \subseteq 0..(Context + LeastContext) /\ R # {}
    BY <1>1
  <2>2. Context + LeastContext \in Nat
    BY <1>1
  <2> HIDE DEF R
  <2>3. Max(R) \in R /\ \A y \in R : Max(R) >= y
    BY <2>1, <2>2, MaxGreatest
  <2> QED
    BY <2>3 DEF R
<1>3. room \in Nat /\ (u + LeastContext <= Context => room = Context - u)
  BY <1>1, <1>2
<1> HIDE DEF room
<1>4. \A s : Suiting(s, u) <=> Len(s) + 1 <= MaxMessages /\ Weight(s) <= room
  BY <1>1 DEF Suiting, room
<1>5. CASE ms = <<>>
  <2>1. Len(ms) = 0 /\ Weight(ms) = 0
    BY <1>5, WeightEmpty
  <2>2. Suiting(ms, u)
    BY <1>1, <1>3, <1>4, <2>1
  <2>3. Compact(k, ms, u) = ms
    BY <2>2, CompactIs
  <2> QED
    BY <1>1, <2>1, <2>3
<1>6. CASE ms # <<>>
  <2> DEFINE T == Keeping(k, ms, u) \cup {0}
  <2>1. room = Context - u /\ SummarySize <= room
    BY <1>1, <1>3, <1>6
  <2>9. Newest(ms, 0) = Summary /\ Len(Summary) + 1 <= MaxMessages /\ Weight(Summary) <= room
    BY <1>1, <2>1, NewestNone, SummaryIs
  <2>2. Suiting(Newest(ms, 0), u)
    BY <1>4, <2>9
  <2>3. T \subseteq 0..Len(ms) /\ T # {} /\ Len(ms) \in Nat
    BY KeptRange, LenProperties
  <2>4. \A j \in T : Suiting(Newest(ms, j), u)
    BY <2>2 DEF Keeping
  <2> HIDE DEF T
  <2>5. Max(T) \in T
    BY <2>3, MaxGreatest
  <2>6. Suiting(Newest(ms, Max(T)), u)
    BY <2>4, <2>5
  <2>7. Suiting(Compact(k, ms, u), u)
    BY <2>6, CompactIs DEF T
  <2>8. Weight(Compact(k, ms, u)) \in Nat
    BY CompactGood, WeightNat
  <2> QED
    BY <1>1, <1>4, <2>1, <2>7, <2>8
<1> QED
  BY <1>5, <1>6

\* A request after a compacted context is within the limits.
LEMMA RequestFits ==
    ASSUME NEW k \in Kept, NEW ms \in Seq(Message), NEW u \in 1..Context, NEW q \in Message,
           q.size = u,
           ms # <<>> => u + SummarySize <= Context /\ u + LeastContext <= Context
    PROVE  Fits(Append(Compact(k, ms, u), q))
<1> DEFINE c == Compact(k, ms, u)
<1>1. c \in Seq(Message) /\ Len(c) + 1 <= MaxMessages /\ Weight(c) + u <= Context
  BY CompactGood, CompactFits
<1> HIDE DEF c
<1>2. Len(Append(c, q)) = Len(c) + 1 /\ Weight(Append(c, q)) = Weight(c) + u
  BY <1>1, WeightAppend
<1>3. Fits(Append(c, q))
  BY <1>1, <1>2 DEF Fits
<1> QED
  BY <1>3 DEF c

-----------------------------------------------------------------------------
(***************************************************************************)
(* The data file                                                           *)
(***************************************************************************)

LEMMA NoTurns ==
    <<>> \in Seq(Message) /\ <<>> \in Seq(Turn) /\ AnswersFollow(<<>>) /\ 0 \in Drafts
BY EmptySeq, ChatBounds DEF AnswersFollow, Drafts

LEMMA PersistKeeps ==
    ASSUME NEW d, GoodDisk(d), NEW id \in Ids, NEW c, GoodConversation(c)
    PROVE  GoodDisk(Persist(d, id, c)) /\ Persist(d, id, c).stored[id] = c
<1> DEFINE k == c.kind
           i == [d.index EXCEPT ![k] = Indexed(d.index[k], id)]
           e == [stored |-> [d.stored EXCEPT ![id] = c],
                 index  |-> i,
                 active |-> [d.active EXCEPT ![k] = id]]
<1>1. Persist(d, id, c) = e
  BY DEF Persist
<1>2. e.stored = [x \in Ids |-> IF x = id THEN c ELSE d.stored[x]]
  BY DEF GoodDisk
<1>3. /\ e.stored = [x \in Ids |-> e.stored[x]] /\ \A x \in Ids : GoodConversation(e.stored[x])
      /\ e.stored[id] = c
  BY <1>2 DEF GoodDisk
<1>4. id # 0
  BY DEF Ids
<1>5. /\ e.index = [x \in Kept |-> e.index[x]]
      /\ \A x \in Kept : x # k => e.index[x] = d.index[x]
  BY DEF GoodDisk
<1>6. /\ e.active \in [Kept -> Ids \cup {0}]
      /\ \A x \in Kept : e.active[x] = IF x = k THEN id ELSE d.active[x]
  BY DEF GoodDisk
<1>7. \A x \in Kept : e.active[x] = 0 => e.index[x] = <<>>
  BY <1>4, <1>5, <1>6 DEF GoodDisk
<1>8. e = [stored |-> e.stored, index |-> e.index, active |-> e.active]
  OBVIOUS
<1> HIDE DEF e
<1> QED
  BY <1>1, <1>3, <1>5, <1>6, <1>7, <1>8 DEF GoodDisk

\* What a window holds is a conversation.
LEMMA ContentGood ==
    ASSUME NEW v, GoodWindow(v), v.kind \in Kept PROVE GoodConversation(Content(v))
<1> DEFINE c == Content(v)
<1>1. DOMAIN c = ContentNames /\ c = [x \in DOMAIN c |-> c[x]]
  BY DEF Content, ContentNames
<1>2. c.messages = v.messages /\ c.turns = v.turns /\ c.draft = v.draft
  BY DEF Content
<1> QED
  BY <1>1, <1>2 DEF GoodConversation, GoodWindow, KeepsOrder

LEMMA SaveKeeps ==
    ASSUME NEW d, GoodDisk(d), NEW v, GoodWindow(v), v.kind \in Kept => v.sess \in Ids
    PROVE  GoodDisk(SaveNow(d, v))
<1>1. CASE v.kind \in Kept
  BY <1>1, ContentGood, PersistKeeps DEF SaveNow
<1>2. CASE v.kind \notin Kept
  BY <1>2 DEF SaveNow
<1> QED
  BY <1>1, <1>2

LEMMA FreshGood ==
    /\ \A m : GoodConversation([Fresh EXCEPT !.kind = "editor", !.mode = m])
    /\ GoodConversation([Fresh EXCEPT !.kind = "chat"])
    /\ GoodConversation(Fresh)
<1>1. DOMAIN Fresh = ContentNames /\ Fresh = [x \in DOMAIN Fresh |-> Fresh[x]]
  BY DEF Fresh, ContentNames
<1>2. Fresh.messages = <<>> /\ Fresh.turns = <<>> /\ Fresh.draft = 0
  BY DEF Fresh
<1>3. Fresh = [x \in ContentNames |-> Fresh[x]]
  BY <1>1
<1>4. GoodConversation(Fresh)
  BY <1>2, <1>3, NoTurns DEF GoodConversation
<1>5. ASSUME NEW m PROVE GoodConversation([Fresh EXCEPT !.kind = "editor", !.mode = m])
  BY <1>2, <1>3, NoTurns DEF GoodConversation, ContentNames
<1>6. GoodConversation([Fresh EXCEPT !.kind = "chat"])
  BY <1>2, <1>3, NoTurns DEF GoodConversation, ContentNames
<1> QED
  BY <1>4, <1>5, <1>6

LEMMA NewSessionsKeep ==
    ASSUME NEW d, GoodDisk(d), NEW id \in Ids
    PROVE  GoodDisk(NewChatSession(d, id)) /\ \A m : GoodDisk(NewEditorSession(d, id, m))
BY FreshGood, PersistKeeps DEF NewChatSession, NewEditorSession

LEMMA RecoveredGood ==
    ASSUME NEW k, NEW c, GoodConversation(c)
    PROVE  GoodConversation(Recovered(k, c))
<1>1. GoodConversation([c EXCEPT !.status = "idle"])
  BY DEF GoodConversation, ContentNames
<1> QED
  BY <1>1 DEF Recovered

LEMMA WrittenGood == ASSUME NEW d, GoodDisk(d), Written(d) PROVE GoodDisk(Disk)'
<1>1. Disk' = d
  BY DEF GoodDisk, Written, Disk
<1> QED
  BY <1>1

-----------------------------------------------------------------------------
(***************************************************************************)
(* Windows                                                                 *)
(***************************************************************************)

LEMMA NoWindowGood == GoodWindow(NoWindow)
<1>1. DOMAIN NoWindow = FieldNames
  BY DEF NoWindow, FieldNames
<1>2. NoWindow = [x \in DOMAIN NoWindow |-> NoWindow[x]]
  BY DEF NoWindow
<1> QED
  BY <1>1, <1>2, NoTurns DEF NoWindow, GoodWindow, KeepsOrder, IsWindow, Alive

\* What becomes of a window v that keeps its turns.
LEMMA KeepsGood ==
    ASSUME NEW v, GoodWindow(v), NEW s, IsWindow(s),
           s.kind = v.kind, s.sess = v.sess, s.turns = v.turns, s.draft \in Drafts,
           s.messages = v.messages,
           s.st \in Alive => v.st \in Alive,
           s.pc # "idle" => v.pc = s.pc /\ s.asked = v.asked /\ s.st \in Alive
    PROVE  GoodWindow(s)
BY DEF GoodWindow, KeepsOrder, EndsWithQuestion, WithinLimits

\* A window that takes over a conversation asks nothing.
LEMMA ShowsGood ==
    ASSUME NEW v, IsWindow(v), v.pc = "idle", v.kind \in Kinds,
           NEW id \in Ids, NEW c, GoodConversation(c)
    PROVE  /\ GoodWindow(Shows(v, id, c))
           /\ GoodWindow([Shows(v, id, c) EXCEPT !.armed = TRUE])
<1> DEFINE s == Shows(v, id, c)
           t == [s EXCEPT !.armed = TRUE]
<1>1. /\ IsWindow(s) /\ s.sess = id /\ s.turns = c.turns /\ s.draft = c.draft
      /\ s.pc = v.pc /\ s.kind = v.kind /\ s.messages = c.messages
  BY DEF IsWindow, FieldNames, Shows
<1> HIDE DEF s
<1>2. /\ IsWindow(t) /\ t.sess = s.sess /\ t.turns = s.turns /\ t.draft = s.draft
      /\ t.pc = s.pc /\ t.kind = s.kind /\ t.messages = s.messages
  BY <1>1 DEF IsWindow, FieldNames
<1> HIDE DEF t
<1>3. GoodWindow(s)
  BY <1>1 DEF GoodWindow, KeepsOrder, GoodConversation
<1>4. GoodWindow(t)
  BY <1>1, <1>2 DEF GoodWindow, KeepsOrder, GoodConversation
<1> QED
  BY <1>3, <1>4 DEF s, t

LEMMA NewWindowsGood ==
    ASSUME NEW id \in Ids, NEW c, GoodConversation(c)
    PROVE  GoodWindow(NewEditor(id, c)) /\ GoodWindow(NewChatWindow(id, c))
<1> DEFINE v(k) == [NoWindow EXCEPT !.kind = k, !.st = "shown"]
<1>1. IsWindow(NoWindow) /\ NoWindow.pc = "idle"
  BY NoWindowGood DEF GoodWindow, NoWindow
<1>2. ASSUME NEW k PROVE IsWindow(v(k)) /\ v(k).pc = "idle" /\ v(k).kind = k
  BY <1>1 DEF IsWindow, FieldNames
<1> HIDE DEF v
<1>3. \A k \in Kinds : GoodWindow(Shows(v(k), id, c))
  BY <1>2, ShowsGood
<1> QED
  BY <1>3 DEF NewEditor, NewChatWindow, Kinds, v

LEMMA NewAuditGood == GoodWindow(NewAudit)
<1>1. /\ GoodWindow(NoWindow) /\ NoWindow.pc = "idle" /\ NoWindow.turns = <<>> /\ NoWindow.draft = 0
      /\ NoWindow.messages = <<>>
  BY NoWindowGood DEF NoWindow
<1>2. /\ IsWindow(NewAudit) /\ NewAudit.kind = "audit"
      /\ NewAudit.pc = NoWindow.pc /\ NewAudit.turns = NoWindow.turns
      /\ NewAudit.draft = NoWindow.draft /\ NewAudit.messages = NoWindow.messages
  BY <1>1 DEF NewAudit, GoodWindow, IsWindow, FieldNames
<1> QED
  BY <1>1, <1>2, NoTurns DEF GoodWindow, KeepsOrder, Kept, Kinds

\* A window that is shown, hidden or destroyed keeps its conversation.
LEMMA DestroyedGood ==
    ASSUME NEW v, GoodWindow(v), v.st \in {"shown", "hidden"}
    PROVE  GoodWindow(Destroyed(v))
<1> DEFINE s == Destroyed(v)
<1>1. /\ IsWindow(s) /\ s.kind = v.kind /\ s.sess = v.sess /\ s.turns = v.turns
      /\ s.messages = v.messages
      /\ s.draft = v.draft /\ s.pc = v.pc /\ s.asked = v.asked
      /\ s.st = IF v.pc = "idle" THEN "gone" ELSE "late"
  BY DEF GoodWindow, IsWindow, FieldNames, Destroyed
<1> HIDE DEF s
<1>2. s.draft \in Drafts /\ v.st \in Alive /\ (s.pc # "idle" => s.st \in Alive)
  BY <1>1 DEF GoodWindow, Alive
<1>3. GoodWindow(s)
  BY <1>1, <1>2, KeepsGood
<1> QED
  BY <1>3 DEF s

LEMMA PlacedGood ==
    ASSUME NEW v, GoodWindow(v), v.st \in {"shown", "hidden"}
    PROVE  /\ GoodWindow([v EXCEPT !.st = "shown"])
           /\ GoodWindow([v EXCEPT !.st = "hidden", !.armed = FALSE])
<1> DEFINE s == [v EXCEPT !.st = "shown"]
           t == [v EXCEPT !.st = "hidden", !.armed = FALSE]
<1>1. /\ IsWindow(s) /\ s.kind = v.kind /\ s.sess = v.sess /\ s.turns = v.turns
      /\ s.messages = v.messages
      /\ s.draft = v.draft /\ s.pc = v.pc /\ s.asked = v.asked /\ s.st = "shown"
  BY DEF GoodWindow, IsWindow, FieldNames
<1>2. /\ IsWindow(t) /\ t.kind = v.kind /\ t.sess = v.sess /\ t.turns = v.turns
      /\ t.messages = v.messages
      /\ t.draft = v.draft /\ t.pc = v.pc /\ t.asked = v.asked /\ t.st = "hidden"
  BY DEF GoodWindow, IsWindow, FieldNames
<1> HIDE DEF s, t
<1>3. v.draft \in Drafts /\ {v.st, s.st, t.st} \subseteq Alive
  BY <1>1, <1>2 DEF GoodWindow, Alive
<1>4. GoodWindow(s)
  BY <1>1, <1>3, KeepsGood
<1>5. GoodWindow(t)
  BY <1>2, <1>3, KeepsGood
<1> QED
  BY <1>4, <1>5 DEF s, t

LEMMA ArmedGood ==
    ASSUME NEW v, GoodWindow(v), NEW a
    PROVE  GoodWindow([v EXCEPT !.armed = a])
<1> DEFINE s == [v EXCEPT !.armed = a]
<1>1. /\ IsWindow(s) /\ s.kind = v.kind /\ s.sess = v.sess /\ s.turns = v.turns
      /\ s.messages = v.messages
      /\ s.draft = v.draft /\ s.pc = v.pc /\ s.asked = v.asked /\ s.st = v.st
  BY DEF GoodWindow, IsWindow, FieldNames
<1> HIDE DEF s
<1>2. v.draft \in Drafts /\ (v.pc # "idle" => v.st \in Alive)
  BY DEF GoodWindow
<1>3. GoodWindow(s)
  BY <1>1, <1>2, KeepsGood
<1> QED
  BY <1>3 DEF s

LEMMA TypedGood ==
    ASSUME NEW v, GoodWindow(v), NEW n \in Drafts, NEW a
    PROVE  GoodWindow([v EXCEPT !.draft = n, !.armed = a])
<1> DEFINE s == [v EXCEPT !.draft = n, !.armed = a]
<1>1. /\ IsWindow(s) /\ s.kind = v.kind /\ s.sess = v.sess /\ s.turns = v.turns
      /\ s.messages = v.messages
      /\ s.draft = n /\ s.pc = v.pc /\ s.asked = v.asked /\ s.st = v.st
  BY DEF GoodWindow, IsWindow, FieldNames
<1> HIDE DEF s
<1>2. v.pc # "idle" => v.st \in Alive
  BY DEF GoodWindow
<1>3. GoodWindow(s)
  BY <1>1, <1>2, KeepsGood
<1> QED
  BY <1>3 DEF s

LEMMA UsedGood ==
    ASSUME NEW v, GoodWindow(v)
    PROVE  GoodWindow([v EXCEPT !.status = "success", !.armed = TRUE])
<1> DEFINE s == [v EXCEPT !.status = "success", !.armed = TRUE]
<1>1. /\ IsWindow(s) /\ s.kind = v.kind /\ s.sess = v.sess /\ s.turns = v.turns
      /\ s.messages = v.messages
      /\ s.draft = v.draft /\ s.pc = v.pc /\ s.asked = v.asked /\ s.st = v.st
  BY DEF GoodWindow, IsWindow, FieldNames
<1> HIDE DEF s
<1>2. v.draft \in Drafts /\ (v.pc # "idle" => v.st \in Alive)
  BY DEF GoodWindow
<1>3. GoodWindow(s)
  BY <1>1, <1>2, KeepsGood
<1> QED
  BY <1>3 DEF s

\* A request that waits goes on to x.
LEMMA AdvancedGood ==
    ASSUME NEW v, GoodWindow(v), v.pc # "idle", NEW x
    PROVE  GoodWindow([v EXCEPT !.pc = x])
<1> DEFINE s == [v EXCEPT !.pc = x]
<1>1. /\ IsWindow(s) /\ s.kind = v.kind /\ s.sess = v.sess /\ s.turns = v.turns
      /\ s.messages = v.messages
      /\ s.draft = v.draft /\ s.asked = v.asked /\ s.st = v.st
  BY DEF GoodWindow, IsWindow, FieldNames
<1> HIDE DEF s
<1>2. GoodWindow(s)
  BY <1>1 DEF GoodWindow, KeepsOrder, EndsWithQuestion, WithinLimits
<1> QED
  BY <1>2 DEF s

\* The window that asks: its question ends the turns, and its draft is a
\* request.
LEMMA AsksGood ==
    ASSUME NEW v, GoodWindow(v), v.st = "shown", v.draft # 0, v.kind \in Kept,
           NEW ms \in Seq(Message), NEW size \in Nat,
           Fits(Append(ms, [role |-> "user", n |-> v.draft, size |-> size]))
    PROVE  GoodWindow(Asks(v, ms, v.turns, size))
<1> DEFINE s == Asks(v, ms, v.turns, size)
           new == Append(v.turns, [role |-> "user", n |-> v.draft])
           q == [role |-> "user", n |-> v.draft, size |-> size]
           sent == Append(ms, q)
<1>1. /\ IsWindow(s) /\ s.kind = v.kind /\ s.sess = v.sess /\ s.turns = new
      /\ s.draft = 0 /\ s.pc = "access" /\ s.asked = v.draft /\ s.st = v.st
      /\ s.messages = sent
  BY DEF GoodWindow, IsWindow, FieldNames, Asks
<1>2. v.draft \in Requests
  BY ChatBounds DEF GoodWindow, Drafts, Requests
<1>3. v.turns \in Seq(Turn) /\ AnswersFollow(v.turns)
  BY DEF GoodWindow, KeepsOrder
<1>4. /\ new \in Seq(Turn) /\ new # <<>> /\ AnswersFollow(new)
      /\ new[Len(new)] = [role |-> "user", n |-> v.draft]
  BY <1>2, <1>3, QuestionFollows
<1>6. q \in Message /\ q.role = "user" /\ q.n = v.draft
  BY DEF GoodWindow, Drafts, Message
<1>7. Fits(sent)
  OBVIOUS
<1> HIDE DEF s, new, q
<1>8. sent \in Seq(Message) /\ sent # <<>> /\ Last(sent) = q
  BY <1>6, LastOfAppend
<1> HIDE DEF sent
<1>5. GoodWindow(s)
  <2>1. EndsWithQuestion(s)
    BY <1>1, <1>2, <1>4 DEF EndsWithQuestion
  <2>2. WithinLimits(s)
    BY <1>1, <1>6, <1>7, <1>8 DEF WithinLimits
  <2> QED
    BY <1>1, <1>4, <1>8, <2>1, <2>2, NoTurns DEF GoodWindow, KeepsOrder, Alive
<1> QED
  BY <1>5 DEF s

\* A request that ends frees its window.
Freed(v) == [v EXCEPT !.pc = "idle", !.armed = FALSE]

LEMMA FreedGood ==
    ASSUME NEW v, IsWindow(v), v.turns \in Seq(Turn), KeepsOrder(v),
           v.draft \in Drafts, v.kind \in Kept => v.sess \in Ids,
           v.messages \in Seq(Message), v.kind \in Kinds
    PROVE  /\ GoodWindow(Freed(v))
           /\ Freed(v).kind \in Kept => Freed(v).sess \in Ids
<1> DEFINE s == Freed(v)
<1>1. /\ IsWindow(s) /\ s.kind = v.kind /\ s.sess = v.sess /\ s.turns = v.turns
      /\ s.messages = v.messages
      /\ s.draft = v.draft /\ s.pc = "idle"
  BY DEF IsWindow, FieldNames, Freed
<1> HIDE DEF s
<1> QED
  BY <1>1 DEF GoodWindow, KeepsOrder, s

\* The answer follows the question that the window asks.
LEMMA RepliedGood ==
    ASSUME NEW v, GoodWindow(v), v.pc # "idle", NEW size \in Nat
    PROVE  LET r == Replied(v, size)
           IN  /\ IsWindow(r) /\ r.turns \in Seq(Turn) /\ KeepsOrder(r)
               /\ r.draft \in Drafts /\ (r.kind \in Kept => r.sess \in Ids)
               /\ r.messages \in Seq(Message) /\ r.kind \in Kinds
<1> DEFINE a  == [role |-> "assistant", n |-> v.asked]
           ms == Append(v.messages, [role |-> "assistant", n |-> v.asked, size |-> size])
           b  == [v EXCEPT !.asked = 0, !.status = "success"]
           c  == [b EXCEPT !.messages = <<>>, !.turns = <<a>>]
           d  == [b EXCEPT !.messages = Compact(b.kind, ms, 0), !.turns = Append(b.turns, a)]
<1>1. v.kind \in Kinds /\ (v.kind \in Kept => v.sess \in Ids) /\ v.draft \in Drafts
  BY DEF GoodWindow
<1>2. /\ IsWindow(b) /\ b.kind = v.kind /\ b.sess = v.sess /\ b.turns = v.turns
      /\ b.draft = v.draft /\ b.messages = v.messages
  BY DEF GoodWindow, IsWindow, FieldNames
<1>3. Replied(v, size) = IF v.kind = "audit" THEN c ELSE d
  BY <1>2 DEF Replied
<1>4. a \in Turn
  BY DEF GoodWindow, EndsWithQuestion, Turn
<1>5. [role |-> "assistant", n |-> v.asked, size |-> size] \in Message
  BY DEF GoodWindow, EndsWithQuestion, Requests, Message
<1>6. ms \in Seq(Message)
  BY <1>5, AppendProperties DEF GoodWindow
<1> HIDE DEF b, ms
<1>7. CASE v.kind = "audit"
  <2>1. /\ IsWindow(c) /\ c.kind = v.kind /\ c.sess = v.sess /\ c.turns = <<a>>
        /\ c.draft = v.draft /\ c.messages = <<>>
    BY <1>2 DEF IsWindow, FieldNames
  <2>2. <<a>> \in Seq(Turn)
    BY <1>4
  <2>3. v.kind \notin Kept
    BY <1>7 DEF Kept
  <2> HIDE DEF c
  <2> QED
    BY <1>1, <1>3, <1>7, <2>1, <2>2, <2>3, NoTurns DEF KeepsOrder
<1>8. CASE v.kind # "audit"
  <2>1. v.kind \in Kept
    BY <1>1, <1>8 DEF Kinds, Kept
  <2>2. /\ IsWindow(d) /\ d.kind = v.kind /\ d.sess = v.sess /\ d.turns = Append(v.turns, a)
        /\ d.draft = v.draft /\ d.messages = Compact(v.kind, ms, 0)
    BY <1>2 DEF IsWindow, FieldNames
  <2>3. Append(v.turns, a) \in Seq(Turn) /\ AnswersFollow(Append(v.turns, a))
    BY <2>1, AnswerFollows DEF GoodWindow, KeepsOrder, EndsWithQuestion
  <2>4. Compact(v.kind, ms, 0) \in Seq(Message)
    BY <1>6, <2>1, CompactGood
  <2> HIDE DEF d, a
  <2> QED
    BY <1>1, <1>3, <1>8, <2>2, <2>3, <2>4 DEF KeepsOrder
<1> QED
  BY <1>7, <1>8

\* The chat takes the question back; the editor leaves it unanswered.
LEMMA WithdrawnGood ==
    ASSUME NEW v, GoodWindow(v), v.pc # "idle", NEW status
    PROVE  LET r == Withdrawn(v, status)
           IN  /\ IsWindow(r) /\ r.turns \in Seq(Turn) /\ KeepsOrder(r)
               /\ r.draft \in Drafts /\ (r.kind \in Kept => r.sess \in Ids)
               /\ r.messages \in Seq(Message) /\ r.kind \in Kinds
<1> DEFINE r == [v EXCEPT !.messages = Front(v.messages), !.asked = 0, !.status = status]
           c == [r EXCEPT !.turns = Front(r.turns), !.draft = v.asked]
<1>1. Withdrawn(v, status) = IF v.kind = "chat" THEN c ELSE r
  BY DEF Withdrawn
<1>2. /\ IsWindow(r) /\ r.kind = v.kind /\ r.sess = v.sess /\ r.turns = v.turns
      /\ r.draft = v.draft /\ r.messages = Front(v.messages)
  BY DEF GoodWindow, IsWindow, FieldNames
<1> HIDE DEF r
<1>3. /\ IsWindow(c) /\ c.kind = r.kind /\ c.sess = r.sess /\ c.turns = Front(r.turns)
      /\ c.draft = v.asked /\ c.messages = r.messages
  BY <1>2 DEF IsWindow, FieldNames
<1>4. v.kind = "chat" => Front(v.turns) \in Seq(Turn) /\ AnswersFollow(Front(v.turns))
  BY FrontFollows DEF GoodWindow, KeepsOrder, EndsWithQuestion, Kept
<1>5. v.asked \in Drafts
  BY DEF GoodWindow, EndsWithQuestion, Requests, Drafts
<1> HIDE DEF c
<1>6. v.kind \in Kept => v.sess \in Ids
  BY DEF GoodWindow
<1>7. v.turns \in Seq(Turn) /\ KeepsOrder(v) /\ v.draft \in Drafts
  BY DEF GoodWindow
<1>10. Front(v.messages) \in Seq(Message) /\ v.kind \in Kinds
  BY FrontOf DEF GoodWindow, WithinLimits
<1>8. CASE v.kind = "chat"
  BY <1>1, <1>2, <1>3, <1>4, <1>5, <1>6, <1>8, <1>10 DEF KeepsOrder
<1>9. CASE v.kind # "chat"
  BY <1>1, <1>2, <1>6, <1>7, <1>9, <1>10 DEF KeepsOrder
<1> QED
  BY <1>8, <1>9

-----------------------------------------------------------------------------
(***************************************************************************)
(* The steps                                                               *)
(***************************************************************************)

LEMMA Parts == ASSUME IInv PROVE GoodDisk(Disk) /\ GoodWindows(win)
BY DEF IInv

\* Saving a live window, or one whose request is under way.
LEMMA SavedGood ==
    ASSUME NEW d, GoodDisk(d), NEW w \in Windows, GoodWindows(win),
           win[w].st \in {"shown", "hidden"} \/ win[w].pc # "idle"
    PROVE  GoodDisk(SaveNow(d, win[w]))
BY SaveKeeps DEF GoodWindows, GoodWindow, Alive

LEMMA OneWindow ==
    ASSUME GoodWindows(win), NEW w \in Windows, NEW r, GoodWindow(r),
           win' = [win EXCEPT ![w] = r]
    PROVE  GoodWindows(win)'
BY DEF GoodWindows

\* Open windows of one kind, and unused places, are windows.
LEMMA Chosen ==
    /\ \A k : Of(k) # {} => /\ Min(Of(k)) \in Windows
                            /\ win[Min(Of(k))].st \in {"shown", "hidden"}
    /\ Unused # {} => Min(Unused) \in Windows /\ win[Min(Unused)].st = "none"
    /\ UnusedIds # {} => Min(UnusedIds) \in Ids
<1>1. Windows \subseteq Nat /\ Ids \subseteq Nat
  BY ChatBounds DEF Windows, Ids
<1>2. ASSUME NEW k, Of(k) # {} PROVE Min(Of(k)) \in Of(k)
  BY <1>1, <1>2, MinLeast DEF Of
<1>3. Unused # {} => Min(Unused) \in Unused
  BY <1>1, MinLeast DEF Unused
<1>4. UnusedIds # {} => Min(UnusedIds) \in UnusedIds
  BY <1>1, MinLeast DEF UnusedIds
<1> QED
  BY <1>2, <1>3, <1>4 DEF Of, Unused, UnusedIds, Live

\* Only a conversation that was saved is resumed.
LEMMA ResumedGood ==
    ASSUME GoodDisk(Disk), NEW k \in Kept, Resumed(k) # 0
    PROVE  Resumed(k) \in Ids
<1>1. active[k] # 0
  BY DEF GoodDisk, Disk, Resumed
<1> QED
  BY <1>1 DEF GoodDisk, Disk, Resumed

\* Showing the windows of one kind, or destroying the live ones among some.
LEMMA ShownGood ==
    ASSUME GoodWindows(win), NEW k,
           win' = [w \in Windows |-> IF w \in Of(k)
                     THEN [win[w] EXCEPT !.st = "shown"] ELSE win[w]]
    PROVE  GoodWindows(win)'
BY PlacedGood DEF GoodWindows, Of, Live

LEMMA OpenEditorGood == ASSUME IInv, NEW p, OpenEditor(p) PROVE IInv'
<1>1. GoodDisk(Disk) /\ GoodWindows(win) /\ typed' \in Drafts
  BY DEF IInv, OpenEditor
<1>2. CASE Of("editor") # {} /\ ~(p /\ ~kindBusy["editor"])
  <2>1. win' = [w \in Windows |-> IF w \in Of("editor")
                  THEN [win[w] EXCEPT !.st = "shown"] ELSE win[w]] /\ UNCHANGED disk
    BY <1>2 DEF OpenEditor
  <2>2. GoodWindows(win)'
    BY <1>1, <2>1, ShownGood
  <2>3. Disk' = Disk
    BY <2>1 DEF disk, Disk
  <2> QED
    BY <1>1, <2>2, <2>3 DEF IInv
<1>3. CASE ~(Of("editor") # {} /\ ~(p /\ ~kindBusy["editor"]))
  <2> DEFINE new == p \/ Resumed("editor") = 0
             closed == [w \in Windows |-> IF w \in Of("editor")
                          THEN Destroyed(win[w]) ELSE win[w]]
             d0 == IF Of("editor") = {} THEN Disk
                   ELSE SaveNow(Disk, win[Min(Of("editor"))])
             id == IF new THEN Min(UnusedIds) ELSE Resumed("editor")
             d1 == IF new THEN NewEditorSession(d0, id, "edit") ELSE d0
             c  == Recovered("editor", d1.stored[id])
  <2>1. /\ Unused # {} /\ (new => UnusedIds # {})
        /\ win' = [closed EXCEPT ![Min(Unused)] = NewEditor(id, c)]
        /\ Written(Persist(d1, id, c))
    BY <1>3 DEF OpenEditor
  <2>2. GoodDisk(d0)
    BY <1>1, Chosen, SavedGood
  <2>3. id \in Ids
    BY <1>1, <2>1, Chosen, ResumedGood DEF Kept
  <2>4. \A w \in Windows : GoodWindow(closed[w])
    BY <1>1, DestroyedGood DEF GoodWindows, Of, Live
  <2> HIDE DEF d0, id
  <2>5. GoodDisk(d1)
    BY <2>2, <2>3, NewSessionsKeep
  <2> HIDE DEF d1
  <2>6. GoodConversation(c)
    BY <2>3, <2>5, RecoveredGood DEF GoodDisk
  <2> HIDE DEF c
  <2>7. GoodDisk(Disk)'
    BY <2>1, <2>3, <2>5, <2>6, PersistKeeps, WrittenGood
  <2>8. GoodWindow(NewEditor(id, c))
    BY <2>3, <2>6, NewWindowsGood
  <2>9. GoodWindows(win)'
    BY <2>1, <2>4, <2>8 DEF GoodWindows
  <2> QED
    BY <1>1, <2>7, <2>9 DEF IInv
<1> QED
  BY <1>2, <1>3

LEMMA OpenChatGood == ASSUME IInv, OpenChat PROVE IInv'
<1>1. GoodDisk(Disk) /\ GoodWindows(win) /\ typed' \in Drafts
  BY DEF IInv, OpenChat
<1>2. CASE Of("chat") # {}
  <2>1. win' = [w \in Windows |-> IF w \in Of("chat")
                  THEN [win[w] EXCEPT !.st = "shown"] ELSE win[w]] /\ UNCHANGED disk
    BY <1>2 DEF OpenChat
  <2>2. GoodWindows(win)'
    BY <1>1, <2>1, ShownGood
  <2>3. Disk' = Disk
    BY <2>1 DEF disk, Disk
  <2> QED
    BY <1>1, <2>2, <2>3 DEF IInv
<1>3. CASE Of("chat") = {}
  <2> DEFINE new == Resumed("chat") = 0
             id == IF new THEN Min(UnusedIds) ELSE Resumed("chat")
             d  == IF new THEN NewChatSession(Disk, id) ELSE Disk
             c  == Recovered("chat", d.stored[id])
  <2>1. /\ Unused # {} /\ (new => UnusedIds # {})
        /\ win' = [win EXCEPT ![Min(Unused)] = NewChatWindow(id, c)]
        /\ Written(Persist(d, id, c))
    BY <1>3 DEF OpenChat
  <2>2. id \in Ids
    BY <1>1, <2>1, Chosen, ResumedGood DEF Kept
  <2> HIDE DEF id
  <2>3. GoodDisk(d)
    BY <1>1, <2>2, NewSessionsKeep
  <2> HIDE DEF d
  <2>4. GoodConversation(c)
    BY <2>2, <2>3, RecoveredGood DEF GoodDisk
  <2> HIDE DEF c
  <2>5. GoodDisk(Disk)'
    BY <2>1, <2>2, <2>3, <2>4, PersistKeeps, WrittenGood
  <2>6. GoodWindow(NewChatWindow(id, c))
    BY <2>2, <2>4, NewWindowsGood
  <2>7. GoodWindows(win)'
    BY <1>1, <2>1, <2>6, Chosen, OneWindow
  <2> QED
    BY <1>1, <2>5, <2>7 DEF IInv
<1> QED
  BY <1>2, <1>3

\* A step that leaves the data file alone.
LEMMA SameDisk == ASSUME GoodDisk(Disk), UNCHANGED disk PROVE GoodDisk(Disk)'
<1>1. Disk' = Disk
  BY DEF disk, Disk
<1> QED
  BY <1>1

LEMMA OpenAuditGood == ASSUME IInv, OpenAudit PROVE IInv'
<1>1. ASSUME NEW w \in Windows PROVE GoodWindow(win'[w])
  <2>1. CASE w = Min(Unused)
    <3>1. win[Min(Unused)].st = "none"
      BY Chosen DEF OpenAudit
    <3>2. w \notin Of("audit")
      BY <2>1, <3>1 DEF Of, Live
    <3> QED
      BY <2>1, <3>2, NewAuditGood DEF OpenAudit
  <2>2. CASE w # Min(Unused) /\ w \in Of("audit")
    BY <2>2, DestroyedGood DEF OpenAudit, IInv, GoodWindows, Of, Live
  <2>3. CASE w # Min(Unused) /\ w \notin Of("audit")
    BY <2>3 DEF OpenAudit, IInv, GoodWindows
  <2> QED
    BY <2>1, <2>2, <2>3
<1>2. win' = [w \in Windows |-> win'[w]]
  BY DEF OpenAudit
<1>3. GoodDisk(Disk)'
  BY SameDisk DEF IInv, OpenAudit
<1> QED
  BY <1>1, <1>2, <1>3 DEF IInv, GoodWindows, OpenAudit

LEMMA CloseGood == ASSUME IInv, NEW w \in Windows, Close(w) PROVE IInv'
<1> DEFINE v == win[w]
           r == IF v.kind = "audit" THEN Destroyed(v)
                ELSE [v EXCEPT !.st = "hidden", !.armed = FALSE]
<1>1. GoodWindow(v) /\ v.st \in {"shown", "hidden"}
  BY DEF IInv, GoodWindows, Close
<1>2. GoodWindow(r)
  BY <1>1, DestroyedGood, PlacedGood
<1>3. win' = [win EXCEPT ![w] = r]
  BY DEF Close, IInv, GoodWindows
<1> HIDE DEF r
<1>4. GoodWindows(win)'
  BY <1>2, <1>3, OneWindow DEF IInv
<1>5. GoodDisk(Disk)'
  BY <1>1, SavedGood, WrittenGood DEF IInv, Close
<1> QED
  BY <1>4, <1>5 DEF IInv, Close

LEMMA TimerGood == ASSUME IInv, NEW w \in Windows, Timer(w) PROVE IInv'
<1> DEFINE r == [win[w] EXCEPT !.armed = FALSE]
<1>1. GoodWindow(win[w]) /\ win[w].st \in {"shown", "hidden"}
  BY DEF IInv, GoodWindows, Timer, Live
<1>2. GoodWindow(r)
  BY <1>1, ArmedGood
<1>3. win' = [win EXCEPT ![w] = r]
  BY DEF Timer, IInv, GoodWindows
<1> HIDE DEF r
<1>4. GoodWindows(win)'
  BY <1>2, <1>3, OneWindow DEF IInv
<1>5. GoodDisk(Disk)'
  BY <1>1, SavedGood, WrittenGood DEF IInv, Timer
<1> QED
  BY <1>4, <1>5 DEF IInv, Timer

LEMMA TypeGood == ASSUME IInv, NEW w \in Windows, Type(w) PROVE IInv'
<1> DEFINE r == [win[w] EXCEPT !.draft = typed + 1, !.armed = win[w].kind \in Kept]
<1>1. typed + 1 \in Drafts
  BY ChatBounds DEF IInv, Type, Drafts
<1>2. GoodWindow(r)
  BY <1>1, TypedGood DEF IInv, GoodWindows
<1>3. win' = [win EXCEPT ![w] = r]
  BY DEF Type, IInv, GoodWindows
<1> HIDE DEF r
<1>4. GoodWindows(win)'
  BY <1>2, <1>3, OneWindow DEF IInv
<1>5. GoodDisk(Disk)'
  BY SameDisk DEF IInv, Type
<1> QED
  BY <1>1, <1>4, <1>5 DEF IInv, Type

LEMMA UseReplyGood == ASSUME IInv, NEW w \in Windows, UseReply(w) PROVE IInv'
<1> DEFINE r == [win[w] EXCEPT !.status = "success", !.armed = TRUE]
<1>1. GoodWindow(r)
  BY UsedGood DEF IInv, GoodWindows
<1>2. win' = [win EXCEPT ![w] = r]
  BY DEF UseReply, IInv, GoodWindows
<1> HIDE DEF r
<1>3. GoodWindows(win)'
  BY <1>1, <1>2, OneWindow DEF IInv
<1>4. GoodDisk(Disk)'
  BY SameDisk DEF IInv, UseReply
<1> QED
  BY <1>3, <1>4 DEF IInv, UseReply

\* A window that may switch takes over a conversation of d.
LEMMA SwitchGood ==
    ASSUME IInv, NEW w \in Windows, MaySwitch(w), NEW d, GoodDisk(d), NEW id \in Ids
    PROVE  /\ GoodWindow(Shows(win[w], id, d.stored[id]))
           /\ GoodWindow([Shows(win[w], id, d.stored[id]) EXCEPT !.armed = TRUE])
BY ShowsGood DEF IInv, GoodWindows, GoodWindow, GoodDisk, MaySwitch, Busy, Kinds, Kept

LEMMA SwitchSaves ==
    ASSUME IInv, NEW w \in Windows, MaySwitch(w)
    PROVE  GoodDisk(SaveNow(Disk, win[w]))
BY SavedGood DEF IInv, MaySwitch

LEMMA NewChatGood == ASSUME IInv, NEW w \in Windows, NewChat(w) PROVE IInv'
<1> DEFINE id == Min(UnusedIds)
           d0 == SaveNow(Disk, win[w])
           d  == IF win[w].kind = "editor" THEN NewEditorSession(d0, id, win[w].mode)
                 ELSE NewChatSession(d0, id)
           r  == [Shows(win[w], id, d.stored[id]) EXCEPT !.armed = TRUE]
<1>1. MaySwitch(w) /\ Written(d) /\ win' = [win EXCEPT ![w] = r]
  BY DEF NewChat, IInv, GoodWindows
<1>2. GoodDisk(d0) /\ id \in Ids
  BY <1>1, SwitchSaves, Chosen DEF NewChat
<1> HIDE DEF d0, id
<1>3. GoodDisk(d)
  BY <1>2, NewSessionsKeep
<1> HIDE DEF d
<1>4. GoodWindow(r)
  BY <1>1, <1>2, <1>3, SwitchGood
<1> HIDE DEF r
<1>5. GoodWindows(win)'
  BY <1>1, <1>4, OneWindow DEF IInv
<1>6. GoodDisk(Disk)'
  BY <1>1, <1>3, WrittenGood
<1> QED
  BY <1>5, <1>6 DEF IInv, NewChat

LEMMA SelectModeGood == ASSUME IInv, NEW w \in Windows, SelectMode(w) PROVE IInv'
<1> DEFINE id == Min(UnusedIds)
           m  == CHOOSE x \in Modes : x # win[w].mode
           d0 == SaveNow(Disk, win[w])
           d  == NewEditorSession(d0, id, m)
           r  == [Shows(win[w], id, d.stored[id]) EXCEPT !.armed = TRUE]
<1>1. MaySwitch(w) /\ Written(d) /\ win' = [win EXCEPT ![w] = r]
  BY DEF SelectMode, IInv, GoodWindows
<1>2. GoodDisk(d0) /\ id \in Ids
  BY <1>1, SwitchSaves, Chosen DEF SelectMode
<1> HIDE DEF d0, id, m
<1>3. GoodDisk(d)
  BY <1>2, NewSessionsKeep
<1> HIDE DEF d
<1>4. GoodWindow(r)
  BY <1>1, <1>2, <1>3, SwitchGood
<1> HIDE DEF r
<1>5. GoodWindows(win)'
  BY <1>1, <1>4, OneWindow DEF IInv
<1>6. GoodDisk(Disk)'
  BY <1>1, <1>3, WrittenGood
<1> QED
  BY <1>5, <1>6 DEF IInv, SelectMode

LEMMA LoadSessionGood ==
    ASSUME IInv, NEW w \in Windows, NEW id \in Ids, LoadSession(w, id) PROVE IInv'
<1> DEFINE d == SaveNow(Disk, win[w])
           c == d.stored[id]
           a == [d EXCEPT !.active = [d.active EXCEPT !["editor"] = id]]
           e == IF win[w].kind = "chat" THEN Persist(d, id, c) ELSE a
           r == Shows(win[w], id, c)
<1>1. MaySwitch(w) /\ Written(e) /\ win' = [win EXCEPT ![w] = r]
  BY DEF LoadSession, IInv, GoodWindows
<1>2. GoodDisk(d)
  BY <1>1, SwitchSaves
<1> HIDE DEF d
<1>3. GoodConversation(c)
  BY <1>2 DEF GoodDisk
<1>4. GoodDisk(a)
  <2>1. /\ a = [stored |-> a.stored, index |-> a.index, active |-> a.active]
        /\ a.stored = d.stored /\ a.index = d.index
        /\ a.active = [d.active EXCEPT !["editor"] = id]
    BY <1>2 DEF GoodDisk
  <2>2. /\ a.active \in [Kept -> Ids \cup {0}]
        /\ \A k \in Kept : a.active[k] = IF k = "editor" THEN id ELSE d.active[k]
    BY <1>2, <2>1 DEF GoodDisk
  <2>3. id # 0
    BY DEF Ids
  <2> HIDE DEF a
  <2> QED
    BY <1>2, <2>1, <2>2, <2>3 DEF GoodDisk
<1>5. GoodWindow(r)
  BY <1>1, <1>2, SwitchGood
<1> HIDE DEF a, r, c
<1>6. GoodDisk(e)
  BY <1>2, <1>3, <1>4, PersistKeeps
<1> HIDE DEF e
<1>7. GoodWindows(win)'
  BY <1>1, <1>5, OneWindow DEF IInv
<1>8. GoodDisk(Disk)'
  BY <1>1, <1>6, WrittenGood
<1> QED
  BY <1>7, <1>8 DEF IInv, LoadSession

\* The sizes that a window may ask.
LEMMA SizeFits ==
    ASSUME NEW v, GoodWindow(v), v.st = "shown", v.draft # 0,
           NEW s \in IF v.kind = "editor" /\ v.messages = <<>> THEN FirstSizes
                     ELSE RequestSizes[v.kind]
    PROVE  /\ v.kind \in Kinds /\ s \in 1..Context
           /\ v.kind \in Kept /\ v.messages # <<>> =>
                s + SummarySize <= Context /\ s + LeastContext <= Context
<1>1. v.kind \in Kinds
  BY DEF GoodWindow, Alive
<1>2. \A k \in Kinds : RequestSizes[k] \subseteq 1..Context
  BY ChatBounds
<1> QED
  BY <1>1, <1>2, ChatBounds

\* A stored window asks after a context that leaves room for its request.
LEMMA AsksCompacted ==
    ASSUME NEW v, GoodWindow(v), v.st = "shown", v.draft # 0, v.kind \in Kept,
           NEW s \in 1..Context,
           v.messages # <<>> => s + SummarySize <= Context /\ s + LeastContext <= Context
    PROVE  GoodWindow(Asks(v, Compact(v.kind, v.messages, s), v.turns, s))
<1> DEFINE q == [role |-> "user", n |-> v.draft, size |-> s]
           ms == Compact(v.kind, v.messages, s)
<1>1. v.messages \in Seq(Message) /\ s \in Nat
  BY ChatBounds DEF GoodWindow
<1>2. q \in Message /\ q.size = s
  BY <1>1 DEF GoodWindow, Drafts, Message
<1>3. Fits(Append(ms, q))
  <2> HIDE DEF q
  <2> QED
    BY <1>1, <1>2, RequestFits
<1>4. ms \in Seq(Message)
  BY <1>1, CompactGood
<1> HIDE DEF ms
<1>5. GoodWindow(Asks(v, ms, v.turns, s))
  BY <1>1, <1>3, <1>4, AsksGood
<1> QED
  BY <1>5 DEF ms

LEMMA AsksAlone ==
    ASSUME NEW v, GoodWindow(v), v.st = "shown", v.draft # 0, v.kind = "audit",
           NEW s \in 1..Context
    PROVE  GoodWindow(AuditAsks(v, s))
<1> DEFINE q == [role |-> "user", n |-> v.draft, size |-> s]
<1>1. s \in Nat /\ s <= Context /\ MaxMessages >= 3
  BY ChatBounds
<1>2. q \in Message /\ q.size = s
  BY <1>1 DEF GoodWindow, Drafts, Message
<1>3. Fits(Append(<<>>, q))
  <2> HIDE DEF q
  <2>1. <<>> \in Seq(Message) /\ Len(Append(<<>>, q)) = 1
    BY <1>2
  <2>2. Weight(Append(<<>>, q)) = Weight(<<>>) + q.size
    BY <1>2, <2>1, WeightAppend
  <2>3. Weight(Append(<<>>, q)) = s
    BY <1>1, <1>2, <2>2, WeightEmpty
  <2> QED
    BY <1>1, <2>1, <2>3, ChatBounds DEF Fits
<1> DEFINE u == AuditAsks(v, s)
<1>4. Append(<<>>, q) = <<q>> /\ <<q>> \in Seq(Message) /\ Last(<<q>>) = q
  BY <1>2 DEF Last
<1>5. /\ IsWindow(u) /\ u.kind = v.kind /\ u.sess = v.sess /\ u.turns = v.turns
      /\ u.messages = <<q>> /\ u.draft = v.draft /\ u.st = v.st /\ u.asked = v.draft
  BY DEF GoodWindow, IsWindow, FieldNames, AuditAsks
<1>6. v.draft \in Requests /\ v.kind \notin Kept
  BY ChatBounds DEF GoodWindow, Drafts, Requests, Kept
<1>7. q.role = "user" /\ q.n = v.draft
  OBVIOUS
<1> HIDE DEF u, q
<1>8. EndsWithQuestion(u) /\ WithinLimits(u)
  BY <1>3, <1>4, <1>5, <1>6, <1>7 DEF EndsWithQuestion, WithinLimits
<1>9. GoodWindow(u)
  BY <1>4, <1>5, <1>6, <1>8 DEF GoodWindow, KeepsOrder, Alive
<1> QED
  BY <1>9 DEF u

LEMMA SubmitGood == ASSUME IInv, NEW w \in Windows, Submit(w) PROVE IInv'
<1> DEFINE v == win[w]
           r(s) == CASE v.kind = "editor" -> EditorAsks(v, s)
                     [] v.kind = "chat"   -> ChatAsks(v, s)
                     [] OTHER             -> AuditAsks(v, s)
<1>1. GoodWindow(v) /\ v.st = "shown" /\ v.draft # 0
  BY DEF IInv, GoodWindows, Submit
<1>2. PICK s \in IF v.kind = "editor" /\ v.messages = <<>> THEN FirstSizes
                 ELSE RequestSizes[v.kind] : win' = [win EXCEPT ![w] = r(s)]
  BY DEF Submit
<1> HIDE DEF v
<1>3. /\ v.kind \in Kinds /\ s \in 1..Context
      /\ v.kind \in Kept /\ v.messages # <<>> =>
           s + SummarySize <= Context /\ s + LeastContext <= Context
  BY <1>1, <1>2, SizeFits
<1>4. GoodWindow(r(s))
  <2>1. CASE v.kind = "editor"
    <3>1. GoodWindow(EditorAsks(v, s))
      BY <1>1, <1>3, <2>1, AsksCompacted DEF EditorAsks, Kept
    <3> QED
      BY <2>1, <3>1
  <2>2. CASE v.kind = "chat"
    <3>1. GoodWindow(ChatAsks(v, s))
      BY <1>1, <1>3, <2>2, AsksCompacted DEF ChatAsks, Kept
    <3> QED
      BY <2>2, <3>1
  <2>3. CASE v.kind # "editor" /\ v.kind # "chat"
    BY <1>1, <1>3, <2>3, AsksAlone DEF Kinds
  <2> QED
    BY <2>1, <2>2, <2>3
<1> HIDE DEF r
<1>5. GoodWindows(win)'
  BY <1>2, <1>4, OneWindow DEF IInv, v
<1>6. GoodDisk(Disk)'
  BY SameDisk DEF IInv, Submit
<1> QED
  BY <1>5, <1>6 DEF IInv, Submit

LEMMA AdvanceGood ==
    ASSUME IInv, NEW w \in Windows, win[w].pc # "idle", NEW x,
           win' = [win EXCEPT ![w].pc = x], UNCHANGED <<disk, typed>>
    PROVE  IInv'
<1> DEFINE r == [win[w] EXCEPT !.pc = x]
<1>1. GoodWindow(r)
  BY AdvancedGood DEF IInv, GoodWindows
<1>2. win' = [win EXCEPT ![w] = r]
  BY DEF IInv, GoodWindows
<1> HIDE DEF r
<1>3. GoodWindows(win)'
  BY <1>1, <1>2, OneWindow DEF IInv
<1>4. GoodDisk(Disk)'
  BY SameDisk DEF IInv
<1> QED
  BY <1>3, <1>4 DEF IInv

\* A request that ends leaves a window that is free, and saves it.
LEMMA SettleGood ==
    ASSUME IInv, NEW w \in Windows, NEW v, Settle(w, v),
           IsWindow(v), v.turns \in Seq(Turn), KeepsOrder(v),
           v.draft \in Drafts, v.kind \in Kept => v.sess \in Ids,
           v.messages \in Seq(Message), v.kind \in Kinds
    PROVE  IInv'
<1>1. GoodWindow(Freed(v)) /\ (Freed(v).kind \in Kept => Freed(v).sess \in Ids)
  BY FreedGood
<1>2. /\ win' = [win EXCEPT ![w] = Freed(v)] /\ Written(SaveNow(Disk, Freed(v)))
      /\ UNCHANGED typed
  BY DEF Settle, Freed
<1>3. GoodWindows(win)'
  BY <1>1, <1>2, OneWindow DEF IInv
<1>4. GoodDisk(Disk)'
  BY <1>1, <1>2, SaveKeeps, WrittenGood DEF IInv
<1> QED
  BY <1>2, <1>3, <1>4 DEF IInv

LEMMA ReplyGood == ASSUME IInv, NEW w \in Windows, Reply(w) PROVE IInv'
<1>1. GoodWindow(win[w]) /\ win[w].pc # "idle"
  BY DEF IInv, GoodWindows, Reply
<1>2. PICK s \in ReplySizes : Settle(w, Replied(win[w], s))
  BY DEF Reply
<1>3. s \in Nat
  BY ChatBounds
<1> QED
  BY <1>1, <1>2, <1>3, RepliedGood, SettleGood

LEMMA FailGood == ASSUME IInv, NEW w \in Windows, Fail(w) PROVE IInv'
<1>1. GoodWindow(win[w]) /\ win[w].pc # "idle"
  BY DEF IInv, GoodWindows, Fail, Busy
<1>2. PICK s : Settle(w, Withdrawn(win[w], s))
  BY DEF Fail
<1> QED
  BY <1>1, <1>2, WithdrawnGood, SettleGood

LEMMA StopGood == ASSUME IInv, Stop PROVE IInv'
<1> DEFINE d0 == IF Of("editor") = {} THEN Disk
                 ELSE SaveNow(Disk, win[Min(Of("editor"))])
           d  == IF Of("chat") = {} THEN d0 ELSE SaveNow(d0, win[Min(Of("chat"))])
<1>1. GoodDisk(Disk) /\ GoodWindows(win) /\ Written(d) /\ UNCHANGED typed
  BY DEF IInv, Stop
<1>2. GoodDisk(d0)
  BY <1>1, Chosen, SavedGood
<1> HIDE DEF d0
<1>3. GoodDisk(d)
  BY <1>1, <1>2, Chosen, SavedGood
<1> HIDE DEF d
<1>4. GoodDisk(Disk)'
  BY <1>1, <1>3, WrittenGood
<1>5. GoodWindows(win)'
  BY <1>1, DestroyedGood DEF Stop, GoodWindows, Live
<1> QED
  BY <1>1, <1>4, <1>5 DEF IInv

LEMMA CrashGood == ASSUME IInv, Crash PROVE IInv'
<1>1. ASSUME NEW k PROVE GoodWindow([NoWindow EXCEPT !.kind = k, !.st = "gone"])
  <2> DEFINE s == [NoWindow EXCEPT !.kind = k, !.st = "gone"]
  <2>1. GoodWindow(NoWindow) /\ NoWindow.pc = "idle" /\ IsWindow(NoWindow)
    BY NoWindowGood DEF NoWindow, GoodWindow
  <2>2. /\ IsWindow(s) /\ s.turns = NoWindow.turns /\ s.draft = NoWindow.draft
        /\ s.st = "gone" /\ s.pc = NoWindow.pc /\ s.messages = NoWindow.messages
    BY <2>1 DEF IsWindow, FieldNames
  <2> HIDE DEF s
  <2>3. GoodWindow(s)
    BY <2>1, <2>2, NoTurns DEF GoodWindow, KeepsOrder, Alive, NoWindow
  <2> QED
    BY <2>3 DEF s
<1>2. GoodWindows(win)'
  BY <1>1 DEF IInv, Crash, GoodWindows
<1>3. GoodDisk(Disk)'
  BY SameDisk DEF IInv, Crash
<1> QED
  BY <1>2, <1>3 DEF IInv, Crash

\* Steps that leave windows and data file alone.
LEMMA Elsewhere == ASSUME IInv, UNCHANGED <<win, disk, typed>> PROVE IInv'
<1>1. GoodDisk(Disk)'
  BY SameDisk DEF IInv
<1> QED
  BY <1>1 DEF IInv, GoodWindows

LEMMA InitInv == Init => IInv
<1> SUFFICES ASSUME Init PROVE IInv
  OBVIOUS
<1>1. GoodDisk(Disk)
  BY FreshGood DEF Init, Disk, GoodDisk
<1>2. GoodWindows(win)
  BY NoWindowGood DEF Init, GoodWindows
<1> QED
  BY <1>1, <1>2, NoTurns DEF IInv, Init

LEMMA NextInv == IInv /\ [Next]_vars => IInv'
<1> SUFFICES ASSUME IInv, [Next]_vars PROVE IInv'
  OBVIOUS
<1>1. ASSUME NEW w \in Windows, AccessGranted(w) PROVE IInv'
  BY <1>1, AdvanceGood DEF AccessGranted
<1>2. ASSUME NEW w \in Windows, Posted(w) PROVE IInv'
  BY <1>2, AdvanceGood DEF Posted
<1>3. ASSUME NEW n \in Requests, JobEnds(n) PROVE IInv'
  BY <1>3, Elsewhere DEF JobEnds
<1>4. CASE Start
  BY <1>4, Elsewhere DEF Start
<1>5. CASE UNCHANGED vars
  BY <1>5, Elsewhere DEF vars
<1> QED
  BY <1>1, <1>2, <1>3, <1>4, <1>5, OpenEditorGood, OpenChatGood, OpenAuditGood,
     CloseGood, TimerGood, TypeGood, UseReplyGood, NewChatGood, SelectModeGood, LoadSessionGood,
     SubmitGood, ReplyGood, FailGood, StopGood, CrashGood DEF Next

-----------------------------------------------------------------------------
(***************************************************************************)
(* What the windows owe the data file                                      *)
(***************************************************************************)

\* The windows that the user can reach and that are stored.
Open(v) == v.st \in {"shown", "hidden"} /\ v.kind \in Kept

\* The requests that turns ts answer.
RepliesIn(ts) == {t.n : t \in {u \in Range(ts) : u.role = "assistant"}}

\* Undisturbed, of windows f.
Calm(f, id) == ~ \E w \in Windows : f[w].st = "late" /\ f[w].sess = id

\* The index and the active conversation of a kind are of that kind, and an
\* unused conversation is blank.
DiskKinds(d) ==
    /\ \A k \in Kept :
         /\ d.index[k] \in Seq(Ids)
         /\ \A id \in Range(d.index[k]) : d.stored[id].kind = k
         /\ d.active[k] # 0 => d.stored[d.active[k]].kind = k
    /\ \A id \in Ids : d.stored[id].kind = "none" => d.stored[id].turns = <<>>

\* A window that may still write is of its conversation's kind.
Belongs(v, d) == v.st \in Alive /\ v.kind \in Kept => d.stored[v.sess].kind = v.kind

\* What window v holds is saved or about to be, and no reply is missing in it.
Backed(v, d) ==
    /\ ~v.armed => d.stored[v.sess] = Content(v)
    /\ RepliesIn(d.stored[v.sess].turns) \subseteq RepliesIn(v.turns)

Holding(f, d) ==
    /\ \A v, w \in Windows : Open(f[v]) /\ Open(f[w]) /\ f[v].kind = f[w].kind => v = w
    /\ \A w \in Windows : Belongs(f[w], d)
    /\ \A w \in Windows : Open(f[w]) /\ Calm(f, f[w].sess) => Backed(f[w], d)

\* What becomes of data file d while windows f hold it, if only conversations of
\* kind k, or new ones, are written.
Writes(f, d, e, k) ==
    /\ GoodDisk(e)
    /\ DiskKinds(e)
    /\ \A id \in Ids :
         /\ \/ e.stored[id].kind = d.stored[id].kind
            \/ d.stored[id].kind = "none" /\ e.stored[id].kind = k
         /\ d.stored[id].kind \notin {"none", k} => e.stored[id] = d.stored[id]
         /\ Calm(f, id) => RepliesIn(d.stored[id].turns) \subseteq RepliesIn(e.stored[id].turns)

LEMMA RepliesAre ==
    ASSUME NEW ts \in Seq(Turn), NEW n
    PROVE  n \in RepliesIn(ts) <=> \E i \in 1..Len(ts) : ts[i].role = "assistant" /\ ts[i].n = n
<1>1. DOMAIN ts = 1..Len(ts)
  OBVIOUS
<1> QED
  BY <1>1 DEF RepliesIn, Range

LEMMA NoReplies == RepliesIn(<<>>) = {}
BY DEF RepliesIn, Range

\* A turn that joins takes no reply away, nor does a question that leaves.
LEMMA JoiningKeepsReplies ==
    ASSUME NEW ts \in Seq(Turn), NEW t \in Turn
    PROVE  RepliesIn(ts) \subseteq RepliesIn(Append(ts, t))
<1> DEFINE new == Append(ts, t)
<1>1. /\ new \in Seq(Turn) /\ Len(new) = Len(ts) + 1 /\ Len(ts) \in Nat
      /\ \A i \in 1..Len(ts) : new[i] = ts[i]
  BY AppendProperties, LenProperties
<1> HIDE DEF new
<1>2. \A i \in 1..Len(ts) : i \in 1..Len(new)
  BY <1>1
<1>3. ASSUME NEW n \in RepliesIn(ts) PROVE n \in RepliesIn(new)
  <2>1. PICK i \in 1..Len(ts) : ts[i].role = "assistant" /\ ts[i].n = n
    BY <1>3, RepliesAre
  <2>2. i \in 1..Len(new) /\ new[i].role = "assistant" /\ new[i].n = n
    BY <1>1, <1>2, <2>1
  <2> QED
    BY <1>1, <2>2, RepliesAre
<1> QED
  BY <1>3 DEF new

LEMMA QuestionsAreNoReplies ==
    ASSUME NEW ts \in Seq(Turn), ts # <<>>, ts[Len(ts)].role = "user"
    PROVE  Front(ts) \in Seq(Turn) /\ RepliesIn(ts) \subseteq RepliesIn(Front(ts))
<1> DEFINE m == Len(ts) - 1
           new == SubSeq(ts, 1, m)
<1>1. Len(ts) \in Nat \ {0} /\ \A i \in 1..Len(ts) : ts[i] \in Turn
  BY EmptySeq, LenProperties
<1>2. m \in Int /\ m >= 0 /\ \A i \in 1..m : i \in 1..Len(ts) /\ ts[i] \in Turn
  BY <1>1
<1>3. /\ new \in Seq(Turn) /\ Len(new) = IF 1 <= m THEN m - 1 + 1 ELSE 0
      /\ \A i \in 1..(m - 1 + 1) : new[i] = ts[1 + i - 1]
  BY <1>2, SubSeqProperties
<1>4. \A i \in 1..Len(ts) : i = Len(ts) \/ i \in 1..m
  BY <1>1
<1> HIDE DEF m, new
<1>5. Len(new) = m /\ \A i \in 1..m : new[i] = ts[i]
  BY <1>2, <1>3
<1>6. ASSUME NEW n \in RepliesIn(ts) PROVE n \in RepliesIn(new)
  <2>1. PICK i \in 1..Len(ts) : ts[i].role = "assistant" /\ ts[i].n = n
    BY <1>6, RepliesAre
  <2>2. i # Len(ts)
    BY <2>1
  <2>3. i \in 1..Len(new) /\ new[i].role = "assistant" /\ new[i].n = n
    BY <1>4, <1>5, <2>1, <2>2
  <2> QED
    BY <1>3, <2>3, RepliesAre
<1> QED
  BY <1>3, <1>6 DEF Front, new, m

\* Saving an id puts nothing else into the index.
LEMMA IndexedHas ==
    ASSUME NEW ids \in Seq(Ids), NEW id \in Ids
    PROVE  /\ Indexed(ids, id) \in Seq(Ids)
           /\ \A x \in Range(Indexed(ids, id)) : x = id \/ x \in Range(ids)
<1> DEFINE rest == RemoveFirst(ids, id)
<1>1. rest \in Seq(Ids) /\ \A x \in Range(rest) : x \in Range(ids)
  <2>1. CASE ~ \E i \in 1..Len(ids) : ids[i] = id
    BY <2>1 DEF RemoveFirst
  <2>2. CASE \E i \in 1..Len(ids) : ids[i] = id
    <3> DEFINE I == {i \in 1..Len(ids) : ids[i] = id}
               m == Min(I)
               a == SubSeq(ids, 1, m - 1)
               b == SubSeq(ids, m + 1, Len(ids))
    <3>1. rest = a \o b
      BY <2>2, Zenon DEF RemoveFirst, RemoveAt, SelectInSeq
    <3>2. m \in 1..Len(ids)
      <4>1. I \subseteq Nat /\ I # {}
        BY <2>2
      <4> QED
        BY <4>1, MinLeast
    <3> HIDE DEF m
    <3>3. /\ a \in Seq(Ids) /\ Len(a) = m - 1
          /\ \A i \in 1..Len(a) : a[i] = ids[i]
      BY <3>2, SubSeqProperties
    <3>4. /\ b \in Seq(Ids) /\ Len(b) = Len(ids) - m
          /\ \A i \in 1..Len(b) : b[i] = ids[m + i]
      BY <3>2, SubSeqProperties
    <3> HIDE DEF a, b
    <3>5. \A x \in Range(a) : x \in Range(ids)
      BY <3>2, <3>3 DEF Range
    <3>6. \A x \in Range(b) : x \in Range(ids)
      <4>1. \A i \in 1..Len(b) : m + i \in 1..Len(ids)
        BY <3>2, <3>4
      <4> QED
        BY <3>4, <4>1 DEF Range
    <3>7. a \o b \in Seq(Ids) /\ \A x \in Range(a \o b) : x \in Range(a) \/ x \in Range(b)
      BY <3>3, <3>4, ConcatProperties DEF Range
    <3> QED
      BY <3>1, <3>5, <3>6, <3>7
  <2> QED
    BY <2>1, <2>2
<1> HIDE DEF rest
<1>2. /\ <<id>> \o rest \in Seq(Ids) /\ Len(<<id>> \o rest) = 1 + Len(rest)
      /\ \A i \in 1..(1 + Len(rest)) :
            (<<id>> \o rest)[i] = IF i <= 1 THEN <<id>>[i] ELSE rest[i - 1]
  BY <1>1, ConcatProperties
<1>3. ASSUME NEW x \in Range(<<id>> \o rest) PROVE x = id \/ x \in Range(rest)
  <2>1. PICK i \in 1..(1 + Len(rest)) : x = IF i <= 1 THEN <<id>>[i] ELSE rest[i - 1]
    BY <1>2, <1>3 DEF Range
  <2>2. CASE i <= 1
    BY <2>1, <2>2
  <2>3. CASE i > 1
    <3>1. i - 1 \in 1..Len(rest) /\ x = rest[i - 1]
      BY <1>1, <2>1, <2>3
    <3> QED
      BY <1>1, <3>1 DEF Range
  <2> QED
    BY <2>1, <2>2, <2>3
<1> QED
  BY <1>1, <1>2, <1>3 DEF Indexed, Cons, rest

-----------------------------------------------------------------------------
(***************************************************************************)
(* Writing the data file                                                   *)
(***************************************************************************)

\* A conversation may be saved under an id of its kind, or an unused one.
LEMMA PersistKinds ==
    ASSUME NEW d, GoodDisk(d), DiskKinds(d), NEW id \in Ids, NEW c, GoodConversation(c),
           c.kind \in Kept, d.stored[id].kind \in {"none", c.kind}
    PROVE  DiskKinds(Persist(d, id, c))
<1> DEFINE k == c.kind
           e == Persist(d, id, c)
<1>1. /\ e.stored = [d.stored EXCEPT ![id] = c]
      /\ e.index = [d.index EXCEPT ![k] = Indexed(d.index[k], id)]
      /\ e.active = [d.active EXCEPT ![k] = id]
  BY DEF Persist
<1>2. \A x \in Ids : e.stored[x] = IF x = id THEN c ELSE d.stored[x]
  BY <1>1 DEF GoodDisk
<1>3. \A x \in Kept : /\ e.index[x] = IF x = k THEN Indexed(d.index[k], id) ELSE d.index[x]
                      /\ e.active[x] = IF x = k THEN id ELSE d.active[x]
  BY <1>1 DEF GoodDisk
<1>4. id # 0 /\ "none" \notin Kept
  BY DEF Ids, Kept
<1> HIDE DEF e
<1>5. ASSUME NEW x \in Kept
      PROVE  /\ e.index[x] \in Seq(Ids)
             /\ \A i \in Range(e.index[x]) : e.stored[i].kind = x
             /\ e.active[x] # 0 => e.stored[e.active[x]].kind = x
  <2>1. d.index[x] \in Seq(Ids) /\ \A i \in Range(d.index[x]) : i \in Ids /\ d.stored[i].kind = x
    BY DEF DiskKinds, Range
  <2>2. d.active[x] \in Ids \cup {0} /\ (d.active[x] # 0 => d.stored[d.active[x]].kind = x)
    BY DEF DiskKinds, GoodDisk
  <2>3. CASE x = k
    <3>1. Indexed(d.index[x], id) \in Seq(Ids)
          /\ \A i \in Range(Indexed(d.index[x], id)) : i = id \/ i \in Range(d.index[x])
      BY <2>1, IndexedHas
    <3>2. e.index[x] = Indexed(d.index[x], id) /\ e.active[x] = id
      BY <1>3, <2>3
    <3> QED
      BY <1>2, <2>1, <2>3, <3>1, <3>2
  <2>4. CASE x # k
    <3>1. e.index[x] = d.index[x] /\ e.active[x] = d.active[x]
      BY <1>3, <2>4
    <3>2. \A i \in Ids : d.stored[i].kind = x => e.stored[i] = d.stored[i]
      BY <1>2, <1>4, <2>4
    <3> QED
      BY <2>1, <2>2, <3>1, <3>2
  <2> QED
    BY <2>3, <2>4
<1>6. \A x \in Ids : e.stored[x].kind = "none" => e.stored[x].turns = <<>>
  BY <1>2, <1>4 DEF DiskKinds
<1>7. DiskKinds(e)
  BY <1>5, <1>6 DEF DiskKinds
<1> QED
  BY <1>7 DEF e

LEMMA PersistWrites ==
    ASSUME NEW f, NEW d, GoodDisk(d), DiskKinds(d), NEW id \in Ids,
           NEW c, GoodConversation(c),
           c.kind \in Kept, d.stored[id].kind \in {"none", c.kind},
           Calm(f, id) => RepliesIn(d.stored[id].turns) \subseteq RepliesIn(c.turns)
    PROVE  Writes(f, d, Persist(d, id, c), c.kind)
<1> DEFINE e == Persist(d, id, c)
<1>1. GoodDisk(e) /\ DiskKinds(e)
  BY PersistKeeps, PersistKinds
<1>2. \A x \in Ids : e.stored[x] = IF x = id THEN c ELSE d.stored[x]
  BY DEF Persist, GoodDisk
<1> HIDE DEF e
<1>3. Writes(f, d, e, c.kind)
  BY <1>1, <1>2 DEF Writes
<1> QED
  BY <1>3 DEF e

LEMMA WritesOn ==
    ASSUME NEW f, NEW d, NEW e, NEW g, NEW k, Writes(f, d, e, k), Writes(f, e, g, k), k # "none"
    PROVE  Writes(f, d, g, k)
BY DEF Writes

LEMMA NothingWritten ==
    ASSUME NEW f, NEW d, GoodDisk(d), DiskKinds(d), NEW k
    PROVE  Writes(f, d, d, k)
BY DEF Writes

\* A window that may still write keeps its conversation's kind.
LEMMA StillBelongs ==
    ASSUME NEW f, NEW d, NEW e, NEW k, Writes(f, d, e, k), NEW v, GoodWindow(v), Belongs(v, d)
    PROVE  Belongs(v, e)
BY DEF Writes, Belongs, GoodWindow, Kept

\* What a window holds may be saved as it is.
LEMMA SaveWrites ==
    ASSUME NEW f, NEW d, GoodDisk(d), DiskKinds(d), NEW v, GoodWindow(v), Belongs(v, d),
           Open(v), Calm(f, v.sess) => Backed(v, d)
    PROVE  /\ Writes(f, d, SaveNow(d, v), v.kind)
           /\ SaveNow(d, v).stored[v.sess] = Content(v)
<1>1. v.kind \in Kept /\ v.sess \in Ids /\ d.stored[v.sess].kind = v.kind
  BY DEF Open, GoodWindow, Alive, Belongs
<1>2. GoodConversation(Content(v)) /\ Content(v).kind = v.kind /\ Content(v).turns = v.turns
  BY <1>1, ContentGood DEF Content
<1>3. Calm(f, v.sess) => RepliesIn(d.stored[v.sess].turns) \subseteq RepliesIn(Content(v).turns)
  BY <1>2 DEF Backed
<1>4. SaveNow(d, v) = Persist(d, v.sess, Content(v))
  BY <1>1 DEF SaveNow
<1>5. Writes(f, d, Persist(d, v.sess, Content(v)), Content(v).kind)
  BY <1>1, <1>2, <1>3, PersistWrites
<1>6. Persist(d, v.sess, Content(v)).stored[v.sess] = Content(v)
  BY <1>1, <1>2, PersistKeeps
<1> QED
  BY <1>2, <1>4, <1>5, <1>6

\* A new conversation takes an unused id.
LEMMA NewSessionWrites ==
    ASSUME NEW f, NEW d, GoodDisk(d), DiskKinds(d), NEW id \in Ids, d.stored[id].kind = "none"
    PROVE  /\ Writes(f, d, NewChatSession(d, id), "chat")
           /\ NewChatSession(d, id).stored[id].kind = "chat"
           /\ \A m : /\ Writes(f, d, NewEditorSession(d, id, m), "editor")
                    /\ NewEditorSession(d, id, m).stored[id].kind = "editor"
<1> DEFINE c(m) == [Fresh EXCEPT !.kind = "editor", !.mode = m]
           b == [Fresh EXCEPT !.kind = "chat"]
<1>1. RepliesIn(d.stored[id].turns) = {}
  BY NoReplies DEF DiskKinds
<1>2. b.kind = "chat" /\ GoodConversation(b) /\ b.kind \in Kept
  BY FreshGood DEF Fresh, Kept
<1>3. \A m : c(m).kind = "editor" /\ GoodConversation(c(m)) /\ c(m).kind \in Kept
  BY FreshGood DEF Fresh, Kept
<1>4. NewChatSession(d, id) = Persist(d, id, b) /\ \A m : NewEditorSession(d, id, m) = Persist(d, id, c(m))
  BY DEF NewChatSession, NewEditorSession
<1> HIDE DEF b, c
<1>5. ASSUME NEW x, GoodConversation(x), x.kind \in Kept
      PROVE  Writes(f, d, Persist(d, id, x), x.kind) /\ Persist(d, id, x).stored[id] = x
  <2>1. RepliesIn(d.stored[id].turns) \subseteq RepliesIn(x.turns)
    BY <1>1
  <2>2. d.stored[id].kind \in {"none", x.kind}
    OBVIOUS
  <2>3. Writes(f, d, Persist(d, id, x), x.kind)
    BY <1>5, <2>1, <2>2, PersistWrites
  <2>4. Persist(d, id, x).stored[id] = x
    BY <1>5, PersistKeeps
  <2> QED
    BY <2>3, <2>4
<1> QED
  BY <1>2, <1>3, <1>4, <1>5

-----------------------------------------------------------------------------
(***************************************************************************)
(* The steps, again                                                        *)
(***************************************************************************)

HInv == DiskKinds(Disk) /\ Holding(win, Disk)

\* What a step does for the windows and the data file.
StillHolds ==
    /\ HInv'
    /\ \A id \in Ids : Calm(win, id) =>
            RepliesIn(stored[id].turns) \subseteq RepliesIn(stored'[id].turns)

LEMMA WrittenIs == ASSUME NEW d, GoodDisk(d), Written(d) PROVE Disk' = d
BY DEF GoodDisk, Written, Disk

\* Window w, the only open one of kind k, becomes one that data file e backs;
\* others may close.
LEMMA OneTakesOver ==
    ASSUME IInv, IInv', HInv, NEW k \in Kept, NEW w \in Windows, NEW e,
           Writes(win, Disk, e, k), Written(e),
           \A x \in Windows : x # w =>
               \/ win'[x] = win[x]
               \/ ~Open(win'[x]) /\ Belongs(win'[x], Disk) /\ win[x].st # "late",
           \A x \in Windows : x # w /\ Open(win'[x]) => win'[x].kind # k,
           win[w].st # "late", Belongs(win'[w], e),
           Open(win'[w]) => win'[w].kind = k /\ Backed(win'[w], e)
    PROVE  StillHolds
<1>1. GoodDisk(e) /\ DiskKinds(e) /\ Disk' = e /\ stored' = e.stored /\ Disk.stored = stored
  BY WrittenIs DEF Writes, Written, Disk
<1>2. \A id \in Ids : Calm(win, id) =>
            RepliesIn(stored[id].turns) \subseteq RepliesIn(stored'[id].turns)
  BY <1>1 DEF Writes
<1>3. \A id : Calm(win', id) => Calm(win, id)
  BY DEF Calm
<1>4. ASSUME NEW x \in Windows, NEW y \in Windows, Open(win'[x]), Open(win'[y]),
             win'[x].kind = win'[y].kind
      PROVE  x = y
  <2>1. CASE x = w \/ y = w
    BY <1>4, <2>1
  <2>2. CASE x # w /\ y # w
    <3>1. win'[x] = win[x] /\ win'[y] = win[y]
      BY <1>4, <2>2
    <3> QED
      BY <1>4, <3>1 DEF HInv, Holding
  <2> QED
    BY <2>1, <2>2
<1>5. ASSUME NEW x \in Windows PROVE Belongs(win'[x], e)
  <2>1. CASE x = w
    BY <2>1
  <2>2. CASE x # w
    <3>1. Belongs(win'[x], Disk)
      BY <2>2 DEF HInv, Holding
    <3>2. GoodWindow(win'[x])
      BY DEF IInv, GoodWindows
    <3> QED
      BY <3>1, <3>2, StillBelongs
  <2> QED
    BY <2>1, <2>2
<1>6. ASSUME NEW x \in Windows, Open(win'[x]), Calm(win', win'[x].sess)
      PROVE  Backed(win'[x], e)
  <2>1. CASE x = w
    BY <1>6, <2>1
  <2>2. CASE x # w
    <3>1. win'[x] = win[x] /\ win[x].kind # k /\ Open(win[x]) /\ Calm(win, win[x].sess)
      BY <1>3, <1>6, <2>2
    <3>2. Backed(win[x], Disk) /\ Belongs(win[x], Disk)
      BY <3>1 DEF HInv, Holding
    <3>3. /\ win[x].kind \in Kept /\ win[x].sess \in Ids
          /\ Disk.stored[win[x].sess].kind = win[x].kind
      BY <3>1, <3>2 DEF Open, Belongs, IInv, GoodWindows, GoodWindow, Alive
    <3>4. e.stored[win[x].sess] = Disk.stored[win[x].sess]
      BY <3>1, <3>3 DEF Writes, Kept
    <3> QED
      BY <3>1, <3>2, <3>4 DEF Backed
  <2> QED
    BY <2>1, <2>2
<1>7. Holding(win', e)
  BY <1>4, <1>5, <1>6 DEF Holding
<1> QED
  BY <1>1, <1>2, <1>7 DEF StillHolds, HInv

\* What becomes of a window that writes nothing.
Lingers(v, u) ==
    /\ Open(u) =>
         /\ Open(v) /\ u.kind = v.kind /\ u.sess = v.sess
         /\ RepliesIn(v.turns) \subseteq RepliesIn(u.turns)
         /\ u.armed \/ (~v.armed /\ Content(v) = Content(u))
    /\ u.st \in Alive /\ u.kind \in Kept =>
         v.st \in Alive /\ v.kind = u.kind /\ v.sess = u.sess
    /\ v.st = "late" => u.st = "late" /\ u.sess = v.sess

LEMMA AllLinger ==
    ASSUME HInv, UNCHANGED disk, \A x \in Windows : Lingers(win[x], win'[x])
    PROVE  StillHolds
<1>1. Disk' = Disk /\ stored' = stored
  BY DEF disk, Disk
<1>2. \A id : Calm(win', id) => Calm(win, id)
  BY DEF Calm, Lingers
<1>3. \A x, y \in Windows : Open(win'[x]) /\ Open(win'[y]) /\ win'[x].kind = win'[y].kind => x = y
  BY DEF Lingers, HInv, Holding
<1>4. \A x \in Windows : Belongs(win'[x], Disk)
  BY DEF Lingers, HInv, Holding, Belongs
<1>5. ASSUME NEW x \in Windows, Open(win'[x]), Calm(win', win'[x].sess)
      PROVE  Backed(win'[x], Disk)
  <2>1. Lingers(win[x], win'[x])
    OBVIOUS
  <2>2. Backed(win[x], Disk)
    BY <1>2, <1>5, <2>1 DEF Lingers, HInv, Holding
  <2> QED
    BY <1>5, <2>1, <2>2 DEF Lingers, Backed
<1>6. Holding(win', Disk)
  BY <1>3, <1>4, <1>5 DEF Holding
<1> QED
  BY <1>1, <1>6 DEF StillHolds, HInv

\* One window changes and writes nothing.
LEMMA OneLingers ==
    ASSUME IInv, HInv, UNCHANGED disk, NEW w \in Windows, NEW r,
           win' = [win EXCEPT ![w] = r], Lingers(win[w], r)
    PROVE  StillHolds
<1>1. ASSUME NEW x \in Windows PROVE Lingers(win[x], win'[x])
  <2>1. CASE x = w
    BY <2>1 DEF IInv, GoodWindows
  <2>2. CASE x # w
    <3>1. win'[x] = win[x]
      BY <2>2
    <3> QED
      BY <3>1 DEF Lingers
  <2> QED
    BY <2>1, <2>2
<1> QED
  BY <1>1, AllLinger

LEMMA NobodyMoves ==
    ASSUME HInv, UNCHANGED <<win, disk>> PROVE StillHolds
<1>1. \A x \in Windows : Lingers(win[x], win'[x])
  BY DEF Lingers
<1> QED
  BY <1>1, AllLinger

\* Windows that only change their place, or wait.
LEMMA PlacedLingers ==
    ASSUME NEW v, GoodWindow(v), v.st \in {"shown", "hidden"}
    PROVE  Lingers(v, [v EXCEPT !.st = "shown"])
<1> DEFINE u == [v EXCEPT !.st = "shown"]
<1>1. /\ u.kind = v.kind /\ u.sess = v.sess /\ u.turns = v.turns /\ u.armed = v.armed
      /\ u.st = "shown" /\ u.mode = v.mode /\ u.messages = v.messages /\ u.draft = v.draft
      /\ u.status = v.status
  BY DEF GoodWindow, IsWindow, FieldNames
<1> HIDE DEF u
<1>2. Lingers(v, u)
  BY <1>1 DEF Lingers, Open, Content, Alive
<1> QED
  BY <1>2 DEF u

LEMMA AdvancedLingers ==
    ASSUME NEW v, GoodWindow(v), NEW x
    PROVE  Lingers(v, [v EXCEPT !.pc = x])
<1> DEFINE u == [v EXCEPT !.pc = x]
<1>1. /\ u.kind = v.kind /\ u.sess = v.sess /\ u.turns = v.turns /\ u.armed = v.armed
      /\ u.st = v.st /\ u.mode = v.mode /\ u.messages = v.messages /\ u.draft = v.draft
      /\ u.status = v.status
  BY DEF GoodWindow, IsWindow, FieldNames
<1> HIDE DEF u
<1>2. Lingers(v, u)
  BY <1>1 DEF Lingers, Open, Content
<1> QED
  BY <1>2 DEF u

\* A window whose save timer is armed.
LEMMA ArmedLingers ==
    ASSUME NEW v, NEW u, u.kind = v.kind, u.sess = v.sess, u.st = v.st,
           u.kind \in Kept => u.armed /\ RepliesIn(v.turns) \subseteq RepliesIn(u.turns)
    PROVE  Lingers(v, u)
BY DEF Lingers, Open

\* A window that is not stored.
LEMMA AuditLingers ==
    ASSUME NEW v, NEW u, u.kind \notin Kept, v.st # "late"
    PROVE  Lingers(v, u)
BY DEF Lingers, Open

LEMMA DestroyedIs ==
    ASSUME NEW v, GoodWindow(v)
    PROVE  /\ Destroyed(v).kind = v.kind /\ Destroyed(v).sess = v.sess
           /\ Destroyed(v).st \in {"gone", "late"}
           /\ ~Open(Destroyed(v))
BY DEF GoodWindow, IsWindow, FieldNames, Destroyed, Open

\* The open window of a kept kind, the unused id and the conversation resumed.
LEMMA EditorOf ==
    ASSUME NEW k \in Kept, Of(k) # {}
    PROVE  Min(Of(k)) \in Windows /\ Open(win[Min(Of(k))]) /\ win[Min(Of(k))].kind = k
<1>1. Of(k) \subseteq Nat
  BY ChatBounds DEF Of, Windows
<1>2. Min(Of(k)) \in Of(k)
  BY <1>1, MinLeast
<1> QED
  BY <1>2 DEF Of, Live, Open

LEMMA UnusedId ==
    ASSUME UnusedIds # {} PROVE Min(UnusedIds) \in Ids /\ Disk.stored[Min(UnusedIds)].kind = "none"
<1>1. UnusedIds \subseteq Nat
  BY ChatBounds DEF UnusedIds, Ids
<1>2. Min(UnusedIds) \in UnusedIds
  BY <1>1, MinLeast
<1> QED
  BY <1>2 DEF UnusedIds, Disk

LEMMA ResumedKind ==
    ASSUME GoodDisk(Disk), DiskKinds(Disk), NEW k \in Kept, Resumed(k) # 0
    PROVE  Resumed(k) \in Ids /\ Disk.stored[Resumed(k)].kind = k
<1>1. active[k] # 0
  BY DEF GoodDisk, Disk, Resumed
<1> QED
  BY <1>1 DEF GoodDisk, DiskKinds, Disk, Resumed

\* Saving a window leaves an unused id unused.
LEMMA BlankStays ==
    ASSUME GoodDisk(Disk), Holding(win, Disk), GoodWindows(win), NEW w \in Windows, Open(win[w]),
           NEW id \in Ids, Disk.stored[id].kind = "none"
    PROVE  SaveNow(Disk, win[w]).stored[id].kind = "none"
<1>1. win[w].kind \in Kept /\ win[w].sess \in Ids /\ Disk.stored[win[w].sess].kind = win[w].kind
  BY DEF Open, GoodWindows, GoodWindow, Alive, Holding, Belongs
<1>2. win[w].sess # id
  BY <1>1 DEF Kept
<1> QED
  BY <1>1, <1>2 DEF SaveNow, Persist, GoodDisk

LEMMA RecoveredIs ==
    ASSUME NEW k, NEW c, GoodConversation(c)
    PROVE  /\ GoodConversation(Recovered(k, c))
           /\ Recovered(k, c).kind = c.kind /\ Recovered(k, c).turns = c.turns
<1>1. /\ [c EXCEPT !.status = "idle"].kind = c.kind
      /\ [c EXCEPT !.status = "idle"].turns = c.turns
  BY DEF GoodConversation, ContentNames
<1> QED
  BY <1>1, RecoveredGood DEF Recovered

\* A window that shows conversation c of its own kind holds just that.
LEMMA ShowsHolds ==
    ASSUME NEW v, IsWindow(v), NEW id, NEW c, GoodConversation(c), c.kind = v.kind
    PROVE  LET s == Shows(v, id, c)
           IN  /\ s.kind = v.kind /\ s.sess = id /\ s.turns = c.turns /\ s.st = v.st
               /\ Content(s) = c /\ ~s.armed
<1> DEFINE s == Shows(v, id, c)
<1>1. /\ s.kind = v.kind /\ s.sess = id /\ s.turns = c.turns /\ s.st = v.st /\ ~s.armed
      /\ s.mode = c.mode /\ s.messages = c.messages /\ s.draft = c.draft /\ s.status = c.status
  BY DEF IsWindow, FieldNames, Shows
<1> HIDE DEF s
<1>2. Content(s) = c
  <2> DEFINE t == Content(s)
  <2>1. DOMAIN t = ContentNames /\ t = [x \in DOMAIN t |-> t[x]]
    BY DEF Content, ContentNames
  <2>2. \A x \in ContentNames : t[x] = c[x]
    BY <1>1 DEF Content, ContentNames
  <2> QED
    BY <2>1, <2>2 DEF GoodConversation
<1> QED
  BY <1>1, <1>2 DEF s

LEMMA NewWindowsAre ==
    ASSUME NEW id, NEW c, GoodConversation(c)
    PROVE  /\ c.kind = "editor" =>
                LET r == NewEditor(id, c)
                IN  /\ r.kind = "editor" /\ r.sess = id /\ r.turns = c.turns /\ Content(r) = c
                    /\ r.st = "shown"
           /\ c.kind = "chat" =>
                LET r == NewChatWindow(id, c)
                IN  /\ r.kind = "chat" /\ r.sess = id /\ r.turns = c.turns /\ Content(r) = c
                    /\ r.st = "shown"
<1> DEFINE ve == [NoWindow EXCEPT !.kind = "editor", !.st = "shown"]
           vc == [NoWindow EXCEPT !.kind = "chat", !.st = "shown"]
<1>1. IsWindow(NoWindow)
  BY NoWindowGood DEF GoodWindow
<1>2. /\ IsWindow(ve) /\ ve.kind = "editor" /\ ve.st = "shown"
      /\ IsWindow(vc) /\ vc.kind = "chat" /\ vc.st = "shown"
  BY <1>1 DEF IsWindow, FieldNames
<1>3. NewEditor(id, c) = Shows(ve, id, c) /\ NewChatWindow(id, c) = Shows(vc, id, c)
  BY DEF NewEditor, NewChatWindow
<1> HIDE DEF ve, vc
<1> QED
  BY <1>2, <1>3, ShowsHolds

LEMMA OpenEditorHolds ==
    ASSUME IInv, IInv', HInv, NEW p, OpenEditor(p) PROVE StillHolds
<1>1. GoodDisk(Disk) /\ GoodWindows(win) /\ DiskKinds(Disk) /\ Holding(win, Disk)
  BY DEF IInv, HInv
<1>2. CASE Of("editor") # {} /\ ~(p /\ ~kindBusy["editor"])
  <2>1. win' = [w \in Windows |-> IF w \in Of("editor")
                  THEN [win[w] EXCEPT !.st = "shown"] ELSE win[w]] /\ UNCHANGED disk
    BY <1>2 DEF OpenEditor
  <2>2. ASSUME NEW x \in Windows PROVE Lingers(win[x], win'[x])
    <3>1. CASE x \in Of("editor")
      BY <1>1, <2>1, <3>1, PlacedLingers DEF Of, Live, GoodWindows
    <3>2. CASE x \notin Of("editor")
      BY <2>1, <3>2 DEF Lingers
    <3> QED
      BY <3>1, <3>2
  <2> QED
    BY <2>1, <2>2, AllLinger
<1>3. CASE ~(Of("editor") # {} /\ ~(p /\ ~kindBusy["editor"]))
  <2> DEFINE new == p \/ Resumed("editor") = 0
             closed == [w \in Windows |-> IF w \in Of("editor")
                          THEN Destroyed(win[w]) ELSE win[w]]
             m == Min(Of("editor"))
             u == Min(Unused)
             d0 == IF Of("editor") = {} THEN Disk ELSE SaveNow(Disk, win[m])
             id == IF new THEN Min(UnusedIds) ELSE Resumed("editor")
             d1 == IF new THEN NewEditorSession(d0, id, "edit") ELSE d0
             c  == Recovered("editor", d1.stored[id])
             e  == Persist(d1, id, c)
             r  == NewEditor(id, c)
  <2>1. /\ Unused # {} /\ (new => UnusedIds # {})
        /\ win' = [closed EXCEPT ![u] = r]
        /\ Written(e)
    BY <1>3 DEF OpenEditor
  <2>2. Writes(win, Disk, d0, "editor") /\ GoodDisk(d0) /\ DiskKinds(d0)
    <3>1. CASE Of("editor") = {}
      BY <1>1, <3>1, NothingWritten
    <3>2. CASE Of("editor") # {}
      <4>1. m \in Windows /\ Open(win[m]) /\ win[m].kind = "editor"
        BY <3>2, EditorOf DEF Kept
      <4>2. GoodWindow(win[m]) /\ Belongs(win[m], Disk)
            /\ (Calm(win, win[m].sess) => Backed(win[m], Disk))
        BY <1>1, <4>1 DEF GoodWindows, Holding
      <4>3. Writes(win, Disk, SaveNow(Disk, win[m]), "editor")
        BY <1>1, <4>1, <4>2, SaveWrites
      <4> QED
        BY <3>2, <4>3 DEF Writes
    <3> QED
      BY <3>1, <3>2
  <2>3. id \in Ids /\ Disk.stored[id].kind = IF new THEN "none" ELSE "editor"
    BY <1>1, <2>1, UnusedId, ResumedKind DEF Kept
  <2>4. new => d0.stored[id].kind = "none"
    <3>1. CASE Of("editor") = {}
      BY <2>3, <3>1
    <3>2. CASE Of("editor") # {}
      <4>1. m \in Windows /\ Open(win[m])
        BY <3>2, EditorOf DEF Kept
      <4> QED
        BY <1>1, <2>3, <3>2, <4>1, BlankStays
    <3> QED
      BY <3>1, <3>2
  <2>5. ~new => d0.stored[id].kind = "editor"
    BY <2>2, <2>3 DEF Writes
  <2> HIDE DEF d0, id, new
  <2>6. Writes(win, Disk, d1, "editor") /\ d1.stored[id].kind = "editor"
    BY <2>2, <2>3, <2>4, <2>5, NewSessionWrites, WritesOn
  <2> HIDE DEF d1
  <2>7. GoodConversation(c) /\ c.kind = "editor" /\ c.turns = d1.stored[id].turns
    BY <2>3, <2>6, RecoveredIs DEF Writes, GoodDisk
  <2> HIDE DEF c
  <2>8. GoodDisk(d1) /\ DiskKinds(d1) /\ c.kind \in Kept
    BY <2>6, <2>7 DEF Writes, Kept
  <2>15. Writes(win, d1, e, "editor")
    BY <2>3, <2>6, <2>7, <2>8, PersistWrites
  <2>16. e.stored[id] = c
    BY <2>3, <2>7, <2>8, PersistKeeps
  <2>9. Writes(win, d1, e, "editor") /\ e.stored[id] = c
    BY <2>15, <2>16
  <2>10. Writes(win, Disk, e, "editor")
    BY <2>6, <2>9, WritesOn
  <2> HIDE DEF e
  <2>11. /\ r.kind = "editor" /\ r.sess = id /\ r.turns = c.turns /\ Content(r) = c
         /\ r.st = "shown"
    BY <2>3, <2>7, NewWindowsAre
  <2> HIDE DEF r
  <2>12. Belongs(r, e) /\ Backed(r, e)
    BY <2>7, <2>9, <2>11 DEF Belongs, Backed
  <2>13. u \in Windows /\ win[u].st = "none" /\ win'[u] = r
    BY <2>1, Chosen
  <2> HIDE DEF u
  <2>14. ASSUME NEW x \in Windows, x # u
         PROVE  /\ \/ win'[x] = win[x]
                   \/ ~Open(win'[x]) /\ Belongs(win'[x], Disk) /\ win[x].st # "late"
                /\ Open(win'[x]) => win'[x].kind # "editor"
    <3>1. win'[x] = closed[x]
      BY <2>1, <2>14
    <3>2. CASE x \in Of("editor")
      <4>1. win'[x] = Destroyed(win[x]) /\ GoodWindow(win[x]) /\ Belongs(win[x], Disk)
            /\ win[x].st \in {"shown", "hidden"}
        BY <1>1, <3>1, <3>2 DEF GoodWindows, Holding, Of, Live
      <4>2. Belongs(win'[x], Disk) /\ ~Open(win'[x])
        BY <4>1, DestroyedIs DEF Belongs, Alive
      <4> QED
        BY <4>1, <4>2
    <3>3. CASE x \notin Of("editor")
      BY <3>1, <3>3 DEF Of, Live, Open
    <3> QED
      BY <3>2, <3>3
  <2> QED
    BY <2>1, <2>10, <2>11, <2>12, <2>13, <2>14, OneTakesOver DEF Kept
<1> QED
  BY <1>2, <1>3

\* Window w, the only one of its kind that is open, shows conversation id of e.
LEMMA OneShows ==
    ASSUME IInv, IInv', HInv, NEW w \in Windows, NEW e, NEW k \in Kept,
           Writes(win, Disk, e, k), Written(e), NEW r,
           win' = [win EXCEPT ![w] = r], win[w].st # "late",
           \A x \in Windows : x # w /\ Open(win[x]) => win[x].kind # k,
           r.kind = k, Belongs(r, e), Backed(r, e)
    PROVE  StillHolds
<1>1. win'[w] = r /\ \A x \in Windows : x # w => win'[x] = win[x]
  BY DEF IInv, GoodWindows
<1> QED
  BY <1>1, OneTakesOver

\* The window itself, and that it is alone.
LEMMA Alone ==
    ASSUME IInv, HInv, NEW w \in Windows, Open(win[w])
    PROVE  /\ GoodWindow(win[w]) /\ Belongs(win[w], Disk) /\ IsWindow(win[w])
           /\ Calm(win, win[w].sess) => Backed(win[w], Disk)
           /\ win[w].kind \in Kept /\ win[w].sess \in Ids /\ win[w].st # "late"
           /\ Disk.stored[win[w].sess].kind = win[w].kind
           /\ \A x \in Windows : x # w /\ Open(win[x]) => win[x].kind # win[w].kind
           /\ GoodDisk(Disk) /\ DiskKinds(Disk)
BY DEF IInv, HInv, Holding, GoodWindows, GoodWindow, Open, Belongs, Alive

LEMMA SavesOpen ==
    ASSUME IInv, HInv, NEW w \in Windows, Open(win[w])
    PROVE  LET d == SaveNow(Disk, win[w])
           IN  /\ Writes(win, Disk, d, win[w].kind) /\ GoodDisk(d) /\ DiskKinds(d)
               /\ d.stored[win[w].sess] = Content(win[w])
               /\ \A id \in Ids : Disk.stored[id].kind \in {"none", win[w].kind} =>
                      d.stored[id].kind = Disk.stored[id].kind
<1> DEFINE d == SaveNow(Disk, win[w])
           v == win[w]
<1>1. Writes(win, Disk, d, v.kind) /\ d.stored[v.sess] = Content(v)
  BY Alone, SaveWrites
<1>2. Content(v).kind = v.kind
  BY DEF Content
<1>3. ASSUME NEW id \in Ids, id # v.sess PROVE d.stored[id] = Disk.stored[id]
  BY <1>3, Alone DEF SaveNow, Persist, GoodDisk
<1> HIDE DEF d
<1> QED
  BY <1>1, <1>2, <1>3, Alone DEF Writes, d

LEMMA OpenChatHolds == ASSUME IInv, IInv', HInv, OpenChat PROVE StillHolds
<1>1. GoodDisk(Disk) /\ GoodWindows(win) /\ DiskKinds(Disk) /\ Holding(win, Disk)
  BY DEF IInv, HInv
<1>2. CASE Of("chat") # {}
  <2>1. win' = [w \in Windows |-> IF w \in Of("chat")
                  THEN [win[w] EXCEPT !.st = "shown"] ELSE win[w]] /\ UNCHANGED disk
    BY <1>2 DEF OpenChat
  <2>2. ASSUME NEW x \in Windows PROVE Lingers(win[x], win'[x])
    <3>1. CASE x \in Of("chat")
      BY <1>1, <2>1, <3>1, PlacedLingers DEF Of, Live, GoodWindows
    <3>2. CASE x \notin Of("chat")
      BY <2>1, <3>2 DEF Lingers
    <3> QED
      BY <3>1, <3>2
  <2> QED
    BY <2>1, <2>2, AllLinger
<1>3. CASE Of("chat") = {}
  <2> DEFINE new == Resumed("chat") = 0
             u == Min(Unused)
             id == IF new THEN Min(UnusedIds) ELSE Resumed("chat")
             d  == IF new THEN NewChatSession(Disk, id) ELSE Disk
             c  == Recovered("chat", d.stored[id])
             e  == Persist(d, id, c)
             r  == NewChatWindow(id, c)
  <2>1. /\ Unused # {} /\ (new => UnusedIds # {})
        /\ win' = [win EXCEPT ![u] = r]
        /\ Written(e)
    BY <1>3 DEF OpenChat
  <2>2. id \in Ids /\ Disk.stored[id].kind = IF new THEN "none" ELSE "chat"
    BY <1>1, <2>1, UnusedId, ResumedKind DEF Kept
  <2> HIDE DEF id, new
  <2>3. Writes(win, Disk, d, "chat") /\ d.stored[id].kind = "chat"
    BY <1>1, <2>2, NewSessionWrites, NothingWritten
  <2> HIDE DEF d
  <2>4. GoodConversation(c) /\ c.kind = "chat" /\ c.turns = d.stored[id].turns
    BY <2>2, <2>3, RecoveredIs DEF Writes, GoodDisk
  <2> HIDE DEF c
  <2>5. GoodDisk(d) /\ DiskKinds(d) /\ c.kind \in Kept
    BY <2>3, <2>4 DEF Writes, Kept
  <2>6. Writes(win, d, e, "chat") /\ e.stored[id] = c
    <3>1. d.stored[id].kind \in {"none", c.kind}
          /\ RepliesIn(d.stored[id].turns) \subseteq RepliesIn(c.turns)
      BY <2>3, <2>4
    <3>2. Writes(win, d, e, c.kind)
      BY <2>2, <2>4, <2>5, <3>1, PersistWrites
    <3>3. e.stored[id] = c
      BY <2>2, <2>4, <2>5, PersistKeeps
    <3> QED
      BY <2>4, <3>2, <3>3
  <2>7. Writes(win, Disk, e, "chat")
    BY <2>3, <2>6, WritesOn
  <2> HIDE DEF e
  <2>8. r.kind = "chat" /\ r.sess = id /\ r.turns = c.turns /\ Content(r) = c
    BY <2>2, <2>4, NewWindowsAre
  <2> HIDE DEF r
  <2>9. u \in Windows /\ win[u].st = "none"
    BY <2>1, Chosen
  <2> HIDE DEF u
  <2>10. \A x \in Windows : x # u /\ Open(win[x]) => win[x].kind # "chat"
    BY <1>3 DEF Of, Live, Open
  <2>11. Belongs(r, e) /\ Backed(r, e)
    BY <2>4, <2>6, <2>8 DEF Belongs, Backed
  <2> QED
    BY <2>1, <2>7, <2>8, <2>9, <2>10, <2>11, OneShows DEF Kept
<1> QED
  BY <1>2, <1>3

LEMMA OpenAuditHolds == ASSUME IInv, HInv, OpenAudit PROVE StillHolds
<1>1. ASSUME NEW x \in Windows PROVE Lingers(win[x], win'[x])
  <2>1. CASE x = Min(Unused)
    <3>1. win[x].st # "late"
      BY <2>1, Chosen DEF OpenAudit
    <3>2. win'[x] = NewAudit
      <4>1. x \notin Of("audit")
        BY <2>1, Chosen DEF OpenAudit, Of, Live
      <4> QED
        BY <2>1, <4>1 DEF OpenAudit
    <3>3. NewAudit.kind \notin Kept
      BY DEF NewAudit, NoWindow, Kept
    <3> QED
      BY <3>1, <3>2, <3>3, AuditLingers
  <2>2. CASE x # Min(Unused) /\ x \in Of("audit")
    <3>1. win'[x] = Destroyed(win[x]) /\ GoodWindow(win[x]) /\ win[x].kind = "audit"
          /\ win[x].st # "late"
      BY <2>2 DEF OpenAudit, IInv, GoodWindows, Of, Live
    <3> QED
      BY <3>1, DestroyedIs, AuditLingers DEF Kept
  <2>3. CASE x # Min(Unused) /\ x \notin Of("audit")
    <3>1. win'[x] = win[x]
      BY <2>3 DEF OpenAudit
    <3> QED
      BY <3>1 DEF Lingers
  <2> QED
    BY <2>1, <2>2, <2>3
<1> QED
  BY <1>1, AllLinger DEF OpenAudit

\* A window that is saved and keeps its conversation.
LEMMA SavedHolds ==
    ASSUME IInv, IInv', HInv, NEW w \in Windows, Open(win[w]),
           Written(SaveNow(Disk, win[w])), NEW r, win' = [win EXCEPT ![w] = r],
           r.kind = win[w].kind, r.sess = win[w].sess, Content(r) = Content(win[w])
    PROVE  StillHolds
<1> DEFINE e == SaveNow(Disk, win[w])
<1>1. /\ Writes(win, Disk, e, win[w].kind) /\ e.stored[win[w].sess] = Content(win[w])
  BY SavesOpen
<1>2. win[w].kind \in Kept /\ win[w].st # "late"
      /\ \A x \in Windows : x # w /\ Open(win[x]) => win[x].kind # win[w].kind
  BY Alone
<1>3. Content(r).kind = r.kind /\ Content(r).turns = r.turns
  BY DEF Content
<1> HIDE DEF e
<1>4. e.stored[r.sess] = Content(r) /\ Written(e)
  BY <1>1 DEF e
<1>5. Belongs(r, e) /\ Backed(r, e)
  BY <1>3, <1>4 DEF Belongs, Backed
<1> QED
  BY <1>1, <1>2, <1>4, <1>5, OneShows

LEMMA CloseHolds ==
    ASSUME IInv, IInv', HInv, NEW w \in Windows, Close(w) PROVE StillHolds
<1> DEFINE v == win[w]
           hid == [v EXCEPT !.st = "hidden", !.armed = FALSE]
           r == IF v.kind = "audit" THEN Destroyed(v) ELSE hid
<1>1. GoodWindow(v) /\ v.st = "shown" /\ Written(SaveNow(Disk, v)) /\ win' = [win EXCEPT ![w] = r]
  BY DEF IInv, GoodWindows, Close
<1>2. /\ hid.kind = v.kind /\ hid.sess = v.sess /\ hid.turns = v.turns /\ hid.mode = v.mode
      /\ hid.messages = v.messages /\ hid.draft = v.draft /\ hid.status = v.status
  BY <1>1 DEF GoodWindow, IsWindow, FieldNames
<1> HIDE DEF hid
<1>3. CASE v.kind \in Kept
  <2>1. Open(v) /\ r.kind = v.kind /\ r.sess = v.sess /\ Content(r) = Content(v)
    BY <1>1, <1>2, <1>3 DEF Open, Content, Kept
  <2> HIDE DEF r
  <2> QED
    BY <1>1, <2>1, SavedHolds
<1>4. CASE v.kind \notin Kept
  <2>1. UNCHANGED disk
    BY <1>1, <1>4 DEF SaveNow, Written, Disk, disk
  <2>2. r.kind \notin Kept
    BY <1>1, <1>2, <1>4, DestroyedIs
  <2> HIDE DEF r
  <2> QED
    BY <1>1, <2>1, <2>2, AuditLingers, OneLingers
<1> QED
  BY <1>3, <1>4

LEMMA TimerHolds ==
    ASSUME IInv, IInv', HInv, NEW w \in Windows, Timer(w) PROVE StillHolds
<1> DEFINE v == win[w]
           r == [v EXCEPT !.armed = FALSE]
<1>1. GoodWindow(v) /\ v.st \in {"shown", "hidden"} /\ Written(SaveNow(Disk, v))
      /\ win' = [win EXCEPT ![w] = r]
  BY DEF IInv, GoodWindows, Timer, Live
<1>2. /\ r.kind = v.kind /\ r.sess = v.sess /\ r.turns = v.turns /\ r.mode = v.mode
      /\ r.messages = v.messages /\ r.draft = v.draft /\ r.status = v.status
  BY <1>1 DEF GoodWindow, IsWindow, FieldNames
<1> HIDE DEF r
<1>3. CASE v.kind \in Kept
  <2>1. Open(v) /\ Content(r) = Content(v)
    BY <1>1, <1>2, <1>3 DEF Open, Content
  <2> QED
    BY <1>1, <1>2, <2>1, SavedHolds
<1>4. CASE v.kind \notin Kept
  <2>1. UNCHANGED disk
    BY <1>1, <1>4 DEF SaveNow, Written, Disk, disk
  <2> QED
    BY <1>1, <1>2, <1>4, <2>1, AuditLingers, OneLingers
<1> QED
  BY <1>3, <1>4

LEMMA TypeHolds == ASSUME IInv, HInv, NEW w \in Windows, Type(w) PROVE StillHolds
<1> DEFINE v == win[w]
           r == [v EXCEPT !.draft = typed + 1, !.armed = v.kind \in Kept]
<1>1. GoodWindow(v) /\ win' = [win EXCEPT ![w] = r] /\ UNCHANGED disk
  BY DEF IInv, GoodWindows, Type
<1>2. r.kind = v.kind /\ r.sess = v.sess /\ r.turns = v.turns /\ r.st = v.st
  BY <1>1 DEF GoodWindow, IsWindow, FieldNames
<1>3. v.kind \in Kept => r.armed
  BY <1>1 DEF GoodWindow, IsWindow, FieldNames
<1> HIDE DEF r
<1>4. Lingers(v, r)
  BY <1>2, <1>3, ArmedLingers
<1> QED
  BY <1>1, <1>4, OneLingers

LEMMA UseReplyHolds ==
    ASSUME IInv, HInv, NEW w \in Windows, UseReply(w) PROVE StillHolds
<1> DEFINE v == win[w]
           r == [v EXCEPT !.status = "success", !.armed = TRUE]
<1>1. GoodWindow(v) /\ win' = [win EXCEPT ![w] = r] /\ UNCHANGED disk
  BY DEF IInv, GoodWindows, UseReply
<1>2. /\ r.kind = v.kind /\ r.sess = v.sess /\ r.turns = v.turns /\ r.st = v.st
      /\ r.armed
  BY <1>1 DEF GoodWindow, IsWindow, FieldNames
<1> HIDE DEF r
<1>3. Lingers(v, r)
  BY <1>2, ArmedLingers
<1> QED
  BY <1>1, <1>3, OneLingers

\* What window v may become when it shows conversation id.
Shown(v, id, c) == {Shows(v, id, c), [Shows(v, id, c) EXCEPT !.armed = TRUE]}

\* A window that may switch saves its conversation and shows another one.
LEMMA SwitchHolds ==
    ASSUME IInv, IInv', HInv, NEW w \in Windows, MaySwitch(w), NEW e, NEW id,
           Writes(win, Disk, e, win[w].kind), Written(e),
           GoodConversation(e.stored[id]), e.stored[id].kind = win[w].kind,
           NEW r, win' = [win EXCEPT ![w] = r],
           r \in Shown(win[w], id, e.stored[id])
    PROVE  StillHolds
<1> DEFINE v == win[w]
           c == e.stored[id]
           s == Shows(v, id, c)
           t == [s EXCEPT !.armed = TRUE]
<1>1. Open(v)
  BY DEF MaySwitch, Open
<1>2. v.kind \in Kept /\ v.st # "late" /\ IsWindow(v)
      /\ \A x \in Windows : x # w /\ Open(win[x]) => win[x].kind # v.kind
  BY <1>1, Alone
<1>3. s.kind = v.kind /\ s.sess = id /\ s.turns = c.turns /\ Content(s) = c
  BY <1>2, ShowsHolds
<1>4. t.kind = s.kind /\ t.sess = s.sess /\ t.turns = s.turns /\ t.armed
  BY <1>2 DEF IsWindow, FieldNames, Shows
<1>5. r = s \/ r = t
  BY DEF Shown
<1> HIDE DEF s, t
<1>6. r.kind = v.kind /\ r.sess = id /\ r.turns = c.turns /\ (~r.armed => Content(r) = c)
  BY <1>3, <1>4, <1>5
<1>7. Belongs(r, e) /\ Backed(r, e)
  BY <1>6 DEF Belongs, Backed
<1> QED
  BY <1>2, <1>6, <1>7, OneShows

\* An unused id stays unused while a window is saved.
LEMMA SavedThenNew ==
    ASSUME IInv, HInv, NEW w \in Windows, MaySwitch(w), UnusedIds # {}
    PROVE  LET d  == SaveNow(Disk, win[w])
               id == Min(UnusedIds)
           IN  /\ Writes(win, Disk, d, win[w].kind) /\ GoodDisk(d) /\ DiskKinds(d)
               /\ id \in Ids /\ d.stored[id].kind = "none"
               /\ win[w].kind \in Kept
<1> DEFINE d  == SaveNow(Disk, win[w])
           id == Min(UnusedIds)
<1>1. Open(win[w])
  BY DEF MaySwitch, Open
<1>2. /\ Writes(win, Disk, d, win[w].kind) /\ GoodDisk(d) /\ DiskKinds(d)
      /\ \A x \in Ids : Disk.stored[x].kind \in {"none", win[w].kind} =>
              d.stored[x].kind = Disk.stored[x].kind
  BY <1>1, SavesOpen
<1>3. id \in Ids /\ Disk.stored[id].kind = "none"
  BY UnusedId
<1> HIDE DEF d, id
<1>4. d.stored[id].kind = "none"
  BY <1>2, <1>3
<1> QED
  BY <1>1, <1>2, <1>3, <1>4 DEF d, id, Open

LEMMA NewChatHolds ==
    ASSUME IInv, IInv', HInv, NEW w \in Windows, NewChat(w) PROVE StillHolds
<1> DEFINE id == Min(UnusedIds)
           k  == win[w].kind
           d0 == SaveNow(Disk, win[w])
           e  == IF k = "editor" THEN NewEditorSession(d0, id, win[w].mode)
                 ELSE NewChatSession(d0, id)
           s  == Shows(win[w], id, e.stored[id])
           r  == [s EXCEPT !.armed = TRUE]
<1>1. MaySwitch(w) /\ Written(e) /\ win' = [win EXCEPT ![w] = r] /\ UnusedIds # {}
  BY DEF NewChat, IInv, GoodWindows
<1>2. /\ Writes(win, Disk, d0, k) /\ GoodDisk(d0) /\ DiskKinds(d0)
      /\ id \in Ids /\ d0.stored[id].kind = "none" /\ k \in {"editor", "chat"}
  BY <1>1, SavedThenNew DEF Kept
<1> HIDE DEF d0, id
<1>3. Writes(win, d0, e, k) /\ e.stored[id].kind = k
  BY <1>2, NewSessionWrites
<1>4. Writes(win, Disk, e, k)
  BY <1>2, <1>3, WritesOn
<1> HIDE DEF e
<1>5. GoodConversation(e.stored[id])
  BY <1>2, <1>4 DEF Writes, GoodDisk
<1>6. r \in Shown(win[w], id, e.stored[id])
  BY DEF Shown
<1> HIDE DEF r
<1> QED
  BY <1>1, <1>3, <1>4, <1>5, <1>6, SwitchHolds

LEMMA SelectModeHolds ==
    ASSUME IInv, IInv', HInv, NEW w \in Windows, SelectMode(w) PROVE StillHolds
<1> DEFINE id == Min(UnusedIds)
           m  == CHOOSE x \in Modes : x # win[w].mode
           d0 == SaveNow(Disk, win[w])
           e  == NewEditorSession(d0, id, m)
           s  == Shows(win[w], id, e.stored[id])
           r  == [s EXCEPT !.armed = TRUE]
<1>1. MaySwitch(w) /\ win[w].kind = "editor" /\ Written(e) /\ win' = [win EXCEPT ![w] = r]
      /\ UnusedIds # {}
  BY DEF SelectMode, IInv, GoodWindows
<1>2. /\ Writes(win, Disk, d0, "editor") /\ GoodDisk(d0) /\ DiskKinds(d0)
      /\ id \in Ids /\ d0.stored[id].kind = "none"
  BY <1>1, SavedThenNew
<1> HIDE DEF d0, id, m
<1>3. Writes(win, d0, e, "editor") /\ e.stored[id].kind = "editor"
  BY <1>2, NewSessionWrites
<1>4. Writes(win, Disk, e, "editor")
  BY <1>2, <1>3, WritesOn
<1> HIDE DEF e
<1>5. GoodConversation(e.stored[id])
  BY <1>2, <1>4 DEF Writes, GoodDisk
<1>6. r \in Shown(win[w], id, e.stored[id])
  BY DEF Shown
<1> HIDE DEF r
<1> QED
  BY <1>1, <1>3, <1>4, <1>5, <1>6, SwitchHolds

LEMMA LoadSessionHolds ==
    ASSUME IInv, IInv', HInv, NEW w \in Windows, NEW id \in Ids, LoadSession(w, id)
    PROVE  StillHolds
<1> DEFINE k == win[w].kind
           d == SaveNow(Disk, win[w])
           c == d.stored[id]
           a == [d EXCEPT !.active = [d.active EXCEPT !["editor"] = id]]
           e == IF k = "chat" THEN Persist(d, id, c) ELSE a
           r == Shows(win[w], id, c)
<1>1. MaySwitch(w) /\ Written(e) /\ win' = [win EXCEPT ![w] = r] /\ id \in Range(index[k])
  BY DEF LoadSession, Listed, IInv, GoodWindows
<1>2. Open(win[w]) /\ k \in Kept
  BY <1>1 DEF MaySwitch, Open
<1>3. Disk.stored[id].kind = k /\ Disk.index = index
  BY <1>1, <1>2 DEF HInv, DiskKinds, Disk
<1>4. /\ Writes(win, Disk, d, k) /\ GoodDisk(d) /\ DiskKinds(d)
      /\ d.stored[id].kind = k
  BY <1>2, <1>3, SavesOpen
<1> HIDE DEF d
<1>5. GoodConversation(c) /\ c.kind = k
  BY <1>4 DEF GoodDisk
<1>6. CASE k = "chat"
  <2>1. d.stored[id].kind \in {"none", c.kind} /\ c.kind \in Kept
        /\ RepliesIn(d.stored[id].turns) \subseteq RepliesIn(c.turns)
    BY <1>2, <1>5
  <2>2. Writes(win, d, Persist(d, id, c), c.kind)
    BY <1>4, <1>5, <2>1, PersistWrites
  <2>3. Persist(d, id, c).stored[id] = c
    BY <1>4, <1>5, PersistKeeps
  <2>4. Writes(win, Disk, e, k) /\ e.stored[id] = c
    BY <1>4, <1>5, <1>6, <2>2, <2>3, WritesOn
  <2>5. r \in Shown(win[w], id, c)
    BY DEF Shown
  <2> HIDE DEF e, r
  <2> QED
    BY <1>1, <1>5, <2>4, <2>5, SwitchHolds
<1>7. CASE k # "chat"
  <2>1. k = "editor"
    BY <1>2, <1>7 DEF Kept
  <2>2. /\ a = [stored |-> a.stored, index |-> a.index, active |-> a.active]
        /\ a.stored = d.stored /\ a.index = d.index
        /\ a.active = [d.active EXCEPT !["editor"] = id]
    BY <1>4 DEF GoodDisk
  <2>3. /\ a.active \in [Kept -> Ids \cup {0}]
        /\ \A x \in Kept : a.active[x] = IF x = "editor" THEN id ELSE d.active[x]
    BY <1>4, <2>2 DEF GoodDisk
  <2>4. id # 0
    BY DEF Ids
  <2>5. e = a
    BY <1>7
  <2> HIDE DEF a, e
  <2>6. GoodDisk(a)
    BY <1>4, <2>2, <2>3, <2>4 DEF GoodDisk
  <2>7. DiskKinds(a)
    BY <1>4, <2>1, <2>2, <2>3 DEF DiskKinds
  <2>8. Writes(win, Disk, a, k)
    BY <1>4, <2>2, <2>6, <2>7 DEF Writes
  <2>9. a.stored[id] = c
    BY <2>2
  <2>10. r \in Shown(win[w], id, c)
    BY DEF Shown
  <2> HIDE DEF r
  <2> QED
    BY <1>1, <1>5, <2>5, <2>8, <2>9, <2>10, SwitchHolds
<1> QED
  BY <1>6, <1>7

\* Asking arms the save timer of a stored window.
LEMMA AsksLingers ==
    ASSUME NEW v, GoodWindow(v), v.st = "shown", v.draft # 0, NEW ms, NEW size
    PROVE  Lingers(v, Asks(v, ms, v.turns, size))
<1> DEFINE u == Asks(v, ms, v.turns, size)
           q == [role |-> "user", n |-> v.draft]
<1>1. /\ u.kind = v.kind /\ u.sess = v.sess /\ u.st = v.st
      /\ u.turns = Append(v.turns, q) /\ (v.kind \in Kept => u.armed)
  BY DEF GoodWindow, IsWindow, FieldNames, Asks
<1>2. q \in Turn
  BY ChatBounds DEF GoodWindow, Drafts, Requests, Turn
<1>3. v.turns \in Seq(Turn)
  BY DEF GoodWindow
<1> HIDE DEF u, q
<1>4. v.kind \in Kept => RepliesIn(v.turns) \subseteq RepliesIn(u.turns)
  BY <1>1, <1>2, <1>3, JoiningKeepsReplies
<1>5. Lingers(v, u)
  BY <1>1, <1>4, ArmedLingers
<1> QED
  BY <1>5 DEF u

LEMMA SubmitHolds == ASSUME IInv, HInv, NEW w \in Windows, Submit(w) PROVE StillHolds
<1> DEFINE v == win[w]
           r(s) == CASE v.kind = "editor" -> EditorAsks(v, s)
                     [] v.kind = "chat"   -> ChatAsks(v, s)
                     [] OTHER             -> AuditAsks(v, s)
<1>1. GoodWindow(v) /\ v.st = "shown" /\ v.draft # 0 /\ UNCHANGED disk
  BY DEF IInv, GoodWindows, Submit
<1>2. PICK s : win' = [win EXCEPT ![w] = r(s)]
  BY DEF Submit
<1>3. /\ v.kind = "editor" => Lingers(v, EditorAsks(v, s))
      /\ v.kind = "chat" => Lingers(v, ChatAsks(v, s))
      /\ v.kind \notin Kept => Lingers(v, AuditAsks(v, s))
  <2> HIDE DEF v
  <2>1. AuditAsks(v, s).kind = v.kind /\ AuditAsks(v, s).st = v.st /\ AuditAsks(v, s).sess = v.sess
    BY <1>1 DEF AuditAsks, GoodWindow, IsWindow, FieldNames
  <2>2. v.kind \notin Kept => Lingers(v, AuditAsks(v, s))
    BY <2>1 DEF Lingers, Open
  <2> QED
    BY <1>1, <2>2, AsksLingers DEF EditorAsks, ChatAsks
<1>4. Lingers(v, r(s))
  BY <1>3 DEF Kept
<1> HIDE DEF r, v
<1> QED
  BY <1>1, <1>2, <1>4, OneLingers DEF v

LEMMA AdvanceHolds ==
    ASSUME IInv, HInv, NEW w \in Windows, NEW x, win' = [win EXCEPT ![w].pc = x], UNCHANGED disk
    PROVE  StillHolds
<1> DEFINE r == [win[w] EXCEPT !.pc = x]
<1>1. Lingers(win[w], r)
  BY AdvancedLingers DEF IInv, GoodWindows
<1>2. win' = [win EXCEPT ![w] = r]
  BY DEF IInv, GoodWindows
<1> HIDE DEF r
<1> QED
  BY <1>1, <1>2, OneLingers

\* A request that ends saves what its window holds then.  Another open window
\* of its kind shows another conversation, or one of an earlier run's.
LEMMA SettleHolds ==
    ASSUME IInv, IInv', HInv, NEW w \in Windows, win[w].pc # "idle", NEW v, Settle(w, v),
           IsWindow(v), v.turns \in Seq(Turn), KeepsOrder(v), v.draft \in Drafts,
           v.messages \in Seq(Message),
           v.kind = win[w].kind, v.sess = win[w].sess, v.st = win[w].st,
           v.kind \in Kept => RepliesIn(win[w].turns) \subseteq RepliesIn(v.turns)
    PROVE  StillHolds
<1> DEFINE u == Freed(v)
           e == SaveNow(Disk, u)
           s == win[w].sess
           k == win[w].kind
<1>1. GoodDisk(Disk) /\ GoodWindows(win) /\ DiskKinds(Disk) /\ Holding(win, Disk)
  BY DEF IInv, HInv
<1>2. win' = [win EXCEPT ![w] = u] /\ Written(e)
  BY DEF Settle, Freed
<1>3. GoodWindow(win[w]) /\ win[w].st \in Alive /\ (k \in Kept => s \in Ids)
  BY <1>1 DEF GoodWindows, GoodWindow
<1>4. GoodWindow(u)
  BY <1>3, FreedGood DEF GoodWindow
<1>5. /\ u.kind = k /\ u.sess = s /\ u.turns = v.turns /\ u.st = win[w].st
  BY DEF IsWindow, FieldNames, Freed
<1> HIDE DEF u
<1>6. CASE k \notin Kept
  <2>1. UNCHANGED disk
    BY <1>2, <1>5, <1>6 DEF SaveNow, Written, Disk, disk
  <2>2. Lingers(win[w], u)
    BY <1>5, <1>6 DEF Lingers, Open
  <2> QED
    BY <1>2, <2>1, <2>2, OneLingers
<1>7. CASE k \in Kept
  <2>1. e = Persist(Disk, s, Content(u)) /\ GoodConversation(Content(u))
        /\ Content(u).kind = k /\ Content(u).turns = u.turns
    BY <1>4, <1>5, <1>7, ContentGood DEF SaveNow, Content
  <2>2. s \in Ids /\ Disk.stored[s].kind = k
    BY <1>1, <1>3, <1>7 DEF Holding, Belongs
  <2>3. Calm(win, s) => RepliesIn(Disk.stored[s].turns) \subseteq RepliesIn(Content(u).turns)
    <3>1. CASE win[w].st = "late"
      BY <3>1 DEF Calm
    <3>2. CASE win[w].st # "late"
      <4>1. Open(win[w])
        BY <1>3, <1>7, <3>2 DEF Alive, Open
      <4>2. Calm(win, s) => Backed(win[w], Disk)
        BY <1>1, <4>1 DEF Holding
      <4> QED
        BY <1>5, <1>7, <2>1, <4>2 DEF Backed
    <3> QED
      BY <3>1, <3>2
  <2>4. Content(u).kind \in Kept /\ Disk.stored[s].kind \in {"none", Content(u).kind}
    BY <1>7, <2>1, <2>2
  <2>5. Writes(win, Disk, e, k) /\ e.stored[s] = Content(u)
    <3>1. Writes(win, Disk, Persist(Disk, s, Content(u)), Content(u).kind)
      BY <1>1, <2>1, <2>2, <2>3, <2>4, PersistWrites
    <3>2. Persist(Disk, s, Content(u)).stored[s] = Content(u)
      BY <1>1, <2>1, <2>2, PersistKeeps
    <3> QED
      BY <2>1, <3>1, <3>2
  <2>6. \A id \in Ids : id # s => e.stored[id] = Disk.stored[id]
    BY <1>1, <2>1, <2>2 DEF Persist, GoodDisk
  <2> HIDE DEF e
  <2>7. GoodDisk(e) /\ DiskKinds(e) /\ Disk' = e /\ stored' = e.stored /\ Disk.stored = stored
    BY <1>2, <2>5, WrittenIs DEF Writes, Written, Disk
  <2>8. win'[w] = u /\ \A x \in Windows : x # w => win'[x] = win[x]
    BY <1>1, <1>2 DEF GoodWindows
  <2>9. \A id : Calm(win', id) => Calm(win, id)
    <3>1. \A x \in Windows : win'[x].st = win[x].st /\ win'[x].sess = win[x].sess
                            /\ win'[x].kind = win[x].kind
      BY <1>5, <2>8
    <3> QED
      BY <3>1 DEF Calm
  <2>10. \A x, y \in Windows : Open(win'[x]) /\ Open(win'[y]) /\ win'[x].kind = win'[y].kind => x = y
    <3>1. \A x \in Windows : win'[x].st = win[x].st /\ win'[x].kind = win[x].kind
      BY <1>5, <2>8
    <3> QED
      BY <1>1, <3>1 DEF Holding, Open
  <2>11. ASSUME NEW x \in Windows PROVE Belongs(win'[x], e)
    <3>1. GoodWindow(win'[x])
      BY DEF IInv, GoodWindows
    <3>2. Belongs(win'[x], Disk)
      BY <1>1, <1>5, <2>8 DEF Holding, Belongs
    <3> QED
      BY <2>5, <3>1, <3>2, StillBelongs
  <2>12. ASSUME NEW x \in Windows, Open(win'[x]), Calm(win', win'[x].sess)
         PROVE  Backed(win'[x], e)
    <3>1. CASE x = w
      BY <1>5, <2>1, <2>5, <2>8, <3>1 DEF Backed
    <3>2. CASE x # w
      <4>1. win'[x] = win[x] /\ Open(win[x]) /\ Calm(win, win[x].sess)
        BY <2>8, <2>9, <2>12, <3>2
      <4>2. Backed(win[x], Disk) /\ Belongs(win[x], Disk) /\ win[x].sess \in Ids
        BY <1>1, <4>1 DEF Holding, GoodWindows, GoodWindow, Open, Alive
      <4>3. win[x].sess # s
        <5>1. CASE win[w].st = "late"
          BY <4>1, <5>1 DEF Calm
        <5>2. CASE win[w].st # "late"
          <6>1. Open(win[w])
            BY <1>3, <1>7, <5>2 DEF Alive, Open
          <6>2. win[x].kind # k
            BY <1>1, <3>2, <4>1, <6>1 DEF Holding
          <6>3. Disk.stored[win[x].sess].kind = win[x].kind
            BY <4>1, <4>2 DEF Belongs, Open, Alive
          <6> QED
            BY <2>2, <6>2, <6>3
        <5> QED
          BY <5>1, <5>2
      <4> QED
        BY <2>6, <4>1, <4>2, <4>3 DEF Backed
    <3> QED
      BY <3>1, <3>2
  <2>13. Holding(win', e)
    BY <2>10, <2>11, <2>12 DEF Holding
  <2>14. \A id \in Ids : Calm(win, id) =>
            RepliesIn(stored[id].turns) \subseteq RepliesIn(stored'[id].turns)
    BY <2>5, <2>7 DEF Writes
  <2> QED
    BY <2>7, <2>13, <2>14 DEF StillHolds, HInv
<1> QED
  BY <1>6, <1>7

LEMMA ReplyHolds ==
    ASSUME IInv, IInv', HInv, NEW w \in Windows, Reply(w) PROVE StillHolds
<1>1. GoodWindow(win[w]) /\ win[w].pc # "idle"
  BY DEF IInv, GoodWindows, Reply
<1>2. PICK s \in ReplySizes : Settle(w, Replied(win[w], s))
  BY DEF Reply
<1>8. s \in Nat
  BY ChatBounds
<1> DEFINE r == Replied(win[w], s)
           a == [role |-> "assistant", n |-> win[w].asked]
<1>3. /\ r.kind = win[w].kind /\ r.sess = win[w].sess /\ r.st = win[w].st
      /\ r.kind \in Kept => r.turns = Append(win[w].turns, a)
  BY <1>1 DEF GoodWindow, IsWindow, FieldNames, Replied, Kept
<1>4. /\ IsWindow(r) /\ r.turns \in Seq(Turn) /\ KeepsOrder(r) /\ r.draft \in Drafts
      /\ r.messages \in Seq(Message)
  BY <1>1, <1>8, RepliedGood
<1>5. a \in Turn /\ win[w].turns \in Seq(Turn)
  BY <1>1 DEF GoodWindow, EndsWithQuestion, Turn
<1> HIDE DEF r, a
<1>6. r.kind \in Kept => RepliesIn(win[w].turns) \subseteq RepliesIn(r.turns)
  BY <1>3, <1>5, JoiningKeepsReplies
<1>7. Settle(w, r)
  BY <1>2 DEF r
<1> QED
  BY <1>1, <1>3, <1>4, <1>6, <1>7, SettleHolds

LEMMA FailHolds ==
    ASSUME IInv, IInv', HInv, NEW w \in Windows, Fail(w) PROVE StillHolds
<1>1. GoodWindow(win[w]) /\ win[w].pc # "idle"
  BY DEF IInv, GoodWindows, Fail, Busy
<1>2. PICK s : Settle(w, Withdrawn(win[w], s))
  BY DEF Fail
<1> DEFINE v == win[w]
           r == Withdrawn(v, s)
           b == [v EXCEPT !.messages = Front(v.messages), !.asked = 0, !.status = s]
           c == [b EXCEPT !.turns = Front(b.turns), !.draft = v.asked]
<1>3. r = IF v.kind = "chat" THEN c ELSE b
  BY DEF Withdrawn
<1>4. IsWindow(b) /\ b.kind = v.kind /\ b.sess = v.sess /\ b.st = v.st /\ b.turns = v.turns
  BY <1>1 DEF GoodWindow, IsWindow, FieldNames
<1> HIDE DEF b
<1>5. c.kind = b.kind /\ c.sess = b.sess /\ c.st = b.st /\ c.turns = Front(b.turns)
  BY <1>4 DEF IsWindow, FieldNames
<1> HIDE DEF c
<1>6. v.kind = "chat" => RepliesIn(v.turns) \subseteq RepliesIn(Front(v.turns))
  BY <1>1, QuestionsAreNoReplies DEF GoodWindow, EndsWithQuestion, Kept
<1>7. /\ r.kind = v.kind /\ r.sess = v.sess /\ r.st = v.st
      /\ RepliesIn(v.turns) \subseteq RepliesIn(r.turns)
  BY <1>3, <1>4, <1>5, <1>6
<1>8. /\ IsWindow(r) /\ r.turns \in Seq(Turn) /\ KeepsOrder(r) /\ r.draft \in Drafts
      /\ r.messages \in Seq(Message)
  BY <1>1, WithdrawnGood
<1>9. Settle(w, r)
  BY <1>2
<1> HIDE DEF r
<1> QED
  BY <1>1, <1>7, <1>8, <1>9, SettleHolds

\* The plugin or Discord ends: no window is open, and what was open was saved
\* or is lost.
LEMMA AllClosed ==
    ASSUME IInv', HInv, NEW e, Disk' = e, GoodDisk(e), DiskKinds(e),
           \A id \in Ids : Calm(win, id) =>
               RepliesIn(Disk.stored[id].turns) \subseteq RepliesIn(e.stored[id].turns),
           \A x \in Windows : ~Open(win'[x]) /\ Belongs(win'[x], e)
    PROVE  StillHolds
<1>1. Holding(win', e)
  BY DEF Holding
<1>2. stored = Disk.stored /\ stored' = Disk'.stored
  BY DEF Disk
<1> QED
  BY <1>1, <1>2 DEF StillHolds, HInv

LEMMA StopHolds == ASSUME IInv, IInv', HInv, Stop PROVE StillHolds
<1> DEFINE we == Min(Of("editor"))
           wc == Min(Of("chat"))
           d0 == IF Of("editor") = {} THEN Disk ELSE SaveNow(Disk, win[we])
           e  == IF Of("chat") = {} THEN d0 ELSE SaveNow(d0, win[wc])
<1>1. GoodDisk(Disk) /\ GoodWindows(win) /\ DiskKinds(Disk) /\ Holding(win, Disk) /\ Written(e)
  BY DEF IInv, HInv, Stop
<1>2. Writes(win, Disk, d0, "editor")
  <2>1. CASE Of("editor") = {}
    BY <1>1, <2>1, NothingWritten
  <2>2. CASE Of("editor") # {}
    <3>1. we \in Windows /\ Open(win[we]) /\ win[we].kind = "editor"
      BY <2>2, EditorOf DEF Kept
    <3>2. Writes(win, Disk, SaveNow(Disk, win[we]), "editor")
      BY <3>1, SavesOpen
    <3> QED
      BY <2>2, <3>2
  <2> QED
    BY <2>1, <2>2
<1> HIDE DEF d0
<1>3. GoodDisk(d0) /\ DiskKinds(d0) /\ \A x \in Windows : Belongs(win[x], d0)
  <2>1. \A x \in Windows : GoodWindow(win[x]) /\ Belongs(win[x], Disk)
    BY <1>1 DEF Holding, GoodWindows
  <2>2. \A x \in Windows : Belongs(win[x], d0)
    BY <1>2, <2>1, StillBelongs
  <2> QED
    BY <1>2, <2>2 DEF Writes
<1>4. Writes(win, d0, e, "chat")
  <2>1. CASE Of("chat") = {}
    BY <1>3, <2>1, NothingWritten
  <2>2. CASE Of("chat") # {}
    <3>1. wc \in Windows /\ Open(win[wc]) /\ win[wc].kind = "chat"
      BY <2>2, EditorOf DEF Kept
    <3>2. GoodWindow(win[wc]) /\ Belongs(win[wc], d0) /\ win[wc].sess \in Ids
          /\ Disk.stored[win[wc].sess].kind = "chat"
          /\ (Calm(win, win[wc].sess) => Backed(win[wc], Disk))
      BY <1>3, <3>1, Alone
    <3>3. d0.stored[win[wc].sess] = Disk.stored[win[wc].sess]
      BY <1>2, <3>2 DEF Writes
    <3>4. Calm(win, win[wc].sess) => Backed(win[wc], d0)
      BY <3>2, <3>3 DEF Backed
    <3>5. Writes(win, d0, SaveNow(d0, win[wc]), "chat")
      BY <1>3, <3>1, <3>2, <3>4, SaveWrites
    <3> QED
      BY <2>2, <3>5
  <2> QED
    BY <2>1, <2>2
<1> HIDE DEF e
<1>5. GoodDisk(e) /\ DiskKinds(e) /\ Disk' = e
  BY <1>1, <1>4, WrittenIs DEF Writes
<1>6. \A id \in Ids : Calm(win, id) =>
           RepliesIn(Disk.stored[id].turns) \subseteq RepliesIn(e.stored[id].turns)
  BY <1>2, <1>4 DEF Writes
<1>7. ASSUME NEW x \in Windows PROVE ~Open(win'[x]) /\ Belongs(win'[x], e)
  <2>1. GoodWindow(win[x]) /\ GoodWindow(win'[x])
    BY DEF IInv, GoodWindows
  <2>2. Belongs(win[x], e)
    BY <1>3, <1>4, <2>1, StillBelongs
  <2>3. CASE Live(x)
    <3>1. win'[x] = Destroyed(win[x]) /\ win[x].st \in Alive
      BY <2>3 DEF Stop, Live, Alive
    <3> QED
      BY <2>1, <2>2, <3>1, DestroyedIs DEF Belongs
  <2>4. CASE ~Live(x)
    BY <2>2, <2>4 DEF Stop, Live, Open
  <2> QED
    BY <2>3, <2>4
<1> QED
  BY <1>5, <1>6, <1>7, AllClosed

LEMMA CrashHolds == ASSUME IInv, IInv', HInv, Crash PROVE StillHolds
<1>1. GoodDisk(Disk) /\ DiskKinds(Disk) /\ Disk' = Disk
  BY DEF IInv, HInv, Crash, disk, Disk
<1>2. ASSUME NEW x \in Windows PROVE win'[x].st \in {"none", "gone"}
  <2>1. CASE win[x].st = "none"
    BY <2>1 DEF Crash
  <2>2. CASE win[x].st # "none"
    <3> DEFINE s == [NoWindow EXCEPT !.kind = win[x].kind, !.st = "gone"]
    <3>1. win'[x] = s
      BY <2>2 DEF Crash
    <3>2. s.st = "gone"
      BY DEF NoWindow
    <3> QED
      BY <3>1, <3>2
  <2> QED
    BY <2>1, <2>2
<1>3. \A x \in Windows : ~Open(win'[x]) /\ Belongs(win'[x], Disk)
  BY <1>2 DEF Open, Belongs, Alive
<1> QED
  BY <1>1, <1>3, AllClosed

LEMMA InitHolds == Init => HInv
<1> SUFFICES ASSUME Init PROVE HInv
  OBVIOUS
<1>1. Fresh.kind = "none" /\ Fresh.turns = <<>> /\ NoWindow.st = "none"
  BY DEF Fresh, NoWindow
<1>2. <<>> \in Seq(Ids) /\ Range(<<>>) = {}
  BY DEF Range
<1>3. DiskKinds(Disk)
  BY <1>1, <1>2 DEF Init, DiskKinds, Disk
<1>4. Holding(win, Disk)
  BY <1>1 DEF Init, Holding, Open, Belongs, Alive
<1> QED
  BY <1>3, <1>4 DEF HInv

LEMMA NextHolds == IInv /\ HInv /\ [Next]_vars => StillHolds
<1> SUFFICES ASSUME IInv, HInv, [Next]_vars PROVE StillHolds
  OBVIOUS
<1>1. IInv'
  BY NextInv
<1>2. ASSUME NEW w \in Windows, AccessGranted(w) PROVE StillHolds
  BY <1>2, AdvanceHolds DEF AccessGranted
<1>3. ASSUME NEW w \in Windows, Posted(w) PROVE StillHolds
  BY <1>3, AdvanceHolds DEF Posted
<1>4. ASSUME NEW n \in Requests, JobEnds(n) PROVE StillHolds
  BY <1>4, NobodyMoves DEF JobEnds
<1>5. CASE Start
  BY <1>5, NobodyMoves DEF Start
<1>6. CASE UNCHANGED vars
  BY <1>6, NobodyMoves DEF vars
<1> QED
  BY <1>1, <1>2, <1>3, <1>4, <1>5, <1>6, OpenEditorHolds, OpenChatHolds, OpenAuditHolds,
     CloseHolds, TimerHolds, TypeHolds, UseReplyHolds, NewChatHolds, SelectModeHolds, LoadSessionHolds,
     SubmitHolds, ReplyHolds, FailHolds, StopHolds, CrashHolds DEF Next

-----------------------------------------------------------------------------
(***************************************************************************)
(* The theorems                                                            *)
(***************************************************************************)

\* What windows and data file hold is sound.
LEMMA Inductive == Spec => []IInv
<1>1. Init => IInv
  BY InitInv
<1>2. IInv /\ [Next]_vars => IInv'
  BY NextInv
<1> QED
  BY <1>1, <1>2, PTL DEF Spec

\* What windows and data file owe each other is kept.
LEMMA InductiveToo == Spec => [](IInv /\ HInv)
<1>1. Init => IInv /\ HInv
  BY InitInv, InitHolds
<1>2. IInv /\ HInv /\ [Next]_vars => (IInv /\ HInv)'
  BY NextInv, NextHolds DEF StillHolds
<1> QED
  BY <1>1, <1>2, PTL DEF Spec

\* A conversation of the editor or the chat, in a window or on disk, shows a
\* reply of the gateway's Qwen only right below the request that it answers.
THEOREM EachReplyBelowItsRequest == Spec => []ReplyToAsker
<1>1. IInv => ReplyToAsker
  BY DEF IInv, GoodDisk, GoodConversation, GoodWindows, GoodWindow, KeepsOrder, Disk,
     ReplyToAsker
<1> QED
  BY <1>1, Inductive, PTL

\* What a window submits ends with the request that it asks and is within the
\* message limit and the context window of the gateway's Qwen: compaction always
\* makes room, whatever was said before.
THEOREM EveryRequestFits == Spec => []NeverTooLong
<1>1. IInv => NeverTooLong
  BY DEF IInv, GoodWindows, GoodWindow, WithinLimits, NeverTooLong, Busy
<1> QED
  BY <1>1, Inductive, PTL

\* What an open editor or chat holds is in the data file, or its save timer is
\* armed, unless a request that an earlier run of the plugin left under way can
\* still write the conversation: a crash loses no more than the last typing.
THEOREM WhatIsShownIsSaved == Spec => []Saved
<1>1. HInv => Saved
  <2> SUFFICES ASSUME HInv, NEW w \in Windows, Live(w), win[w].kind \in Kept,
                      ~win[w].armed, Undisturbed(win[w].sess)
               PROVE  stored[win[w].sess] = Content(win[w])
    BY DEF Saved
  <2>1. Open(win[w]) /\ Calm(win, win[w].sess) /\ Disk.stored = stored
    BY DEF Live, Open, Undisturbed, Calm, Disk
  <2> QED
    BY <2>1 DEF HInv, Holding, Backed
<1> QED
  BY <1>1, InductiveToo, PTL

\* A reply that was saved stays in its conversation, however conversations are
\* switched, closed and reopened, while no request of an earlier run of the
\* plugin can still write there.
THEOREM RepliesStay == Spec => RepliesStayUndisturbed
<1> DEFINE A == \A id \in Ids : Undisturbed(id) => Replies(id) \subseteq Replies(id)'
<1>1. IInv /\ HInv /\ [Next]_vars => [A]_vars
  <2> SUFFICES ASSUME IInv, HInv, [Next]_vars, NEW id \in Ids, Undisturbed(id)
               PROVE  Replies(id) \subseteq Replies(id)'
    OBVIOUS
  <2>1. Calm(win, id)
    BY DEF Undisturbed, Calm
  <2>2. RepliesIn(stored[id].turns) \subseteq RepliesIn(stored'[id].turns)
    BY <2>1, NextHolds DEF StillHolds
  <2> QED
    BY <2>2 DEF Replies, RepliesIn
<1> HIDE DEF A
<1>2. Spec => [][A]_vars
  BY <1>1, InductiveToo, PTL DEF Spec
<1> QED
  BY <1>2 DEF A, RepliesStayUndisturbed
=============================================================================
