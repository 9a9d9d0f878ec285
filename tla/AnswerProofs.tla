---------------------------- MODULE AnswerProofs ----------------------------
(***************************************************************************)
(* Which rows an answer may rest on, how it reaches the screen, and what   *)
(* the page shows of it.                                                   *)
(*                                                                         *)
(* A query leaves out no row the model meant: two tickers, of letters and  *)
(* digits and of the length they may have, that are spelled alike are      *)
(* normalized to the same characters, and a pattern with % before and      *)
(* after them finds them in each other.                                    *)
(*                                                                         *)
(* The page shows what the turn has written.  StreamInv is inductive: what *)
(* the client has decoded, with what it would still decode of the bytes on *)
(* their way, is the text of the events it has not heard.  Decoding goes   *)
(* over a concatenation wherever no character is cut in two, and of a      *)
(* chunk that ends in half a character the half is kept; so a chunk moves  *)
(* bytes from one side to the other, and an event that is written adds its *)
(* text at the end.  The first two newlines in a row end the first event,  *)
(* because the newlines of a text are escaped.  What is shown is then what *)
(* the events heard come to, what is written what the events sent come to, *)
(* and the first are the beginning of the second.                          *)
(*                                                                         *)
(* The chat page, for any number of conversations, texts, turns and clicks.*)
(*                                                                         *)
(* The four properties of a run are not inductive by themselves. What ties *)
(* the page to the server's turns makes them so: the turn in progress is   *)
(* the last, the page leaves a turn before it forgets it (LeftBehind), a   *)
(* message of any list belongs to the turn whose number it bears           *)
(* (FromTurns), and a request under way answers with what is stored or is  *)
(* excused (Views).                                                        *)
(*                                                                         *)
(* Every action is of one kind for the turns (TurnsMove), for the lists of *)
(* each conversation (ListsMove) and for the bubble (BubbleMoves); the     *)
(* invariant is shown to be kept by the kinds.                             *)
(***************************************************************************)
EXTENDS FinancialData, ReplyStream, ChatClient,
        FiniteSetTheorems, FunctionTheorems, SequenceTheorems, TLAPS

-----------------------------------------------------------------------------
(* The places of the characters that are kept *)

(* Every place of a finite set of numbers has its number in it. *)
LEMMA NthOf ==
  ASSUME NEW places \in SUBSET Nat, IsFiniteSet(places), NEW n \in 1 .. Cardinality(places)
  PROVE  Nth(places, n) \in places
<1> DEFINE upto(i) == {j \in places : j <= i}
           rank == [i \in places |-> Cardinality(upto(i))]
           N == Cardinality(places)
<1>1. \A i : upto(i) \subseteq places /\ IsFiniteSet(upto(i)) /\ Cardinality(upto(i)) \in Nat
  <2>1. \A i : upto(i) \subseteq places
    OBVIOUS
  <2>2. QED
    BY <2>1, FS_Subset, FS_CardinalityType
<1>2. N \in Nat
  BY FS_CardinalityType
<1>3. ASSUME NEW i \in places
      PROVE  Cardinality(upto(i)) \in 1 .. N
  <2>1. i \in upto(i)
    OBVIOUS
  <2>2. Cardinality(upto(i)) # 0
    BY <1>1, <2>1, FS_EmptySet
  <2>3. Cardinality(upto(i)) <= N
    BY <1>1, FS_Subset
  <2>4. QED
    BY <1>1, <1>2, <2>2, <2>3
<1>4. ASSUME NEW i \in places, NEW j \in places, Cardinality(upto(i)) = Cardinality(upto(j))
      PROVE  i = j
  <2>1. ASSUME NEW a \in places, NEW b \in places, a < b
        PROVE  upto(a) \subseteq upto(b) /\ b \in upto(b) /\ b \notin upto(a)
    <3>1. \A k \in places : k \in Int
      OBVIOUS
    <3>2. ASSUME NEW k \in upto(a) PROVE k \in upto(b)
      <4>1. k \in places /\ k <= a
        OBVIOUS
      <4>2. k <= b
        BY <2>1, <3>1, <4>1
      <4>3. QED
        BY <4>1, <4>2
    <3>3. b \in upto(b) /\ b \notin upto(a)
      BY <2>1, <3>1
    <3>4. QED
      BY <3>2, <3>3
  <2>2. \A a, b \in places : a < b => Cardinality(upto(a)) # Cardinality(upto(b))
    BY <1>1, <2>1, FS_Subset
  <2>3. i \in Int /\ j \in Int
    OBVIOUS
  <2>4. QED
    BY <1>4, <2>2, <2>3
<1> HIDE DEF upto
<1>5. rank \in [places -> 1 .. N] /\ \A i \in places : rank[i] = Cardinality(upto(i))
  BY <1>3
<1> HIDE DEF rank, N
<1>6. rank \in Injection(places, 1 .. N)
  BY <1>4, <1>5, Fun_IsInj
<1>7. IsFiniteSet(1 .. N) /\ Cardinality(1 .. N) = N
  BY <1>2, FS_Interval
<1>8. rank \in Surjection(places, 1 .. N)
  BY <1>6, <1>7, FS_Injection DEF N
<1>9. PICK i \in places : rank[i] = n
  <2>1. n \in 1 .. N
    BY DEF N
  <2>2. QED
    BY <1>8, <2>1 DEF Surjection
<1>10. Cardinality({j \in places : j <= i}) = n
  BY <1>5, <1>9 DEF upto
<1>11. QED
  BY <1>10 DEF Nth

(* What is left is as long as the places kept are many. *)
LEMMA OnlyOf ==
  ASSUME NEW chars, NEW s, NEW len \in Nat, DOMAIN s = 1 .. len,
         NEW places, places = {i \in DOMAIN s : s[i] \in chars}
  PROVE  /\ Cardinality(places) \in Nat
         /\ DOMAIN Only(chars, s) = 1 .. Cardinality(places)
         /\ Len(Only(chars, s)) = Cardinality(places)
         /\ \A n \in 1 .. Cardinality(places) :
                Nth(places, n) \in places /\ Only(chars, s)[n] = s[Nth(places, n)]
<1>1. places \subseteq 1 .. len /\ IsFiniteSet(1 .. len)
  BY FS_Interval
<1>2. IsFiniteSet(places) /\ places \in SUBSET Nat
  BY <1>1, FS_Subset
<1>3. Cardinality(places) \in Nat
  BY <1>2, FS_CardinalityType
<1>4. Only(chars, s) = [n \in 1 .. Cardinality(places) |-> s[Nth(places, n)]]
  BY DEF Only
<1>5. \A n \in 1 .. Cardinality(places) : Nth(places, n) \in places
  BY <1>2, NthOf
<1>6. Len(Only(chars, s)) = Cardinality(places)
  BY <1>3, <1>4
<1>7. QED
  BY <1>3, <1>4, <1>5, <1>6

-----------------------------------------------------------------------------
(* Letters keep their name in both cases. *)
LEMMA LetterLowered ==
  ASSUME FinancialDataAssumption
  PROVE  /\ \A ch : LowerOf(ch) \in Small <=> ch \in Alphanumeric
         /\ \A ch, other : Alike(ch, other) => LowerOf(ch) = LowerOf(other)
<1>1. \A c, d \in Cases : c[2] = d[2] \/ c[1] = d[2] \/ c[1] = d[1] => c = d
  BY DEF FinancialDataAssumption
<1>2. ASSUME NEW c \in Cases PROVE LowerOf(c[1]) = c[1] /\ LowerOf(c[2]) = c[1]
  <2>1. LowerOf(c[2]) = c[1]
    <3>1. (CHOOSE d \in Cases : d[2] = c[2]) = c
      BY <1>1, <1>2
    <3>2. QED
      BY <1>2, <3>1 DEF LowerOf
  <2>2. LowerOf(c[1]) = c[1]
    <3>1. CASE \E d \in Cases : d[2] = c[1]
      <4>1. c[2] = c[1]
        BY <1>1, <1>2, <3>1
      <4>2. QED
        BY <2>1, <4>1
    <3>2. CASE ~ \E d \in Cases : d[2] = c[1]
      BY <3>2 DEF LowerOf
    <3>3. QED
      BY <3>1, <3>2
  <2>3. QED
    BY <2>1, <2>2
<1>3. ASSUME NEW ch, ch \notin Alphanumeric PROVE LowerOf(ch) = ch
  BY <1>3 DEF LowerOf, Alphanumeric
<1>4. \A ch : ch \in Alphanumeric <=> \E c \in Cases : ch = c[1] \/ ch = c[2]
  BY DEF Alphanumeric, Small
<1>5. \A ch : LowerOf(ch) \in Small <=> ch \in Alphanumeric
  BY <1>2, <1>3, <1>4 DEF Small, Alphanumeric
<1>6. \A ch, other : Alike(ch, other) => LowerOf(ch) = LowerOf(other)
  BY <1>2 DEF Alike
<1>7. QED
  BY <1>5, <1>6

(* A name without punctuation, in small letters: its letters, lowered. *)
LEMMA NormalizeOf ==
  ASSUME FinancialDataAssumption, NEW s, NEW len \in Nat, DOMAIN s = 1 .. len
  PROVE  /\ Len(Only(Alphanumeric, s)) \in Nat
         /\ DOMAIN Only(Alphanumeric, s) = 1 .. Len(Only(Alphanumeric, s))
         /\ Normalize(s) = [n \in 1 .. Len(Only(Alphanumeric, s)) |->
                               LowerOf(Only(Alphanumeric, s)[n])]
<1> DEFINE places == {i \in DOMAIN s : s[i] \in Alphanumeric}
<1>1. DOMAIN Lower(s) = 1 .. len /\ \A i \in 1 .. len : Lower(s)[i] = LowerOf(s[i])
  BY DEF Lower
<1>2. places = {i \in DOMAIN Lower(s) : Lower(s)[i] \in Small}
  BY <1>1, LetterLowered
<1> HIDE DEF places
<1>3. /\ Cardinality(places) \in Nat
      /\ DOMAIN Only(Alphanumeric, s) = 1 .. Cardinality(places)
      /\ Len(Only(Alphanumeric, s)) = Cardinality(places)
      /\ \A n \in 1 .. Cardinality(places) :
             Nth(places, n) \in places /\ Only(Alphanumeric, s)[n] = s[Nth(places, n)]
  BY OnlyOf DEF places
<1>4. Normalize(s) = [n \in 1 .. Cardinality(places) |-> Lower(s)[Nth(places, n)]]
  BY <1>2 DEF Normalize, Only
<1>5. \A n \in 1 .. Cardinality(places) : Nth(places, n) \in 1 .. len
  BY <1>3 DEF places
<1>6. \A n \in 1 .. Cardinality(places) :
          Lower(s)[Nth(places, n)] = LowerOf(Only(Alphanumeric, s)[n])
  BY <1>1, <1>3, <1>5
<1>7. QED
  BY <1>3, <1>4, <1>6

(* Two spellings of a name come to the same. *)
LEMMA SpelledAlike ==
  ASSUME FinancialDataAssumption, NEW q \in Seq(NameChars), NEW name \in Seq(NameChars), Spells(q, name)
  PROVE  Normalize(q) = Normalize(name) /\ Normalize(q) \in Seq(Small)
<1> DEFINE letters == Only(Alphanumeric, q)
           others == Only(Alphanumeric, name)
<1>1. /\ Len(letters) \in Nat
      /\ DOMAIN letters = 1 .. Len(letters)
      /\ Normalize(q) = [n \in 1 .. Len(letters) |-> LowerOf(letters[n])]
  BY NormalizeOf
<1>2. Normalize(name) = [n \in 1 .. Len(others) |-> LowerOf(others[n])]
  BY NormalizeOf
<1>3. /\ Len(letters) = Len(others)
      /\ \A n \in DOMAIN letters : Alike(letters[n], others[n])
  BY DEF Spells
<1> HIDE DEF letters, others
<1>4. \A n \in 1 .. Len(letters) : LowerOf(letters[n]) = LowerOf(others[n])
  BY <1>1, <1>3, LetterLowered
<1>5. \A n \in 1 .. Len(letters) : LowerOf(letters[n]) \in Small
  <2>1. \A ch, other : Alike(ch, other) => ch \in Alphanumeric
    BY DEF Alike, Alphanumeric, Small
  <2>2. QED
    BY <1>1, <1>3, <2>1, LetterLowered
<1>6. QED
  BY <1>1, <1>2, <1>3, <1>4, <1>5

(* A ticker has nothing to be stripped of. *)
LEMMA TickerStands ==
  ASSUME FinancialDataAssumption, NEW row \in DataSet
  PROVE  row.ticker \in Seq(NameChars) /\ Normalize(row.ticker) = Lower(row.ticker)
<1> DEFINE s == row.ticker
<1>1. s \in Seq(Alphanumeric)
  BY DEF FinancialDataAssumption
<1>2. Alphanumeric \subseteq NameChars
  BY DEF FinancialDataAssumption, Alphanumeric, Small
<1> HIDE DEF s
<1>3. s \in Seq(NameChars) /\ Len(s) \in Nat /\ DOMAIN s = 1 .. Len(s)
  BY <1>1, <1>2
<1> DEFINE places == {i \in DOMAIN s : s[i] \in Alphanumeric}
<1>4. places = 1 .. Len(s)
  BY <1>1, <1>3
<1>5. Cardinality(places) = Len(s)
  <2>1. Cardinality(1 .. Len(s)) = Len(s)
    BY <1>3, FS_Interval
  <2>2. QED
    BY <1>4, <2>1
<1>6. ASSUME NEW n \in 1 .. Len(s) PROVE Nth(places, n) = n
  <2>1. ASSUME NEW i \in places PROVE Cardinality({j \in places : j <= i}) = i
    <3>1. {j \in places : j <= i} = 1 .. i
      BY <1>3, <1>4, <2>1
    <3>2. i \in Nat /\ i >= 1
      BY <1>3, <1>4, <2>1
    <3>3. Cardinality(1 .. i) = i
      BY <3>2, FS_Interval
    <3>4. QED
      BY <3>1, <3>3
  <2> HIDE DEF places
  <2>2. n \in places
    BY <1>4
  <2>3. \A i \in places : Cardinality({j \in places : j <= i}) = n <=> i = n
    BY <2>1
  <2>4. QED
    BY <2>2, <2>3 DEF Nth
<1>7. /\ Len(Only(Alphanumeric, s)) = Len(s)
      /\ \A n \in 1 .. Len(s) : Only(Alphanumeric, s)[n] = s[n]
  <2>1. /\ Len(Only(Alphanumeric, s)) = Cardinality(places)
        /\ \A n \in 1 .. Cardinality(places) : Only(Alphanumeric, s)[n] = s[Nth(places, n)]
    <3> HIDE DEF places
    <3>1. PICK len \in Nat : DOMAIN s = 1 .. len
      BY <1>3
    <3>2. /\ Cardinality(places) \in Nat
          /\ DOMAIN Only(Alphanumeric, s) = 1 .. Cardinality(places)
          /\ Len(Only(Alphanumeric, s)) = Cardinality(places)
          /\ \A n \in 1 .. Cardinality(places) :
                 Nth(places, n) \in places /\ Only(Alphanumeric, s)[n] = s[Nth(places, n)]
      BY <3>1, OnlyOf DEF places
    <3>3. QED
      BY <3>2
  <2> HIDE DEF places
  <2>2. QED
    BY <1>5, <1>6, <2>1
<1>8. Normalize(s) = [n \in 1 .. Len(Only(Alphanumeric, s)) |-> LowerOf(Only(Alphanumeric, s)[n])]
  BY <1>3, NormalizeOf
<1>9. Normalize(s) = Lower(s)
  BY <1>3, <1>7, <1>8 DEF Lower
<1>10. QED
  BY <1>3, <1>9 DEF s

-----------------------------------------------------------------------------
(* A name is like itself between two wildcards, and a pattern like itself. *)
LEMMA LikeBetween ==
  ASSUME NEW S, NEW s \in Seq(S)
  PROVE  Like(s, <<"%">> \o s \o <<"%">>)
<1> DEFINE pattern == <<"%">> \o s \o <<"%">>
           L == Len(s)
           cut == [i \in 0 .. L + 2 |-> IF i = 0 THEN 0 ELSE IF i = L + 2 THEN L ELSE i - 1]
<1>1. L \in Nat /\ DOMAIN s = 1 .. L
  OBVIOUS
<1>2. /\ Len(pattern) = L + 2 /\ DOMAIN pattern = 1 .. L + 2
      /\ pattern[1] = "%" /\ pattern[L + 2] = "%"
      /\ \A i \in 2 .. L + 1 : pattern[i] = s[i - 1]
  OBVIOUS
<1> HIDE DEF pattern
<1>3. cut \in [0 .. Len(pattern) -> 0 .. L] /\ cut[0] = 0 /\ cut[Len(pattern)] = L
  BY <1>1, <1>2
<1>6. /\ cut[1] = 0 /\ cut[L + 1] = L /\ cut[L + 2] = L
      /\ \A i \in 2 .. L + 1 : cut[i] = i - 1 /\ cut[i - 1] = i - 2
  <2>1. cut[1] = 0 /\ cut[L + 1] = L /\ cut[L + 2] = L
    BY <1>1
  <2>2. ASSUME NEW i \in 2 .. L + 1 PROVE cut[i] = i - 1 /\ cut[i - 1] = i - 2
    BY <1>1
  <2>3. QED
    BY <2>1, <2>2
<1> HIDE DEF cut, L
<1>4. ASSUME NEW i \in DOMAIN pattern
      PROVE  IF pattern[i] = "%" THEN cut[i] >= cut[i - 1]
             ELSE /\ cut[i] = cut[i - 1] + 1
                  /\ pattern[i] \in {"_", s[cut[i]]}
  <2>1. i \in 1 .. L + 2
    BY <1>2
  <2>2. CASE i = 1
    BY <1>2, <1>3, <1>6, <2>2
  <2>3. CASE i = L + 2
    <3>1. i - 1 = L + 1
      BY <1>1, <2>3
    <3>2. QED
      BY <1>1, <1>2, <1>6, <2>3, <3>1
  <2>4. CASE i \in 2 .. L + 1
    <3>1. cut[i] = i - 1 /\ cut[i - 1] = i - 2 /\ pattern[i] = s[cut[i]]
      BY <1>2, <1>6, <2>4
    <3>2. cut[i] = cut[i - 1] + 1 /\ cut[i] >= cut[i - 1]
      BY <1>1, <2>4, <3>1
    <3>3. QED
      BY <3>1, <3>2
  <2>5. i = 1 \/ i = L + 2 \/ i \in 2 .. L + 1
    BY <1>1, <2>1
  <2>6. QED
    BY <2>2, <2>3, <2>4, <2>5
<1>5. QED
  BY <1>3, <1>4 DEF Like, pattern, L

(* A pattern without wildcards matches what is spelled alike. *)
LEMMA LikeItself ==
  ASSUME NEW S, NEW s \in Seq(S)
  PROVE  Like(s, s)
<1> DEFINE cut == [i \in 0 .. Len(s) |-> i]
<1>1. Len(s) \in Nat /\ DOMAIN s = 1 .. Len(s)
  OBVIOUS
<1>2. cut \in [0 .. Len(s) -> 0 .. Len(s)] /\ cut[0] = 0 /\ cut[Len(s)] = Len(s)
  BY <1>1
<1>3. \A i \in DOMAIN s : cut[i] = i /\ cut[i - 1] = i - 1
  BY <1>1
<1> HIDE DEF cut
<1>4. \A i \in DOMAIN s :
          IF s[i] = "%" THEN cut[i] >= cut[i - 1]
          ELSE cut[i] = cut[i - 1] + 1 /\ s[i] \in {"_", s[cut[i]]}
  <2>1. \A i \in DOMAIN s : i \in Int
    BY <1>1
  <2>2. \A i \in DOMAIN s : cut[i] = cut[i - 1] + 1 /\ cut[i] >= cut[i - 1] /\ s[i] = s[cut[i]]
    BY <1>3, <2>1
  <2>3. QED
    BY <2>2
<1>5. QED
  BY <1>2, <1>4 DEF Like

(* The query finds every row that is wanted and there. *)
LEMMA QueryFinds ==
  ASSUME FinancialDataAssumption, NEW args \in Args, financialData = DataSet,
         NEW row \in DataSet, WantedBy(args, row)
  PROVE  row \in FinancialQuery(args)
<1>1. /\ args.companies \subseteq Seq(NameChars) /\ args.sectors \subseteq Seq(NameChars)
      /\ row.company \in Seq(NameChars) /\ row.sector \in Seq(NameChars)
  BY DEF Args, FinancialDataAssumption
<1>2. ASSUME NEW q \in args.companies, Spells(q, row.company) \/ Spells(q, row.ticker)
      PROVE  MatchesCompany(row, q)
  <2>1. CASE Spells(q, row.company)
    <3>1. Normalize(q) = Normalize(row.company) /\ Normalize(q) \in Seq(Small)
      BY <1>1, <2>1, SpelledAlike
    <3>2. QED
      BY <3>1, LikeBetween DEF MatchesCompany
  <2>2. CASE Spells(q, row.ticker)
    BY <1>1, <2>2, SpelledAlike, TickerStands DEF MatchesCompany
  <2>3. QED
    BY <1>2, <2>1, <2>2
<1>3. ASSUME NEW q \in args.sectors, Reads(q, row.sector)
      PROVE  ILike(row.sector, q)
  <2>1. Len(q) \in Nat /\ Len(row.sector) = Len(q)
        /\ DOMAIN q = 1 .. Len(q) /\ DOMAIN row.sector = 1 .. Len(q)
    BY <1>1, <1>3 DEF Reads
  <2>2. \A i \in 1 .. Len(q) : LowerOf(q[i]) = LowerOf(row.sector[i])
    BY <1>3, <2>1, LetterLowered DEF Reads
  <2>3. Lower(q) = Lower(row.sector)
    BY <2>1, <2>2 DEF Lower
  <2>4. Lower(q) \in Seq({LowerOf(q[i]) : i \in 1 .. Len(q)})
    BY <2>1 DEF Lower
  <2>5. QED
    BY <2>3, <2>4, LikeItself DEF ILike
<1>4. QED
  BY <1>2, <1>3 DEF WantedBy, FinancialQuery

-----------------------------------------------------------------------------
(* The table is the file's unless the seed command has emptied it. *)
Call == [args : Args, rows : SUBSET DataSet, gap : BOOLEAN]

DataInv ==
    /\ financialData \in SUBSET DataSet /\ lacking \in BOOLEAN
    /\ ~ lacking => financialData = DataSet
    /\ toolArgs = <<>> \/ \E args \in Args : toolArgs = <<args>>
    /\ allToolCalls \in Seq(Call)
    /\ NothingLeftOut

(* A query that runs leaves out nothing that was wanted. *)
LEMMA ExecuteQueryKeeps ==
  ASSUME FinancialDataAssumption, DataInv, ExecuteQuery
  PROVE  DataInv'
<1>1. CASE turn' = "failed" /\ UNCHANGED <<allToolCalls, toolArgs>>
  BY <1>1 DEF ExecuteQuery, DataInv, NothingLeftOut
<1>2. CASE UNCHANGED turn
  <2>1. PICK args \in Args : toolArgs = <<args>>
    BY DEF DataInv, ExecuteQuery
  <2> DEFINE call == [args |-> args, rows |-> FinancialQuery(args), gap |-> lacking]
             n == Len(allToolCalls)
  <2>2. /\ allToolCalls' = Append(allToolCalls, call)
        /\ toolArgs' = <<>>
        /\ UNCHANGED <<financialData, lacking>>
    BY <1>2, <2>1 DEF ExecuteQuery
  <2>3. call \in Call /\ allToolCalls \in Seq(Call)
    BY DEF DataInv, Call, FinancialQuery
  <2>4. call.args = args /\ call.rows = FinancialQuery(args) /\ call.gap = lacking
    OBVIOUS
  <2>5. call.gap \/ \A row \in DataSet : WantedBy(call.args, row) => row \in call.rows
    BY <2>4, QueryFinds DEF DataInv
  <2> HIDE DEF call
  <2>6. /\ allToolCalls' \in Seq(Call)
        /\ n \in Nat /\ DOMAIN allToolCalls = 1 .. n
        /\ DOMAIN allToolCalls' = 1 .. n + 1
        /\ allToolCalls'[n + 1] = call
        /\ \A i \in 1 .. n : allToolCalls'[i] = allToolCalls[i]
    BY <2>2, <2>3
  <2>7. NothingLeftOut'
    <3>1. \A i \in 1 .. n + 1 :
              allToolCalls'[i].gap \/
              \A row \in DataSet :
                  WantedBy(allToolCalls'[i].args, row) => row \in allToolCalls'[i].rows
      BY <2>5, <2>6 DEF DataInv, NothingLeftOut
    <3>2. QED
      BY <2>6, <3>1 DEF NothingLeftOut
  <2>8. QED
    BY <2>2, <2>6, <2>7 DEF DataInv
<1>3. QED
  BY <1>1, <1>2 DEF ExecuteQuery

(* Every step keeps the invariant. *)
LEMMA DataStep ==
  ASSUME FinancialDataAssumption, DataInv, [DataNext]_dataVars
  PROVE  DataInv'
<1>1. ASSUME NEW args \in Args, CallTool(args) PROVE DataInv'
  BY <1>1 DEF CallTool, DataInv, NothingLeftOut
<1>2. CASE CallWithoutJson
  <2>1. NoFilter \in Args
    BY DEF NoFilter, Args
  <2>2. QED
    BY <1>1, <1>2, <2>1 DEF CallWithoutJson
<1>3. CASE CallMisshapen
  BY <1>3 DEF CallMisshapen, DataInv, NothingLeftOut
<1>4. CASE ExecuteQuery
  BY <1>4, ExecuteQueryKeeps
<1>5. CASE SeedDeletes
  BY <1>5 DEF SeedDeletes, DataInv, NothingLeftOut
<1>6. CASE SeedInserts
  BY <1>6 DEF SeedInserts, DataInv, NothingLeftOut
<1>7. CASE SeedFails
  BY <1>7 DEF SeedFails, DataInv, NothingLeftOut
<1>8. CASE UNCHANGED dataVars
  BY <1>8 DEF dataVars, DataInv, NothingLeftOut
<1>9. QED
  BY <1>1, <1>2, <1>3, <1>4, <1>5, <1>6, <1>7, <1>8 DEF DataNext

(* Nothing is left out: a call that names a company, its ticker or its sector
   hears of every row of the data it asks for, for any data whose tickers are
   letters, any names and any number of calls, unless the seed command had
   emptied the table.                                                      *)
THEOREM EveryRowWanted == DataSpec => []NothingLeftOut
<1>1. DataInit => DataInv
  <2> SUFFICES ASSUME DataInit PROVE DataInv
    OBVIOUS
  <2>1. allToolCalls \in Seq(Call) /\ NothingLeftOut
    BY DEF DataInit, NothingLeftOut
  <2>2. QED
    BY <2>1 DEF DataInit, DataInv
<1>2. DataInv /\ [DataNext]_dataVars => DataInv'
  BY FinancialDataAssumption, DataStep
<1>3. DataInv => NothingLeftOut
  BY DEF DataInv
<1>4. QED
  BY <1>1, <1>2, <1>3, PTL DEF DataSpec

-----------------------------------------------------------------------------
(* Flattening *)

(* Every set of naturals has a least number. *)
LEMMA Least ==
  ASSUME NEW T, T \subseteq Nat, T # {}
  PROVE  \E m \in T : \A k \in T : m <= k
<1> DEFINE F == {1 .. n : n \in T}
           Below == StrictSubsetOrdering(Nat)
<1>1. IsWellFoundedOn(Below, FiniteSubsetsOf(Nat))
  BY FS_StrictSubsetOrderingWellFounded
<1>2. F \subseteq FiniteSubsetsOf(Nat) /\ F # {}
  <2>1. ASSUME NEW x \in F PROVE x \in FiniteSubsetsOf(Nat)
    <3>1. PICK n \in T : x = 1 .. n
      OBVIOUS
    <3>2. IsFiniteSet(1 .. n)
      BY FS_Interval
    <3>3. 1 .. n \in SUBSET Nat
      OBVIOUS
    <3>4. QED
      BY <3>1, <3>2, <3>3 DEF FiniteSubsetsOf
  <2>2. QED
    BY <2>1
<1>3. PICK x \in F : \A y \in F : ~ (<<y, x>> \in Below)
  <2> HIDE DEF F, Below
  <2> QED BY <1>1, <1>2, WFMin
<1>4. PICK m \in T : x = 1 .. m
  OBVIOUS
<1>5. ASSUME NEW k \in T, k < m PROVE FALSE
  <2>1. 1 .. k \in F /\ 1 .. k \subseteq 1 .. m
     BY <1>5
  <2>2. m \in 1 .. m /\ m \notin 1 .. k
     BY <1>5
  <2>3. <<1 .. k, x>> \in Below
    BY <2>1, <2>2, <1>4 DEF StrictSubsetOrdering
  <2> QED BY <2>1, <2>3, <1>3
<1>6. QED
  BY <1>5

(* Induction along a sequence: what holds of the empty one and is kept by
   Append holds of all.                                                    *)
LEMMA SeqInduction ==
  ASSUME NEW S, NEW G, <<>> \in G, \A s \in G \cap Seq(S), x \in S : Append(s, x) \in G
  PROVE  \A s \in Seq(S) : s \in G
<1> SUFFICES ASSUME NEW s \in Seq(S), s \notin G PROVE FALSE
  OBVIOUS
<1> DEFINE P(m) == SubSeq(s, 1, m)
           T == {m \in 0 .. Len(s) : P(m) \notin G}
<1>1. Len(s) \in T
  <2>1. P(Len(s)) = s /\ Len(s) \in 0 .. Len(s)
    BY SubSeqFull, LenProperties
  <2> HIDE DEF P
  <2>2. QED
    BY <2>1
<1>2. PICK m \in T : \A k \in T : m <= k
  <2>1. T \subseteq Nat
    OBVIOUS
  <2> HIDE DEF T
  <2> QED BY <1>1, <2>1, Least
<1>3. m \in 1 .. Len(s)
  <2>1. P(0) = <<>>
    BY SubSeqEmpty
  <2>2. m # 0
    BY <2>1
  <2>3. QED
    BY <2>2
<1>4. m - 1 \in 0 .. Len(s) /\ m - 1 \notin T
  <2> HIDE DEF P
  <2> QED BY <1>2, <1>3
<1>5. P(m - 1) \in G /\ P(m - 1) \in Seq(S) /\ s[m] \in S
  BY <1>3, <1>4
<1>6. P(m) = Append(P(m - 1), s[m])
  BY <1>3
<1>7. QED
  <2> HIDE DEF P
  <2> QED BY <1>5, <1>6

(* f runs through ss: each of its values takes in one more of them. *)
Runs(f, ss) ==
    /\ f[1] = ss[1]
    /\ \A i \in 2 .. Len(ss) : f[i] = f[i - 1] \o ss[i]

(* FlattenSeq is the last of its running results. *)
LEMMA FlattenRuns ==
  ASSUME NEW S, NEW ss \in Seq(Seq(S)), Len(ss) > 0,
         NEW f \in [1 .. Len(ss) -> Seq(S)], Runs(f, ss)
  PROVE  FlattenSeq(ss) = f[Len(ss)]
<1> DEFINE n == Len(ss)
           Step(g) == [i \in 1 .. n |-> IF i = 1 THEN ss[i] ELSE g[i - 1] \o ss[i]]
           chosen == CHOOSE g : g = Step(g)
<1>1. n \in Nat \ {0}
  OBVIOUS
<1>2. f = Step(f)
  <2>1. ASSUME NEW i \in 1 .. n PROVE f[i] = Step(f)[i]
    <3>1. CASE i = 1
      BY <3>1 DEF Runs
    <3>2. CASE i # 1
      <4>1. i \in 2 .. n
        BY <1>1, <3>2
      <4>2. QED
        BY <3>2, <4>1 DEF Runs
    <3>3. QED
      BY <3>1, <3>2
  <2>2. QED
    BY <2>1
<1>3. chosen = Step(chosen)
  BY <1>2
<1>4. FlattenSeq(ss) = chosen[n]
  BY <1>1 DEF FlattenSeq
<1>5. ASSUME NEW i \in 1 .. n PROVE chosen[i] = IF i = 1 THEN ss[i] ELSE chosen[i - 1] \o ss[i]
  BY <1>3
<1>6. ASSUME NEW i \in 1 .. n PROVE f[i] = IF i = 1 THEN ss[i] ELSE f[i - 1] \o ss[i]
  BY <1>2
<1> HIDE DEF chosen, Step
<1> DEFINE Other == {i \in 1 .. n : chosen[i] # f[i]}
<1>7. CASE Other = {}
  <2>1. n \in 1 .. n
    BY <1>1
  <2>2. chosen[n] = f[n]
    BY <1>7, <2>1
  <2>3. QED
    BY <2>2, <1>4
<1>8. CASE Other # {}
  <2>1. Other \subseteq Nat
    OBVIOUS
  <2>2. PICK m \in Other : \A k \in Other : m <= k
    <3> HIDE DEF Other
    <3> QED BY <1>8, <2>1, Least
  <2>3. m # 1
    BY <1>5, <1>6
  <2>4. m - 1 \in 1 .. n /\ m - 1 \notin Other
    BY <2>2, <2>3
  <2>5. chosen[m - 1] = f[m - 1]
    BY <2>4
  <2>6. chosen[m] = chosen[m - 1] \o ss[m] /\ f[m] = f[m - 1] \o ss[m]
    BY <2>2, <2>3, <1>5, <1>6
  <2>7. m \in Other => chosen[m] # f[m]
    OBVIOUS
  <2>8. QED
    <3> HIDE DEF Other
    <3> QED BY <2>2, <2>5, <2>6, <2>7
<1>9. QED
  BY <1>7, <1>8

(* The running results go on with one sequence more. *)
LEMMA RunsExtend ==
  ASSUME NEW S, NEW ss \in Seq(Seq(S)), Len(ss) > 0, NEW s \in Seq(S),
         NEW f \in [1 .. Len(ss) -> Seq(S)], Runs(f, ss)
  PROVE  \E g \in [1 .. Len(ss) + 1 -> Seq(S)] :
            Runs(g, Append(ss, s)) /\ g[Len(ss) + 1] = f[Len(ss)] \o s
<1> DEFINE n == Len(ss)
           tt == Append(ss, s)
           g == [i \in 1 .. n + 1 |-> IF i <= n THEN f[i] ELSE f[n] \o s]
<1>1. n \in Nat /\ n > 0 /\ Len(tt) = n + 1 /\ tt[n + 1] = s /\ \A i \in 1 .. n : tt[i] = ss[i]
  OBVIOUS
<1>2. f[1] = ss[1] /\ \A i \in 2 .. n : f[i] = f[i - 1] \o ss[i]
  BY DEF Runs
<1>3. f \in [1 .. n -> Seq(S)]
  OBVIOUS
<1> HIDE DEF n, tt
<1>4. f[n] \in Seq(S) /\ f[n] \o s \in Seq(S)
  <2>1. f[n] \in Seq(S)
    BY <1>1, <1>3
  <2>2. QED
    BY <2>1, ConcatProperties
<1>5. ASSUME NEW i \in 1 .. n + 1 PROVE g[i] \in Seq(S)
  <2>1. CASE i <= n
    <3>1. i \in 1 .. n
      BY <2>1, <1>1
    <3>2. QED
      BY <3>1, <2>1, <1>3
  <2>2. CASE ~(i <= n)
    BY <2>2, <1>4
  <2>3. QED
    BY <2>1, <2>2
<1>6. g \in [1 .. n + 1 -> Seq(S)]
  BY <1>5
<1>7. g[1] = tt[1]
  BY <1>1, <1>2
<1>8. g[n + 1] = f[n] \o s
  <2>1. n + 1 \in 1 .. n + 1 /\ ~(n + 1 <= n)
    BY <1>1
  <2>2. QED
    BY <2>1
<1>9. ASSUME NEW i \in 2 .. Len(tt) PROVE g[i] = g[i - 1] \o tt[i]
  <2>1. g[i - 1] = f[i - 1]
    BY <1>1
  <2>2. CASE i <= n
    <3>1. i \in 2 .. n /\ g[i] = f[i] /\ tt[i] = ss[i]
      BY <2>2, <1>1
    <3>2. f[i] = f[i - 1] \o ss[i]
      BY <3>1, <1>2
    <3> HIDE DEF g
    <3>3. QED
      BY <3>1, <3>2, <2>1
  <2>3. CASE i = n + 1
    <3>1. i - 1 = n /\ tt[i] = s
      BY <2>3, <1>1
    <3> HIDE DEF g
    <3>2. QED
      BY <3>1, <1>8, <2>1, <2>3, Zenon
  <2>4. i <= n \/ i = n + 1
    BY <1>1
  <2>5. QED
    <3> HIDE DEF g
    <3> QED BY <2>2, <2>3, <2>4
<1>10. QED
  <2> HIDE DEF g
  <2> QED BY <1>6, <1>7, <1>8, <1>9 DEF Runs, n, tt

(* There are running results for every sequence of sequences. *)
LEMMA RunsExist ==
  ASSUME NEW S, NEW ss \in Seq(Seq(S)), Len(ss) > 0
  PROVE  \E f \in [1 .. Len(ss) -> Seq(S)] : Runs(f, ss)
<1> DEFINE G == {tt \in Seq(Seq(S)) : Len(tt) > 0 => \E f \in [1 .. Len(tt) -> Seq(S)] : Runs(f, tt)}
<1>1. <<>> \in G
  OBVIOUS
<1>2. ASSUME NEW tt \in G \cap Seq(Seq(S)), NEW s \in Seq(S)
      PROVE  Append(tt, s) \in G
  <2>1. Append(tt, s) \in Seq(Seq(S)) /\ Len(Append(tt, s)) = Len(tt) + 1 /\ Len(tt) \in Nat
    OBVIOUS
  <2>2. CASE Len(tt) = 0
    <3> DEFINE f == [i \in 1 .. 1 |-> s]
    <3>1. f \in [1 .. Len(Append(tt, s)) -> Seq(S)] /\ Runs(f, Append(tt, s))
      BY <2>1, <2>2 DEF Runs
    <3>2. QED
      <4> HIDE DEF f
      <4> QED BY <2>1, <3>1
  <2>3. CASE Len(tt) > 0
    <3>1. PICK f \in [1 .. Len(tt) -> Seq(S)] : Runs(f, tt)
      BY <2>3
    <3>2. \E g \in [1 .. Len(tt) + 1 -> Seq(S)] :
             Runs(g, Append(tt, s)) /\ g[Len(tt) + 1] = f[Len(tt)] \o s
      BY <2>3, <3>1, RunsExtend
    <3>3. QED
      BY <2>1, <3>2
  <2>4. QED
    BY <2>1, <2>2, <2>3
<1>3. ss \in G
  <2> HIDE DEF G
  <2> QED BY <1>1, <1>2, SeqInduction
<1>4. QED
  BY <1>3

(* Nothing flattens to nothing. *)
LEMMA FlattenEmpty == FlattenSeq(<<>>) = <<>>
BY DEF FlattenSeq

(* What is flattened has the elements of its parts. *)
LEMMA FlattenType ==
  ASSUME NEW S, NEW ss \in Seq(Seq(S))
  PROVE  FlattenSeq(ss) \in Seq(S)
<1>1. CASE Len(ss) = 0
  BY <1>1, FlattenEmpty, EmptySeq
<1>2. CASE Len(ss) > 0
  <2>1. PICK f \in [1 .. Len(ss) -> Seq(S)] : Runs(f, ss)
    BY <1>2, RunsExist
  <2>2. FlattenSeq(ss) = f[Len(ss)]
    BY <1>2, <2>1, FlattenRuns
  <2>3. Len(ss) \in 1 .. Len(ss)
    BY <1>2, LenProperties
  <2>4. f[Len(ss)] \in Seq(S)
    BY <2>3
  <2>5. QED
    BY <2>2, <2>4
<1>3. QED
  BY <1>1, <1>2, LenProperties

(* One part more comes last. *)
LEMMA FlattenAppend ==
  ASSUME NEW S, NEW ss \in Seq(Seq(S)), NEW s \in Seq(S)
  PROVE  FlattenSeq(Append(ss, s)) = FlattenSeq(ss) \o s
<1> DEFINE tt == Append(ss, s)
<1>1. Len(ss) \in Nat /\ Len(tt) = Len(ss) + 1 /\ tt \in Seq(Seq(S))
  OBVIOUS
<1>2. CASE Len(ss) = 0
  <2> DEFINE f == [i \in 1 .. 1 |-> s]
  <2>1. FlattenSeq(ss) \o s = s
    <3>1. ss = <<>>
      BY <1>2
    <3>2. QED
      BY <3>1, FlattenEmpty, ConcatEmptySeq
  <2>2. f \in [1 .. Len(tt) -> Seq(S)] /\ Runs(f, tt) /\ f[Len(tt)] = s
    BY <1>1, <1>2 DEF Runs
  <2>3. FlattenSeq(tt) = f[Len(tt)]
    <3>1. Len(tt) > 0
      BY <1>1
    <3> HIDE DEF tt, f
    <3> QED BY <1>1, <2>2, <3>1, FlattenRuns
  <2>4. QED
    BY <2>1, <2>2, <2>3
<1>3. CASE Len(ss) > 0
  <2>1. PICK f \in [1 .. Len(ss) -> Seq(S)] : Runs(f, ss)
    BY <1>3, RunsExist
  <2>2. PICK g \in [1 .. Len(ss) + 1 -> Seq(S)] :
           Runs(g, tt) /\ g[Len(ss) + 1] = f[Len(ss)] \o s
    BY <1>3, <2>1, RunsExtend
  <2>3. FlattenSeq(ss) = f[Len(ss)]
    BY <1>3, <2>1, FlattenRuns
  <2>4. FlattenSeq(tt) = g[Len(tt)]
    <3>1. Len(tt) > 0 /\ g \in [1 .. Len(tt) -> Seq(S)]
      BY <1>1
    <3> HIDE DEF tt
    <3> QED BY <1>1, <2>2, <3>1, FlattenRuns
  <2>5. QED
    BY <1>1, <2>2, <2>3, <2>4
<1>4. QED
  BY <1>1, <1>2, <1>3

(* One part is what it flattens to. *)
LEMMA FlattenOne ==
  ASSUME NEW S, NEW s \in Seq(S)
  PROVE  FlattenSeq(<<s>>) = s
<1>1. Append(<<>>, s) = <<s>>
  OBVIOUS
<1>2. <<>> \in Seq(Seq(S))
  OBVIOUS
<1>3. FlattenSeq(Append(<<>>, s)) = FlattenSeq(<<>>) \o s
  BY <1>2, FlattenAppend
<1>4. QED
  BY <1>1, <1>3, FlattenEmpty, ConcatEmptySeq

(* FlattenConcat, carried to one part more. *)
LEMMA FlattenConcatStep ==
  ASSUME NEW S, NEW ss \in Seq(Seq(S)), NEW tt \in Seq(Seq(S)), NEW x \in Seq(S),
         FlattenSeq(ss \o tt) = FlattenSeq(ss) \o FlattenSeq(tt)
  PROVE  FlattenSeq(ss \o Append(tt, x)) = FlattenSeq(ss) \o FlattenSeq(Append(tt, x))
<1> DEFINE u == FlattenSeq(ss)
           v == FlattenSeq(tt)
<1>1. ss \o Append(tt, x) = Append(ss \o tt, x)
  OBVIOUS
<1>2. ss \o tt \in Seq(Seq(S))
  BY ConcatProperties
<1>3. FlattenSeq(ss \o Append(tt, x)) = (u \o v) \o x
  BY <1>1, <1>2, FlattenAppend
<1>4. FlattenSeq(Append(tt, x)) = v \o x
  BY FlattenAppend
<1>5. u \in Seq(S) /\ v \in Seq(S)
  BY FlattenType
<1> HIDE DEF u, v
<1>6. (u \o v) \o x = u \o (v \o x)
  BY <1>5
<1>7. QED
  BY <1>3, <1>4, <1>6 DEF u

(* Flattening goes over a concatenation. *)
LEMMA FlattenConcat ==
  ASSUME NEW S, NEW ss \in Seq(Seq(S)), NEW tt \in Seq(Seq(S))
  PROVE  FlattenSeq(ss \o tt) = FlattenSeq(ss) \o FlattenSeq(tt)
<1> DEFINE G == {u \in Seq(Seq(S)) : FlattenSeq(ss \o u) = FlattenSeq(ss) \o FlattenSeq(u)}
<1>1. <<>> \in G
  <2>1. FlattenSeq(ss) \in Seq(S)
    BY FlattenType
  <2>2. ss \o <<>> = ss
    BY ConcatEmptySeq
  <2>3. FlattenSeq(ss) \o <<>> = FlattenSeq(ss)
    BY <2>1, ConcatEmptySeq
  <2>4. FlattenSeq(ss \o <<>>) = FlattenSeq(ss) \o FlattenSeq(<<>>)
    BY <2>2, <2>3, FlattenEmpty, Zenon
  <2>5. QED
    BY <2>4
<1>2. ASSUME NEW u \in G \cap Seq(Seq(S)), NEW x \in Seq(S)
      PROVE  Append(u, x) \in G
  <2>1. FlattenSeq(ss \o Append(u, x)) = FlattenSeq(ss) \o FlattenSeq(Append(u, x))
    BY FlattenConcatStep
  <2>2. Append(u, x) \in Seq(Seq(S))
    OBVIOUS
  <2>3. QED
    BY <2>1, <2>2
<1>3. tt \in G
  <2> HIDE DEF G
  <2> QED BY <1>1, <1>2, SeqInduction
<1>4. QED
  BY <1>3

-----------------------------------------------------------------------------
(* The names of the events. *)
EventNames == {"conversation", "token", "tool_call", "tool_result", "done", "error"}

(* What is on the wire, or decoded. *)
Symbols == Characters \cup EventNames \cup Framing \cup {"wide"}

(* What TextDecoder makes of each byte. *)
Pieces(bytes) ==
    [i \in DOMAIN bytes |->
        IF i > 1 /\ Whole(bytes, i - 1) THEN <<>> ELSE <<CharAt(bytes, i)>>]

(* Each byte decodes to a sequence of its own. *)
LEMMA PiecesType ==
  ASSUME NEW bytes \in Seq(Symbols)
  PROVE  Pieces(bytes) \in Seq(Seq(Symbols)) /\ Len(Pieces(bytes)) = Len(bytes)
<1>1. DOMAIN bytes = 1 .. Len(bytes) /\ Len(bytes) \in Nat
  OBVIOUS
<1>2. ASSUME NEW i \in DOMAIN bytes PROVE CharAt(bytes, i) \in Symbols
  <2>1. bytes[i] \in Symbols
    OBVIOUS
  <2>2. QED
    BY <2>1 DEF CharAt, Symbols, Framing
<1>3. ASSUME NEW i \in DOMAIN bytes PROVE Pieces(bytes)[i] \in Seq(Symbols)
  <2>1. <<CharAt(bytes, i)>> \in Seq(Symbols)
    BY <1>2
  <2>2. QED
    BY <2>1, EmptySeq DEF Pieces
<1>4. Pieces(bytes) \in [1 .. Len(bytes) -> Seq(Symbols)]
  <2>1. DOMAIN Pieces(bytes) = 1 .. Len(bytes) /\ Pieces(bytes) = [i \in DOMAIN bytes |-> Pieces(bytes)[i]]
    BY <1>1 DEF Pieces
  <2>2. QED
    BY <1>1, <1>3, <2>1
<1>5. QED
  BY <1>1, <1>4

(* Decode flattens the pieces. *)
LEMMA DecodeType ==
  ASSUME NEW bytes \in Seq(Symbols)
  PROVE  Decode(bytes) \in Seq(Symbols) /\ Decode(bytes) = FlattenSeq(Pieces(bytes))
<1>1. Decode(bytes) = FlattenSeq(Pieces(bytes))
  BY DEF Decode, Pieces
<1>2. QED
  BY <1>1, PiecesType, FlattenType

(* The elements of a concatenation. *)
LEMMA ConcatAt ==
  ASSUME NEW S, NEW s \in Seq(S), NEW t \in Seq(S)
  PROVE  /\ s \o t \in Seq(S)
         /\ Len(s) \in Nat /\ Len(t) \in Nat
         /\ Len(s \o t) = Len(s) + Len(t)
         /\ \A i \in 1 .. Len(s) : (s \o t)[i] = s[i]
         /\ \A i \in 1 .. Len(t) : (s \o t)[Len(s) + i] = t[i]
<1>1. \A i \in 1 .. Len(s) : (s \o t)[i] = s[i]
  OBVIOUS
<1>2. \A i \in 1 .. Len(t) : (s \o t)[Len(s) + i] = t[i]
  OBVIOUS
<1>3. s \o t \in Seq(S) /\ Len(s) \in Nat /\ Len(t) \in Nat /\ Len(s \o t) = Len(s) + Len(t)
  OBVIOUS
<1>4. QED
  BY <1>1, <1>2, <1>3

(* A chunk may be decoded in two, unless a character is cut in half. *)
LEMMA DecodeConcat ==
  ASSUME NEW a \in Seq(Symbols), NEW b \in Seq(Symbols),
         a = <<>> \/ b = <<>> \/ a[Len(a)] # "hi" \/ b[1] # "lo"
  PROVE  Decode(a \o b) = Decode(a) \o Decode(b)
<1> DEFINE ab == a \o b
<1>1. /\ ab \in Seq(Symbols) /\ Len(ab) = Len(a) + Len(b) /\ Len(a) \in Nat /\ Len(b) \in Nat
      /\ \A i \in 1 .. Len(a) : ab[i] = a[i]
      /\ \A i \in 1 .. Len(b) : ab[Len(a) + i] = b[i]
      /\ DOMAIN a = 1 .. Len(a) /\ DOMAIN b = 1 .. Len(b) /\ DOMAIN ab = 1 .. Len(ab)
  OBVIOUS
<1>2. Pieces(a) \in Seq(Seq(Symbols)) /\ Pieces(b) \in Seq(Seq(Symbols))
        /\ Pieces(ab) \in Seq(Seq(Symbols))
        /\ Len(Pieces(a)) = Len(a) /\ Len(Pieces(b)) = Len(b) /\ Len(Pieces(ab)) = Len(ab)
  BY <1>1, PiecesType
<1> HIDE DEF ab
<1>3. \A i \in 1 .. Len(a) - 1 : Whole(ab, i) <=> Whole(a, i)
  BY <1>1 DEF Whole
<1>4. (Len(a) > 0 => ~Whole(ab, Len(a))) /\ ~Whole(a, Len(a))
  <2>1. ~Whole(a, Len(a))
    BY DEF Whole
  <2>2. ASSUME Len(a) > 0, Whole(ab, Len(a)) PROVE FALSE
    <3>1. Len(b) > 0 /\ ab[Len(a)] = "hi" /\ ab[Len(a) + 1] = "lo"
      BY <1>1, <2>2 DEF Whole
    <3>2. b[1] = "lo" /\ b # <<>>
      BY <1>1, <3>1
    <3>3. ab[Len(a)] = a[Len(a)]
      BY <1>1, <2>2
    <3>4. QED
      BY <2>2, <3>1, <3>2, <3>3
  <2>3. QED
    BY <2>1, <2>2
<1>5. \A i \in 1 .. Len(b) : Whole(ab, Len(a) + i) <=> Whole(b, i)
  BY <1>1 DEF Whole
<1>6. ASSUME NEW i \in 1 .. Len(ab) PROVE Pieces(ab)[i] = (Pieces(a) \o Pieces(b))[i]
  <2> DEFINE pa == Pieces(a)
             pb == Pieces(b)
  <2>0. /\ Len(pa) = Len(a) /\ Len(pb) = Len(b)
        /\ pa \in Seq(Seq(Symbols)) /\ pb \in Seq(Seq(Symbols))
    BY <1>2
  <2> HIDE DEF pa, pb
  <2>1. CASE i <= Len(a)
    <3>1. i \in 1 .. Len(a)
      BY <2>1, <1>1
    <3>2. Whole(ab, i) <=> Whole(a, i)
      BY <3>1, <1>1, <1>3, <1>4
    <3>3. i > 1 => (Whole(ab, i - 1) <=> Whole(a, i - 1))
      BY <3>1, <1>1, <1>3
    <3>4. CharAt(ab, i) = CharAt(a, i)
      BY <3>1, <3>2, <1>1 DEF CharAt
    <3>5. Pieces(ab)[i] = pa[i]
      BY <3>1, <3>3, <3>4, <1>1 DEF Pieces, pa
    <3>6. (pa \o pb)[i] = pa[i]
      <4>1. i \in 1 .. Len(pa)
        BY <2>0, <3>1
      <4>2. QED
        BY <2>0, <4>1, ConcatAt
    <3>7. QED
      BY <3>5, <3>6 DEF pa, pb
  <2>2. CASE ~(i <= Len(a))
    <3> DEFINE j == i - Len(a)
    <3>1. j \in 1 .. Len(b) /\ i = Len(a) + j
      BY <2>2, <1>1
    <3> HIDE DEF j
    <3>2. Whole(ab, i) <=> Whole(b, j)
      BY <3>1, <1>5
    <3>3. IF j > 1 THEN i > 1 /\ (Whole(ab, i - 1) <=> Whole(b, j - 1))
                   ELSE i > 1 => ~Whole(ab, i - 1)
      <4>1. CASE j > 1
        <5>1. j - 1 \in 1 .. Len(b) /\ i - 1 = Len(a) + (j - 1) /\ i > 1
          BY <3>1, <4>1, <1>1
        <5>2. QED
          BY <5>1, <4>1, <1>5
      <4>2. CASE ~(j > 1)
        <5>1. i - 1 = Len(a)
          BY <3>1, <4>2, <1>1
        <5>2. QED
          BY <5>1, <4>2, <1>4
      <4>3. QED
        BY <4>1, <4>2
    <3>4. CharAt(ab, i) = CharAt(b, j)
      BY <3>1, <3>2, <1>1 DEF CharAt
    <3>5. Pieces(ab)[i] = pb[j]
      BY <3>1, <3>3, <3>4, <1>1 DEF Pieces, pb
    <3>6. (pa \o pb)[i] = pb[j]
      <4>1. j \in 1 .. Len(pb) /\ i = Len(pa) + j
        BY <2>0, <3>1
      <4>2. (pa \o pb)[Len(pa) + j] = pb[j]
        BY <2>0, <4>1, ConcatAt
      <4>3. QED
        BY <4>1, <4>2
    <3>7. QED
      BY <3>5, <3>6 DEF pa, pb
  <2>3. QED
    BY <2>1, <2>2
<1>7. Pieces(ab) = Pieces(a) \o Pieces(b)
  <2> DEFINE p == Pieces(ab)
             q == Pieces(a) \o Pieces(b)
  <2>1. q \in Seq(Seq(Symbols)) /\ Len(q) = Len(ab) /\ p \in Seq(Seq(Symbols)) /\ Len(p) = Len(ab)
    <3>1. q \in Seq(Seq(Symbols)) /\ Len(q) = Len(Pieces(a)) + Len(Pieces(b))
      BY <1>2, ConcatProperties
    <3>2. QED
      BY <1>1, <1>2, <3>1
  <2> HIDE DEF p, q
  <2>2. \A i \in 1 .. Len(p) : p[i] = q[i]
    BY <1>6, <2>1 DEF p, q
  <2>3. p = q
    BY <2>1, <2>2, SeqEqual
  <2>4. QED
    BY <2>3 DEF p, q
<1>8. FlattenSeq(Pieces(a) \o Pieces(b)) = FlattenSeq(Pieces(a)) \o FlattenSeq(Pieces(b))
  BY <1>2, FlattenConcat
<1>9. QED
  BY <1>1, <1>7, <1>8, DecodeType DEF ab

(* No bytes are no text. *)
LEMMA DecodeEmpty == Decode(<<>>) = <<>>
<1>1. [i \in DOMAIN <<>> |-> IF i > 1 /\ Whole(<<>>, i - 1) THEN <<>> ELSE <<CharAt(<<>>, i)>>] = <<>>
  OBVIOUS
<1>2. QED
  BY <1>1, FlattenEmpty DEF Decode

(* Half a character is a bad one. *)
LEMMA DecodeHalf == Decode(<<"hi">>) = <<"bad">>
<1>1. Pieces(<<"hi">>) = << <<"bad">> >>
  BY DEF Pieces, CharAt, Whole
<1>2. <<"hi">> \in Seq(Symbols) /\ <<"bad">> \in Seq(Symbols)
  BY DEF Symbols, Framing
<1>3. QED
  BY <1>1, <1>2, FlattenOne, DecodeType

(* Both halves are the character. *)
LEMMA DecodeWide == Decode(<<"hi", "lo">>) = <<"wide">>
<1>1. Pieces(<<"hi", "lo">>) = << <<"wide">>, <<>> >>
  <2> DEFINE b == <<"hi", "lo">>
  <2>1. DOMAIN b = 1 .. 2 /\ Len(b) = 2 /\ b[1] = "hi" /\ b[2] = "lo"
    OBVIOUS
  <2> HIDE DEF b
  <2>2. Whole(b, 1)
    BY <2>1 DEF Whole
  <2>3. CharAt(b, 1) = "wide"
    BY <2>2 DEF CharAt
  <2>4. Pieces(b)[1] = <<"wide">> /\ Pieces(b)[2] = <<>> /\ DOMAIN Pieces(b) = 1 .. 2
    BY <2>1, <2>2, <2>3 DEF Pieces
  <2>5. Pieces(b) = [i \in 1 .. 2 |-> Pieces(b)[i]]
    BY <2>4 DEF Pieces
  <2>6. Pieces(b) = << <<"wide">>, <<>> >>
    BY <2>4, <2>5
  <2>7. QED
    BY <2>6 DEF b
<1>2. <<"hi", "lo">> \in Seq(Symbols) /\ <<"wide">> \in Seq(Symbols) /\ <<>> \in Seq(Symbols)
  BY DEF Symbols, Framing
<1>3. << <<"wide">>, <<>> >> = Append(<< <<"wide">> >>, <<>>) /\ << <<"wide">> >> \in Seq(Seq(Symbols))
  BY <1>2
<1>4. FlattenSeq(<< <<"wide">>, <<>> >>) = <<"wide">> \o <<>>
  <2>1. FlattenSeq(<< <<"wide">> >>) = <<"wide">>
    BY <1>2, FlattenOne
  <2>2. FlattenSeq(Append(<< <<"wide">> >>, <<>>)) = FlattenSeq(<< <<"wide">> >>) \o <<>>
    BY <1>2, <1>3, FlattenAppend
  <2>3. QED
    BY <1>3, <2>1, <2>2
<1>5. <<"wide">> \o <<>> = <<"wide">>
  BY <1>2, ConcatEmptySeq
<1>6. QED
  BY <1>1, <1>2, <1>4, <1>5, DecodeType

(* A byte that is no half is its character. *)
LEMMA DecodeOne ==
  ASSUME NEW c \in Symbols \ {"hi", "lo"}
  PROVE  Decode(<<c>>) = <<c>>
<1>1. Pieces(<<c>>) = << <<c>> >>
  BY DEF Pieces, CharAt, Whole
<1>2. <<c>> \in Seq(Symbols)
  OBVIOUS
<1>3. QED
  BY <1>1, <1>2, FlattenOne, DecodeType

(* What has no character of two bytes decodes to itself. *)
LEMMA DecodePlain ==
  ASSUME NEW s \in Seq(Symbols \ {"hi", "lo"})
  PROVE  Decode(s) = s
<1> DEFINE Plain == Symbols \ {"hi", "lo"}
           G == {t \in Seq(Plain) : Decode(t) = t}
<1>1. <<>> \in G
  BY DecodeEmpty
<1>2. ASSUME NEW t \in G \cap Seq(Plain), NEW c \in Plain PROVE Append(t, c) \in G
  <2>1. t \in Seq(Symbols) /\ <<c>> \in Seq(Symbols) /\ <<c>>[1] # "lo" /\ Append(t, c) = t \o <<c>>
    OBVIOUS
  <2>2. Decode(t \o <<c>>) = Decode(t) \o Decode(<<c>>)
    BY <2>1, DecodeConcat
  <2>3. Append(t, c) \in Seq(Plain)
    OBVIOUS
  <2>4. QED
    BY <2>1, <2>2, <2>3, DecodeOne
<1>3. s \in G
  <2> HIDE DEF G
  <2> QED BY <1>1, <1>2, SeqInduction
<1>4. QED
  BY <1>3

-----------------------------------------------------------------------------
(* A text between its quotes, decoded. *)
Quoted(text) == [i \in DOMAIN text |-> IF text[i] = "newline" THEN "esc" ELSE text[i]]

BytesOf(text) == FlattenSeq([i \in DOMAIN text |-> Byte(text[i])])

(* The bytes of a character decode to it, or to its escape. *)
LEMMA ByteType ==
  ASSUME ReplyStreamAssumption, NEW c \in Characters
  PROVE  /\ Byte(c) \in Seq(Symbols) /\ Byte(c) # <<>> /\ Byte(c)[1] # "lo"
         /\ Decode(Byte(c)) = <<IF c = "newline" THEN "esc" ELSE c>>
<1>1. c \in Symbols \ Framing /\ {"hi", "lo", "esc"} \subseteq Symbols \cap Framing
  BY DEF ReplyStreamAssumption, Symbols, Framing, EventNames
<1>2. CASE c = "wide"
  <2>1. Byte(c) = <<"hi", "lo">>
    BY <1>2 DEF Byte
  <2>2. <<"hi", "lo">> \in Seq(Symbols)
    BY <1>1
  <2>3. Decode(Byte(c)) = <<IF c = "newline" THEN "esc" ELSE c>>
    BY <1>2, <2>1, DecodeWide
  <2>4. Byte(c) \in Seq(Symbols)
    BY <2>1, <2>2
  <2>5. Byte(c) # <<>> /\ Byte(c)[1] # "lo"
    BY <2>1
  <2>6. QED
    BY <2>3, <2>4, <2>5, Zenon
<1>3. ASSUME NEW x \in Symbols \ {"hi", "lo"}, Byte(c) = <<x>>
      PROVE  /\ Byte(c) \in Seq(Symbols) /\ Byte(c) # <<>> /\ Byte(c)[1] # "lo"
             /\ Decode(Byte(c)) = <<x>>
  <2>1. Decode(Byte(c)) = <<x>>
    BY <1>3, DecodeOne
  <2>2. Byte(c) \in Seq(Symbols)
    BY <1>3
  <2>3. Byte(c) # <<>> /\ Byte(c)[1] # "lo"
    BY <1>3
  <2>4. QED
    BY <2>1, <2>2, <2>3, Zenon
<1>4. CASE c = "newline"
  <2>1. Byte(c) = <<"esc">>
    BY <1>4 DEF Byte
  <2>2. "esc" \in Symbols \ {"hi", "lo"}
    BY <1>1
  <2>3. QED
    BY <1>3, <1>4, <2>1, <2>2, Zenon
<1>5. CASE c # "wide" /\ c # "newline"
  <2>1. Byte(c) = <<c>>
    BY <1>5 DEF Byte
  <2>2. c \in Symbols \ {"hi", "lo"}
    BY <1>1 DEF Framing
  <2>3. QED
    BY <1>3, <1>5, <2>1, <2>2, Zenon
<1>6. QED
  BY <1>2, <1>4, <1>5

(* The bytes of a text. *)
LEMMA BytesOfType ==
  ASSUME ReplyStreamAssumption, NEW text \in Seq(Characters)
  PROVE  /\ [i \in DOMAIN text |-> Byte(text[i])] \in Seq(Seq(Symbols))
         /\ BytesOf(text) \in Seq(Symbols)
<1>1. \A i \in 1 .. Len(text) : Byte(text[i]) \in Seq(Symbols)
  BY ByteType
<1>2. [i \in DOMAIN text |-> Byte(text[i])] \in Seq(Seq(Symbols))
  BY <1>1
<1>3. QED
  BY <1>2, FlattenType DEF BytesOf

(* The bytes of a text decode to the text, its newlines escaped. *)
LEMMA DecodeText ==
  ASSUME ReplyStreamAssumption, NEW text \in Seq(Characters)
  PROVE  Decode(BytesOf(text)) = Quoted(text)
<1> DEFINE G == {t \in Seq(Characters) : Decode(BytesOf(t)) = Quoted(t)}
<1>1. <<>> \in G
  <2>1. [i \in DOMAIN <<>> |-> Byte(<<>>[i])] = <<>> /\ Quoted(<<>>) = <<>>
    BY DEF Quoted
  <2>2. Decode(BytesOf(<<>>)) = Quoted(<<>>)
    BY <2>1, FlattenEmpty, DecodeEmpty DEF BytesOf
  <2>3. QED
    BY <2>2
<1>2. ASSUME NEW t \in G \cap Seq(Characters), NEW c \in Characters PROVE Append(t, c) \in G
  <2> DEFINE tc == Append(t, c)
             ss == [i \in DOMAIN t |-> Byte(t[i])]
  <2>1. tc \in Seq(Characters)
    OBVIOUS
  <2>2. ss \in Seq(Seq(Symbols)) /\ BytesOf(t) \in Seq(Symbols) /\ BytesOf(tc) \in Seq(Symbols)
    BY <2>1, BytesOfType
  <2>3. [i \in DOMAIN tc |-> Byte(tc[i])] = Append(ss, Byte(c))
    OBVIOUS
  <2>4. BytesOf(tc) = BytesOf(t) \o Byte(c)
    <3>1. FlattenSeq(Append(ss, Byte(c))) = FlattenSeq(ss) \o Byte(c)
      <4> HIDE DEF ss
      <4> QED BY <2>2, ByteType, FlattenAppend
    <3>2. QED
      BY <2>3, <3>1 DEF BytesOf
  <2>5. Decode(BytesOf(tc)) = Decode(BytesOf(t)) \o Decode(Byte(c))
    <3>1. Byte(c) \in Seq(Symbols) /\ Byte(c)[1] # "lo"
      BY ByteType
    <3>2. QED
      BY <2>2, <2>4, <3>1, DecodeConcat
  <2>6. Decode(BytesOf(tc)) = Quoted(t) \o <<IF c = "newline" THEN "esc" ELSE c>>
    BY <2>5, ByteType
  <2>7. Quoted(tc) = Quoted(t) \o <<IF c = "newline" THEN "esc" ELSE c>>
    BY DEF Quoted
  <2>8. QED
    BY <2>1, <2>6, <2>7
<1>3. text \in G
  <2> HIDE DEF G
  <2> QED BY <1>1, <1>2, SeqInduction
<1>4. QED
  BY <1>3

Events == [event : EventNames, data : Seq(Characters)]

(* An event as the client decodes it. *)
Opening(e) == <<"event:", e.event, "nl", "data:", "quote">>
Closing == <<"quote", "nl", "nl">>
Text(e) == Opening(e) \o (Quoted(e.data) \o Closing)

(* A sequence of three. *)
LEMMA ThreeOf ==
  ASSUME NEW S, NEW a \in S, NEW b \in S, NEW c \in S
  PROVE  /\ <<a, b, c>> \in Seq(S) /\ Len(<<a, b, c>>) = 3
         /\ <<a, b, c>>[1] = a /\ <<a, b, c>>[2] = b /\ <<a, b, c>>[3] = c
<1>1. <<a, b, c>> \in Seq(S)
  OBVIOUS
<1>2. Len(<<a, b, c>>) = 3
  OBVIOUS
<1>3. <<a, b, c>>[1] = a /\ <<a, b, c>>[2] = b /\ <<a, b, c>>[3] = c
  OBVIOUS
<1>4. QED
  BY <1>1, <1>2, <1>3, Zenon

(* A sequence of five. *)
LEMMA FiveOf ==
  ASSUME NEW S, NEW a \in S, NEW b \in S, NEW c \in S, NEW d \in S, NEW q \in S
  PROVE  /\ <<a, b, c, d, q>> \in Seq(S) /\ Len(<<a, b, c, d, q>>) = 5
         /\ <<a, b, c, d, q>>[1] = a /\ <<a, b, c, d, q>>[2] = b /\ <<a, b, c, d, q>>[3] = c
         /\ <<a, b, c, d, q>>[4] = d /\ <<a, b, c, d, q>>[5] = q
<1>1. <<a, b, c, d, q>> \in Seq(S)
  OBVIOUS
<1>2. Len(<<a, b, c, d, q>>) = 5
  OBVIOUS
<1>3. <<a, b, c, d, q>>[1] = a /\ <<a, b, c, d, q>>[2] = b /\ <<a, b, c, d, q>>[3] = c
  OBVIOUS
<1>4. <<a, b, c, d, q>>[4] = d /\ <<a, b, c, d, q>>[5] = q
  OBVIOUS
<1>5. QED
  BY <1>1, <1>2, <1>3, <1>4, Zenon

(* The frame of an event: its opening, its text, its closing. *)
LEMMA FrameGrouped ==
  ASSUME NEW x \in Seq(Symbols), NEW name \in Symbols
  PROVE  (<<"event:", name, "nl", "data:">> \o (<<"quote">> \o x \o <<"quote">>)) \o <<"nl", "nl">>
            = <<"event:", name, "nl", "data:", "quote">> \o (x \o <<"quote", "nl", "nl">>)
<1>1. {"event:", "nl", "data:", "quote"} \subseteq Symbols
  BY DEF Symbols, Framing
<1>2. QED
  BY <1>1

(* No newline and no name of a line is left in a quoted text. *)
LEMMA QuotedType ==
  ASSUME ReplyStreamAssumption, NEW text \in Seq(Characters)
  PROVE  /\ Quoted(text) \in Seq(Symbols) /\ Len(Quoted(text)) = Len(text)
         /\ \A i \in 1 .. Len(text) :
                /\ Quoted(text)[i] = IF text[i] = "newline" THEN "esc" ELSE text[i]
                /\ Quoted(text)[i] \notin {"nl", "event:", "data:"}
<1>1. \A i \in 1 .. Len(text) : text[i] \in Characters /\ text[i] \notin Framing /\ text[i] \in Symbols
  BY DEF ReplyStreamAssumption, Symbols
<1>2. "esc" \in Symbols /\ DOMAIN text = 1 .. Len(text) /\ Len(text) \in Nat
  <2>1. "esc" \in Symbols
    BY DEF Symbols, Framing
  <2>2. QED
    BY <2>1, LenProperties
<1>3. Quoted(text) \in [1 .. Len(text) -> Symbols]
  BY <1>1, <1>2 DEF Quoted
<1>4. Quoted(text) \in Seq(Symbols) /\ Len(Quoted(text)) = Len(text)
  BY <1>2, <1>3
<1>5. ASSUME NEW i \in 1 .. Len(text)
      PROVE  /\ Quoted(text)[i] = IF text[i] = "newline" THEN "esc" ELSE text[i]
             /\ Quoted(text)[i] \notin {"nl", "event:", "data:"}
  BY <1>1, <1>2 DEF Quoted, Framing
<1>6. QED
  BY <1>4, <1>5

(* The frame of an event decodes to its text. *)
LEMMA FrameDecoded ==
  ASSUME ReplyStreamAssumption, NEW e \in Events
  PROVE  /\ Frame(e) \in Seq(Symbols) /\ Frame(e)[1] = "event:" /\ Frame(e) # <<>>
         /\ Decode(Frame(e)) = Text(e)
<1> DEFINE x == BytesOf(e.data)
           P == Opening(e)
           xC == x \o Closing
<1>1. x \in Seq(Symbols) /\ Decode(x) = Quoted(e.data) /\ e.event \in EventNames
  BY BytesOfType, DecodeText DEF Events
<1>2. {"event:", "nl", "data:", "quote", e.event} \subseteq Symbols \ {"hi", "lo"}
  BY <1>1 DEF Symbols, Framing, EventNames
<1>3. Frame(e) = P \o xC
  <2>1. Frame(e) = (<<"event:", e.event, "nl", "data:">> \o (<<"quote">> \o x \o <<"quote">>))
                        \o <<"nl", "nl">>
    BY DEF Frame, Stringify, BytesOf
  <2>2. "event:" \in Symbols /\ "nl" \in Symbols /\ "data:" \in Symbols /\ "quote" \in Symbols
        /\ e.event \in Symbols
    BY <1>2
  <2> HIDE DEF x
  <2>3. (<<"event:", e.event, "nl", "data:">> \o (<<"quote">> \o x \o <<"quote">>)) \o <<"nl", "nl">>
            = <<"event:", e.event, "nl", "data:", "quote">> \o (x \o <<"quote", "nl", "nl">>)
    <3>1. x \in Seq(Symbols)
      BY <1>1
    <3>2. QED
      BY <2>2, <3>1, FrameGrouped, Zenon
  <2>4. QED
    BY <2>1, <2>3 DEF Opening, Closing
<1>4. P \in Seq(Symbols) /\ P \in Seq(Symbols \ {"hi", "lo"}) /\ Len(P) = 5 /\ P[1] = "event:" /\ P[5] = "quote"
  <2>1. P \in Seq(Symbols \ {"hi", "lo"}) /\ Len(P) = 5 /\ P[1] = "event:" /\ P[5] = "quote"
    BY <1>2, FiveOf DEF Opening
  <2>2. P \in Seq(Symbols)
    BY <2>1, SeqMonotonic
  <2>3. QED
    BY <2>1, <2>2
<1>5. Closing \in Seq(Symbols) /\ Closing \in Seq(Symbols \ {"hi", "lo"}) /\ Closing[1] = "quote"
  <2>1. Closing \in Seq(Symbols \ {"hi", "lo"}) /\ Closing[1] = "quote"
    BY <1>2, ThreeOf DEF Closing
  <2>2. Closing \in Seq(Symbols)
    BY <2>1, SeqMonotonic
  <2>3. QED
    BY <2>1, <2>2
<1> HIDE DEF x, P
<1>6. xC \in Seq(Symbols)
  BY <1>1, <1>5, ConcatProperties
<1>7. Decode(xC) = Decode(x) \o Decode(Closing)
  BY <1>1, <1>5, DecodeConcat
<1> HIDE DEF xC
<1>8. Decode(P \o xC) = Decode(P) \o Decode(xC)
  BY <1>4, <1>6, DecodeConcat
<1>9. Decode(P) = P /\ Decode(Closing) = Closing
  BY <1>4, <1>5, DecodePlain
<1>10. Decode(Frame(e)) = Text(e)
  BY <1>1, <1>3, <1>7, <1>8, <1>9 DEF Text, P
<1>11. Frame(e) \in Seq(Symbols) /\ Frame(e)[1] = "event:" /\ Frame(e) # <<>>
  <2>1. P \o xC \in Seq(Symbols) /\ Len(P \o xC) = Len(P) + Len(xC) /\ (P \o xC)[1] = P[1]
    <3>1. 1 \in 1 .. Len(P)
      BY <1>4
    <3>2. P \in Seq(Symbols) /\ xC \in Seq(Symbols)
      BY <1>4, <1>6
    <3>3. QED
      BY <3>1, <3>2, ConcatAt
  <2>2. Len(xC) \in Nat
    BY <1>6, LenProperties
  <2>3. Len(Frame(e)) # 0
    BY <1>3, <1>4, <2>1, <2>2
  <2>4. QED
    BY <1>3, <1>4, <2>1, <2>3
<1>12. QED
  BY <1>10, <1>11

(* What stands where in the text of an event. *)
LEMMA TextShape ==
  ASSUME ReplyStreamAssumption, NEW e \in Events
  PROVE  LET t == Text(e)
             n == Len(e.data)
         IN  /\ n \in Nat /\ t \in Seq(Symbols) /\ Len(t) = n + 8
             /\ t[1] = "event:" /\ t[2] = e.event /\ t[3] = "nl" /\ t[4] = "data:"
             /\ t[5] = "quote" /\ t[n + 6] = "quote" /\ t[n + 7] = "nl" /\ t[n + 8] = "nl"
             /\ \A i \in 1 .. n : t[i + 5] = IF e.data[i] = "newline" THEN "esc" ELSE e.data[i]
             /\ \A i \in 1 .. n : t[i + 5] \notin {"nl", "event:", "data:"}
<1> DEFINE q == Quoted(e.data)
           n == Len(e.data)
           C == Closing
           P == Opening(e)
<1>1. /\ n \in Nat /\ q \in Seq(Symbols) /\ Len(q) = n
      /\ \A i \in 1 .. n : q[i] = (IF e.data[i] = "newline" THEN "esc" ELSE e.data[i])
      /\ \A i \in 1 .. n : q[i] \notin {"nl", "event:", "data:"}
  <2>1. e.data \in Seq(Characters)
    BY DEF Events
  <2>2. QED
    BY <2>1, QuotedType, LenProperties
<1>2. {"event:", "nl", "data:", "quote", e.event} \subseteq Symbols
  BY DEF Events, Symbols, Framing, EventNames
<1>3. C \in Seq(Symbols) /\ Len(C) = 3 /\ C[1] = "quote" /\ C[2] = "nl" /\ C[3] = "nl"
  BY <1>2, ThreeOf DEF Closing
<1>4. /\ P \in Seq(Symbols) /\ Len(P) = 5 /\ P[1] = "event:" /\ P[2] = e.event /\ P[3] = "nl"
      /\ P[4] = "data:" /\ P[5] = "quote"
  BY <1>2, FiveOf DEF Opening
<1> DEFINE qC == q \o C
<1> HIDE DEF q, n, C, P
<1>5. /\ qC \in Seq(Symbols) /\ Len(qC) = n + 3 /\ \A i \in 1 .. n : qC[i] = q[i]
      /\ qC[n + 1] = "quote" /\ qC[n + 2] = "nl" /\ qC[n + 3] = "nl"
  <2>1. /\ qC \in Seq(Symbols) /\ Len(qC) = n + 3 /\ \A i \in 1 .. n : qC[i] = q[i]
        /\ \A i \in 1 .. 3 : qC[n + i] = C[i]
    <3>0. q \in Seq(Symbols) /\ C \in Seq(Symbols)
      BY <1>1, <1>3
    <3>1. /\ qC \in Seq(Symbols) /\ Len(qC) = Len(q) + Len(C)
          /\ \A i \in 1 .. Len(q) : qC[i] = q[i]
          /\ \A i \in 1 .. Len(C) : qC[Len(q) + i] = C[i]
      BY <3>0, ConcatAt
    <3> HIDE DEF qC
    <3>2. QED
      BY <1>1, <1>3, <3>1
  <2> HIDE DEF qC
  <2>2. qC[n + 1] = C[1] /\ qC[n + 2] = C[2] /\ qC[n + 3] = C[3]
    BY <2>1
  <2>3. QED
    BY <1>3, <2>1, <2>2
<1> HIDE DEF qC
<1> DEFINE t == P \o qC
<1>6. /\ t \in Seq(Symbols) /\ Len(t) = 5 + (n + 3) /\ \A i \in 1 .. 5 : t[i] = P[i]
      /\ \A i \in 1 .. n + 3 : t[5 + i] = qC[i]
  <2>0. P \in Seq(Symbols) /\ qC \in Seq(Symbols)
    BY <1>4, <1>5
  <2>1. /\ t \in Seq(Symbols) /\ Len(t) = Len(P) + Len(qC)
        /\ \A i \in 1 .. Len(P) : t[i] = P[i]
        /\ \A i \in 1 .. Len(qC) : t[Len(P) + i] = qC[i]
    BY <2>0, ConcatAt
  <2> HIDE DEF t
  <2>2. QED
    BY <1>4, <1>5, <2>1
<1> HIDE DEF t
<1>7. t[n + 6] = "quote" /\ t[n + 7] = "nl" /\ t[n + 8] = "nl"
  <2>1. t[5 + (n + 1)] = qC[n + 1] /\ t[5 + (n + 2)] = qC[n + 2] /\ t[5 + (n + 3)] = qC[n + 3]
    <3>1. n + 1 \in 1 .. n + 3 /\ n + 2 \in 1 .. n + 3 /\ n + 3 \in 1 .. n + 3
      BY <1>1
    <3>2. QED
      BY <1>6, <3>1
  <2>2. 5 + (n + 1) = n + 6 /\ 5 + (n + 2) = n + 7 /\ 5 + (n + 3) = n + 8
    BY <1>1
  <2>3. QED
    BY <1>5, <2>1, <2>2
<1>8. Len(t) = n + 8
  BY <1>1, <1>6
<1>9. ASSUME NEW i \in 1 .. n PROVE t[i + 5] = q[i]
  <2>1. i \in 1 .. n + 3 /\ i + 5 = 5 + i
    BY <1>1
  <2>2. t[5 + i] = qC[i] /\ qC[i] = q[i]
    BY <1>5, <1>6, <2>1
  <2>3. QED
    BY <2>1, <2>2
<1>10. t[1] = "event:" /\ t[2] = e.event /\ t[3] = "nl" /\ t[4] = "data:" /\ t[5] = "quote"
  <2>1. 1 \in 1 .. 5 /\ 2 \in 1 .. 5 /\ 3 \in 1 .. 5 /\ 4 \in 1 .. 5 /\ 5 \in 1 .. 5
    OBVIOUS
  <2>2. t[1] = P[1] /\ t[2] = P[2] /\ t[3] = P[3] /\ t[4] = P[4] /\ t[5] = P[5]
    BY <1>6, <2>1
  <2>3. QED
    BY <1>4, <2>2
<1>11. t = Text(e)
  BY DEF t, P, qC, q, C, Text
<1>12. QED
  <2>1. t \in Seq(Symbols) /\ Len(t) = n + 8
    BY <1>6, <1>8
  <2>2. \A i \in 1 .. n : t[i + 5] = IF e.data[i] = "newline" THEN "esc" ELSE e.data[i]
    BY <1>1, <1>9
  <2>3. \A i \in 1 .. n : t[i + 5] \notin {"nl", "event:", "data:"}
    BY <1>1, <1>9
  <2>4. QED
    BY <1>1, <1>7, <1>10, <1>11, <2>1, <2>2, <2>3 DEF n

-----------------------------------------------------------------------------
(* Parsing *)

(* Min is the element that is below all. *)
LEMMA MinIs ==
  ASSUME NEW B \in SUBSET Int, NEW m \in B, \A k \in B : m <= k
  PROVE  Min(B) = m
<1>1. \E x \in B : \A y \in B : x =< y
  OBVIOUS
<1>2. Min(B) \in B /\ \A y \in B : Min(B) =< y
  BY <1>1, Zenon DEF Min
<1>3. Min(B) \in Int /\ m \in Int /\ Min(B) =< m /\ m <= Min(B)
  BY <1>2
<1>4. QED
  BY <1>3

(* A part of one element. *)
LEMMA SubSeqOne ==
  ASSUME NEW S, NEW s \in Seq(S), NEW k \in 1 .. Len(s)
  PROVE  SubSeq(s, k, k) = <<s[k]>>
<1> DEFINE one == SubSeq(s, k, k)
<1>1. one \in Seq(S) /\ Len(one) = 1 /\ one[1] = s[k]
  OBVIOUS
<1>2. <<s[k]>> \in Seq(S) /\ Len(<<s[k]>>) = 1 /\ <<s[k]>>[1] = s[k]
  OBVIOUS
<1> HIDE DEF one
<1>3. one = <<s[k]>>
  BY <1>1, <1>2, SeqEqual
<1>4. QED
  BY <1>3 DEF one

(* Max of one element. *)
LEMMA MaxOfOne ==
  ASSUME NEW m \in Int
  PROVE  Max({m}) = m
BY DEF Max

(* Where the line ends of an event are, and where its keys. *)
LEMMA Landmarks ==
  ASSUME ReplyStreamAssumption, NEW e \in Events, NEW i \in 1 .. Len(e.data) + 7
  PROVE  /\ Text(e)[i] = "nl" <=> i \in {3, Len(e.data) + 7}
         /\ Text(e)[i] = "event:" <=> i = 1
         /\ Text(e)[i] = "data:" <=> i = 4
<1> DEFINE n == Len(e.data)
           t == Text(e)
<1>1. n \in Nat /\ t[1] = "event:" /\ t[2] = e.event /\ t[3] = "nl" /\ t[4] = "data:"
      /\ t[5] = "quote" /\ t[n + 6] = "quote" /\ t[n + 7] = "nl"
  BY TextShape
<1>2. \A j \in 1 .. n : t[j + 5] \notin {"nl", "event:", "data:"}
  BY TextShape
<1>3. e.event \notin {"nl", "event:", "data:"}
  BY DEF Events, EventNames
<1> HIDE DEF t
<1>4. i \in {1, 2, 3, 4, 5, n + 6, n + 7} \/ i - 5 \in 1 .. n
  BY <1>1
<1> HIDE DEF n
<1>5. ASSUME i - 5 \in 1 .. n
      PROVE  t[i] \notin {"nl", "event:", "data:"} /\ i \notin {1, 3, 4, n + 7}
  <2>1. i = (i - 5) + 5
    OBVIOUS
  <2>2. t[(i - 5) + 5] \notin {"nl", "event:", "data:"}
    BY <1>2, <1>5
  <2>3. i \notin {1, 3, 4, n + 7}
    BY <1>1, <1>5
  <2>4. QED
    BY <2>1, <2>2, <2>3
<1>6. ASSUME i \in {1, 2, 3, 4, 5, n + 6, n + 7}
      PROVE  /\ t[i] = "nl" <=> i \in {3, n + 7}
             /\ t[i] = "event:" <=> i = 1
             /\ t[i] = "data:" <=> i = 4
  BY <1>1, <1>3, <1>6
<1>7. QED
  <2>1. CASE i - 5 \in 1 .. n
    BY <2>1, <1>5 DEF t, n
  <2>2. CASE i \in {1, 2, 3, 4, 5, n + 6, n + 7}
    BY <2>2, <1>6 DEF t, n
  <2>3. QED
    BY <1>4, <2>1, <2>2

(* parseSseEvent reads the event from its text. *)
LEMMA ParseText ==
  ASSUME ReplyStreamAssumption, NEW e \in Events, NEW raw \in Seq(Symbols),
         Len(raw) = Len(e.data) + 6,
         \A i \in 1 .. Len(raw) : raw[i] = Text(e)[i]
  PROVE  ParseSseEvent(raw) = <<e>>
<1> DEFINE n == Len(e.data)
<1>1. n \in Nat /\ Len(raw) = n + 6 /\ DOMAIN raw = 1 .. n + 6
  <2>1. e.data \in Seq(Characters)
    BY DEF Events
  <2>2. n \in Nat
    BY <2>1, LenProperties
  <2>3. QED
    BY <2>2, LenProperties
<1>2. ASSUME NEW i \in 1 .. n + 6
      PROVE  /\ raw[i] = "nl" <=> i = 3
             /\ raw[i] = "event:" <=> i = 1
             /\ raw[i] = "data:" <=> i = 4
  <2>1. raw[i] = Text(e)[i]
    BY <1>1
  <2>2. i \in 1 .. n + 7 /\ i # n + 7
    BY <1>1
  <2>3. QED
    BY <2>1, <2>2, Landmarks
<1>3. e.event \in EventNames /\ e.data \in Seq(Characters) /\ e = [event |-> e.event, data |-> e.data]
  BY DEF Events
<1>4. raw[2] = e.event /\ raw[5] = "quote" /\ raw[n + 6] = "quote"
  <2>1. 2 \in 1 .. n + 6 /\ 5 \in 1 .. n + 6 /\ n + 6 \in 1 .. n + 6
    BY <1>1
  <2>2. raw[2] = Text(e)[2] /\ raw[5] = Text(e)[5] /\ raw[n + 6] = Text(e)[n + 6]
    BY <1>1, <2>1
  <2>3. QED
    BY <2>2, TextShape
<1>5. ASSUME NEW i \in 1 .. n
      PROVE  raw[i + 5] = IF e.data[i] = "newline" THEN "esc" ELSE e.data[i]
  <2>1. i + 5 \in 1 .. n + 6
    BY <1>1
  <2>2. raw[i + 5] = Text(e)[i + 5]
    BY <1>1, <2>1
  <2>3. Text(e)[i + 5] = IF e.data[i] = "newline" THEN "esc" ELSE e.data[i]
    BY TextShape
  <2>4. QED
    BY <2>2, <2>3
<1> HIDE DEF n
<1> DEFINE ends == {i \in DOMAIN raw : raw[i] = "nl"} \cup {Len(raw) + 1}
<1>6. ends = {3, n + 7}
  <2>1. 3 \in 1 .. n + 6
    BY <1>1
  <2>2. {i \in 1 .. n + 6 : raw[i] = "nl"} = {3}
    BY <1>2, <2>1
  <2>3. QED
    BY <1>1, <2>2
<1>7. {i \in DOMAIN raw : raw[i] = "event:"} = {1} /\ {i \in DOMAIN raw : raw[i] = "data:"} = {4}
  <2>1. 1 \in 1 .. n + 6 /\ 4 \in 1 .. n + 6
    BY <1>1
  <2>2. {i \in 1 .. n + 6 : raw[i] = "event:"} = {1}
    BY <1>2, <2>1
  <2>3. {i \in 1 .. n + 6 : raw[i] = "data:"} = {4}
    BY <1>2, <2>1
  <2>4. QED
    BY <1>1, <2>2, <2>3
<1>8. Min({i \in ends : i > 1}) = 3 /\ Min({i \in ends : i > 4}) = n + 7
  <2> HIDE DEF ends
  <2>1. {i \in ends : i > 1} = {3, n + 7}
    BY <1>1, <1>6
  <2>2. {i \in ends : i > 4} = {n + 7}
    BY <1>1, <1>6
  <2>3. Min({3, n + 7}) = 3
    <3>1. {3, n + 7} \in SUBSET Int /\ 3 \in {3, n + 7} /\ \A k \in {3, n + 7} : 3 <= k
      BY <1>1
    <3>2. QED
      BY <3>1, MinIs
  <2>4. Min({n + 7}) = n + 7
    <3>1. {n + 7} \in SUBSET Int /\ n + 7 \in {n + 7} /\ \A k \in {n + 7} : n + 7 <= k
      BY <1>1
    <3>2. QED
      BY <3>1, MinIs
  <2>5. QED
    BY <2>1, <2>2, <2>3, <2>4
<1>9. Max({1}) = 1 /\ Max({4}) = 4
  BY MaxOfOne
<1>10. ASSUME NEW key, NEW k \in Nat, {i \in DOMAIN raw : raw[i] = key} = {k}, Max({k}) = k
       PROVE  Line(raw, key) = SubSeq(raw, k + 1, Min({i \in ends : i > k}) - 1)
  <2> DEFINE at == {i \in DOMAIN raw : raw[i] = key}
  <2>1. Line(raw, key) = IF at = {} THEN <<>>
                         ELSE SubSeq(raw, Max(at) + 1, Min({i \in ends : i > Max(at)}) - 1)
    BY DEF Line
  <2>2. at = {k}
    BY <1>10
  <2> HIDE DEF at, ends
  <2>3. at # {} /\ Max(at) = k
    BY <1>10, <2>2
  <2>4. QED
    BY <2>1, <2>3
<1>11. Line(raw, "event:") = <<e.event>> /\ Line(raw, "data:") = SubSeq(raw, 5, n + 6)
  <2> HIDE DEF ends
  <2>1. Line(raw, "event:") = SubSeq(raw, 1 + 1, 3 - 1)
    <3>1. Line(raw, "event:") = SubSeq(raw, 1 + 1, Min({i \in ends : i > 1}) - 1)
      <4>1. 1 \in Nat /\ {i \in DOMAIN raw : raw[i] = "event:"} = {1} /\ Max({1}) = 1
        BY <1>7, <1>9
      <4>2. QED
        BY <4>1, <1>10, SMTT(30)
    <3>2. QED
      BY <1>8, <3>1
  <2>2. Line(raw, "data:") = SubSeq(raw, 4 + 1, (n + 7) - 1)
    BY <1>7, <1>8, <1>9, <1>10
  <2>3. (n + 7) - 1 = n + 6 /\ 1 + 1 = 2 /\ 3 - 1 = 2 /\ 4 + 1 = 5
    BY <1>1
  <2>4. SubSeq(raw, 2, 2) = <<raw[2]>>
    <3>1. 2 \in 1 .. Len(raw)
      BY <1>1
    <3>2. QED
      BY <3>1, SubSeqOne
  <2>5. Line(raw, "event:") = <<e.event>>
    BY <1>4, <2>1, <2>3, <2>4
  <2>6. Line(raw, "data:") = SubSeq(raw, 5, n + 6)
    BY <2>2, <2>3
  <2>7. QED
    BY <2>5, <2>6
<1> DEFINE d == SubSeq(raw, 5, n + 6)
<1>13. Len(d) = n + 2 /\ DOMAIN d = 1 .. n + 2 /\ \A i \in 1 .. n + 2 : d[i] = raw[i + 4]
  BY <1>1
<1> HIDE DEF d, ends
<1>14. d[1] = "quote" /\ d[n + 2] = "quote"
  <2>1. 1 \in 1 .. n + 2 /\ n + 2 \in 1 .. n + 2 /\ 1 + 4 = 5 /\ (n + 2) + 4 = n + 6
    BY <1>1
  <2>2. d[1] = raw[1 + 4] /\ d[n + 2] = raw[(n + 2) + 4]
    BY <1>13, <2>1
  <2>3. QED
    BY <1>4, <2>1, <2>2
<1>15. IsJson(d) /\ d # <<>>
  BY <1>1, <1>13, <1>14 DEF IsJson, Last
<1>16. Parse(d) = e.data
  <2>1. DOMAIN e.data = 1 .. n /\ Len(d) - 2 = n /\ e.data = [i \in 1 .. n |-> e.data[i]]
    BY <1>1, <1>3, <1>13 DEF n
  <2>2. ASSUME NEW i \in 1 .. n
        PROVE  (IF d[i + 1] = "esc" THEN "newline" ELSE d[i + 1]) = e.data[i]
    <3>1. d[i + 1] = raw[i + 5]
      <4>1. i + 1 \in 1 .. n + 2 /\ (i + 1) + 4 = i + 5
        BY <1>1
      <4>2. d[i + 1] = raw[(i + 1) + 4]
        BY <1>13, <4>1
      <4>3. QED
        BY <4>1, <4>2
    <3>2. e.data[i] # "esc"
      BY <1>3, <2>1 DEF ReplyStreamAssumption, Framing
    <3>3. QED
      BY <1>5, <3>1, <3>2
  <2>3. Parse(d) = [i \in 1 .. n |-> IF d[i + 1] = "esc" THEN "newline" ELSE d[i + 1]]
    BY <2>1 DEF Parse
  <2>4. Parse(d) = [i \in 1 .. n |-> e.data[i]]
    BY <2>2, <2>3
  <2>5. QED
    BY <2>1, <2>4
<1>17. ParseSseEvent(raw) = <<SseEvent(<<e.event>>[1], Parse(d))>>
  <2>1. Line(raw, "event:") = <<e.event>> /\ Line(raw, "data:") = d
    BY <1>11 DEF d
  <2>2. <<e.event>> # <<>>
    OBVIOUS
  <2>3. QED
    BY <1>15, <2>1, <2>2 DEF ParseSseEvent
<1>18. QED
  BY <1>3, <1>16, <1>17 DEF SseEvent

(* What Hear cuts from the buffer, and what it leaves. *)
CutOff == SubSeq(buffer, 1, Min(Boundaries) - 1)
Remaining == SubSeq(buffer, Min(Boundaries) + 2, Len(buffer))

(* The buffer and what is to come, z: the text of e, and then r. *)
Begins(e, r, z) ==
    /\ e \in Events /\ r \in Seq(Symbols) /\ z \in Seq(Symbols) /\ buffer \in Seq(Symbols)
    /\ buffer \o z = Text(e) \o r

(* When the client finds the end of an event it is the end of the first one. *)
LEMMA FirstEvent ==
  ASSUME ReplyStreamAssumption, NEW e, NEW r, NEW z, Begins(e, r, z), Boundaries # {}
  PROVE  /\ ParseSseEvent(CutOff) = <<e>>
         /\ Remaining \in Seq(Symbols) /\ Remaining \o z = r
<1> DEFINE n == Len(e.data)
           t == Text(e)
           all == buffer \o z
<1>0. /\ e \in Events /\ r \in Seq(Symbols) /\ z \in Seq(Symbols) /\ buffer \in Seq(Symbols)
      /\ buffer \o z = Text(e) \o r
  BY DEF Begins
<1> USE <1>0
<1>1. n \in Nat /\ t \in Seq(Symbols) /\ Len(t) = n + 8 /\ t[n + 7] = "nl" /\ t[n + 8] = "nl"
  BY TextShape
<1>2. /\ Len(buffer) \in Nat /\ Len(z) \in Nat /\ Len(all) = Len(buffer) + Len(z)
      /\ \A i \in 1 .. Len(buffer) : all[i] = buffer[i]
      /\ \A i \in 1 .. Len(z) : all[Len(buffer) + i] = z[i]
  <2>1. buffer \in Seq(Symbols) /\ z \in Seq(Symbols)
    OBVIOUS
  <2> HIDE DEF n, t
  <2>2. \A i \in 1 .. Len(buffer) : all[i] = buffer[i]
    BY <2>1
  <2>3. \A i \in 1 .. Len(z) : all[Len(buffer) + i] = z[i]
    BY <2>1, ConcatAt, SMTT(30)
  <2>4. Len(buffer) \in Nat /\ Len(z) \in Nat /\ Len(all) = Len(buffer) + Len(z)
    BY <2>1
  <2>5. QED
    BY <2>2, <2>3, <2>4
<1>3. /\ Len(r) \in Nat /\ Len(all) = Len(t) + Len(r)
      /\ \A i \in 1 .. Len(t) : all[i] = t[i]
      /\ \A i \in 1 .. Len(r) : all[Len(t) + i] = r[i]
  <2>1. t \in Seq(Symbols) /\ r \in Seq(Symbols)
    BY <1>1
  <2> HIDE DEF t
  <2>2. /\ Len(r) \in Nat /\ Len(t \o r) = Len(t) + Len(r)
        /\ \A i \in 1 .. Len(t) : (t \o r)[i] = t[i]
        /\ \A i \in 1 .. Len(r) : (t \o r)[Len(t) + i] = r[i]
    BY <2>1, ConcatAt
  <2>3. all = t \o r
    BY DEF t
  <2>4. QED
    BY <2>2, <2>3
<1>4. \A i \in 1 .. n + 7 : t[i] = "nl" <=> i \in {3, n + 7}
  BY Landmarks
<1> HIDE DEF n, t, all
<1>5. ASSUME NEW b \in Boundaries PROVE b \in Int /\ n + 7 <= b /\ n + 8 <= Len(buffer)
  <2>1. b \in 1 .. Len(buffer) - 1 /\ buffer[b] = "nl" /\ buffer[b + 1] = "nl"
    BY DEF Boundaries
  <2>2. b \in 1 .. Len(buffer) /\ b + 1 \in 1 .. Len(buffer) /\ b \in Int
    BY <1>2, <2>1
  <2>3. all[b] = "nl" /\ all[b + 1] = "nl"
    BY <1>2, <2>1, <2>2
  <2>4. ASSUME b < n + 7 PROVE FALSE
    <3>1. b \in 1 .. n + 7 /\ b + 1 \in 1 .. n + 7 /\ b \in 1 .. Len(t) /\ b + 1 \in 1 .. Len(t)
      BY <1>1, <2>2, <2>4
    <3>2. t[b] = "nl" /\ t[b + 1] = "nl"
      BY <1>3, <2>3, <3>1
    <3>3. b \in {3, n + 7} /\ b + 1 \in {3, n + 7}
      BY <1>4, <3>1, <3>2
    <3>4. QED
      BY <1>1, <2>2, <2>4, <3>3
  <2>5. QED
    BY <1>1, <1>2, <2>2, <2>4
<1>6. n + 8 <= Len(buffer)
  BY <1>5
<1>7. n + 7 \in Boundaries
  <2>1. n + 7 \in 1 .. Len(buffer) - 1 /\ n + 7 \in 1 .. Len(buffer) /\ n + 8 \in 1 .. Len(buffer)
        /\ n + 7 \in 1 .. Len(t) /\ n + 8 \in 1 .. Len(t) /\ (n + 7) + 1 = n + 8
    BY <1>1, <1>2, <1>6
  <2>2. buffer[n + 7] = "nl" /\ buffer[n + 8] = "nl"
    BY <1>1, <1>2, <1>3, <2>1
  <2>3. QED
    BY <2>1, <2>2 DEF Boundaries
<1>8. Min(Boundaries) = n + 7
  <2>1. Boundaries \in SUBSET Int /\ \A k \in Boundaries : n + 7 <= k
    BY <1>5
  <2>2. QED
    BY <1>7, <2>1, MinIs
<1> DEFINE raw == SubSeq(buffer, 1, n + 6)
           rest == SubSeq(buffer, n + 9, Len(buffer))
<1>9. raw \in Seq(Symbols) /\ Len(raw) = n + 6 /\ \A i \in 1 .. n + 6 : raw[i] = t[i]
  <2>1. raw \in Seq(Symbols) /\ Len(raw) = n + 6 /\ \A i \in 1 .. n + 6 : raw[i] = buffer[i]
    BY <1>1, <1>2, <1>6
  <2> HIDE DEF raw
  <2>2. \A i \in 1 .. n + 6 : i \in 1 .. Len(buffer) /\ i \in 1 .. Len(t)
    BY <1>1, <1>2, <1>6
  <2>3. \A i \in 1 .. n + 6 : buffer[i] = t[i]
    BY <1>2, <1>3, <2>2
  <2>4. QED
    BY <2>1, <2>3
<1>10. ParseSseEvent(raw) = <<e>>
  <2> HIDE DEF raw
  <2>1. Len(raw) = Len(e.data) + 6 /\ \A i \in 1 .. Len(raw) : raw[i] = Text(e)[i]
    BY <1>9 DEF n, t
  <2>2. QED
    BY <1>9, <2>1, ParseText
<1>11. /\ rest \in Seq(Symbols) /\ Len(rest) = Len(buffer) - (n + 8)
       /\ \A i \in 1 .. Len(buffer) - (n + 8) : rest[i] = buffer[n + 8 + i]
  <2>1. n + 9 \in Nat /\ n + 9 <= Len(buffer) + 1 /\ buffer \in Seq(Symbols)
    BY <1>1, <1>6
  <2>2. QED
    BY <1>1, <1>2, <1>6
<1> HIDE DEF rest
<1>12. rest \o z = r
  <2> DEFINE u == rest \o z
             m == Len(buffer) - (n + 8)
  <2>0. rest \in Seq(Symbols) /\ z \in Seq(Symbols)
    BY <1>11
  <2>1. /\ u \in Seq(Symbols) /\ Len(u) = Len(rest) + Len(z)
        /\ \A i \in 1 .. Len(rest) : u[i] = rest[i]
        /\ \A i \in 1 .. Len(z) : u[Len(rest) + i] = z[i]
    BY <2>0, ConcatAt
  <2> HIDE DEF u
  <2>2. m \in Nat /\ Len(rest) = m /\ Len(u) = m + Len(z) /\ Len(r) = m + Len(z)
    <3>1. Len(buffer) \in Nat /\ Len(z) \in Nat /\ Len(r) \in Nat
      BY <1>2, <1>3
    <3>2. Len(all) = Len(buffer) + Len(z) /\ Len(all) = (n + 8) + Len(r)
      BY <1>1, <1>2, <1>3
    <3>3. Len(rest) = m /\ Len(u) = Len(rest) + Len(z)
      BY <1>11, <2>1
    <3>4. m \in Nat
      BY <1>1, <1>6, <3>1
    <3>5. Len(r) = m + Len(z)
      <4>1. n \in Nat
        BY <1>1
      <4> DEFINE lb == Len(buffer)
                 lz == Len(z)
                 lr == Len(r)
      <4>2. lb \in Nat /\ lz \in Nat /\ lr \in Nat /\ lb + lz = (n + 8) + lr
        BY <3>1, <3>2
      <4> HIDE DEF lb, lz, lr, m
      <4>3. lr = (lb - (n + 8)) + lz
        BY <4>1, <4>2
      <4>4. QED
        BY <4>3 DEF lb, lz, lr, m
    <3>6. QED
      BY <3>3, <3>4, <3>5
  <2>3. ASSUME NEW i \in 1 .. m + Len(z) PROVE u[i] = r[i]
    <3>1. r[i] = all[n + 8 + i]
      BY <1>1, <1>3, <2>2
    <3>2. CASE i <= m
      <4>1. i \in 1 .. m /\ n + 8 + i \in 1 .. Len(buffer)
        BY <1>1, <1>2, <2>2, <3>2
      <4>2. u[i] = rest[i] /\ rest[i] = buffer[n + 8 + i]
        BY <1>11, <2>1, <2>2, <4>1
      <4>3. all[n + 8 + i] = buffer[n + 8 + i]
        BY <1>2, <4>1
      <4>4. QED
        BY <3>1, <4>2, <4>3
    <3>3. CASE ~(i <= m)
      <4>1. i - m \in 1 .. Len(z) /\ i = m + (i - m) /\ n + 8 + i = Len(buffer) + (i - m)
        BY <1>1, <1>2, <2>2, <3>3
      <4> HIDE DEF m
      <4>2. u[m + (i - m)] = z[i - m]
        BY <2>1, <2>2, <4>1
      <4>3. all[Len(buffer) + (i - m)] = z[i - m]
        BY <1>2, <4>1
      <4>4. QED
        BY <3>1, <4>1, <4>2, <4>3
    <3>4. QED
      BY <3>2, <3>3
  <2>4. u = r
    <3> HIDE DEF m
    <3> QED BY <2>1, <2>2, <2>3, SeqEqual
  <2>5. QED
    BY <2>4 DEF u
<1>13. QED
  <2>1. (n + 7) - 1 = n + 6 /\ (n + 7) + 2 = n + 9
    BY <1>1
  <2>2. QED
    BY <1>8, <1>10, <1>11, <1>12, <2>1 DEF raw, rest, CutOff, Remaining

-----------------------------------------------------------------------------
(* The invariant *)

ToolCall == [sql : Seq(Seq(Characters)), rows : Seq(Characters)]
StoredReply == [text : Seq(Characters), calls : Seq(ToolCall), error : BOOLEAN]

(* The text written: that of the rounds that ended, and of the running one. *)
Written == reply.text \o roundContent

StreamTypeOK ==
    /\ sent \in Seq(Events) /\ sent # <<>>
    /\ reply \in StoredReply
    /\ roundContent \in Seq(Characters)
    /\ asked \in Seq(Seq(Characters))
    /\ wire \in Seq(Symbols)
    /\ socket \in {"open", "ended", "destroyed", "left"}
    /\ carry \in {<<>>, <<"hi">>}
    /\ buffer \in Seq(Symbols)
    /\ heard \in Seq(Events)
    /\ view \in [text : Seq(Characters), calls : Seq(ToolCall), pending : Seq(Seq(Characters))]

Connected == socket \in {"open", "ended"}

(* The events after the first h, as the client decodes them. *)
Rest(es, h) == [i \in 1 .. Len(es) - h |-> Text(es[h + i])]

(* The events sent and not heard are all there, decoded or not. *)

InTransit ==
    /\ Len(heard) <= Len(sent)
    /\ \A i \in 1 .. Len(heard) : heard[i] = sent[i]
    /\ Connected => buffer \o Decode(carry \o wire) = FlattenSeq(Rest(sent, Len(heard)))
    /\ ~Connected => Boundaries = {}

(* Rows follow their query at once; nothing follows the last event. *)
Follows(a, b) ==
    /\ a.event \notin {"done", "error"}
    /\ IF a.event = "tool_call" THEN b.event \in {"tool_result", "error"}
       ELSE b.event # "tool_result"

EventsInOrder ==
    /\ sent[1].event = "conversation"
    /\ \A i \in 1 .. Len(sent) - 1 : Follows(sent[i], sent[i + 1])
    /\ Connected => (socket = "ended" <=> Last(sent).event \in {"done", "error"})

(* What events come to: the text, the calls, the query that has no rows. *)
TextAt(es, i) == IF es[i].event = "token" THEN es[i].data ELSE <<>>
TextOf(es) == FlattenSeq([i \in 1 .. Len(es) |-> TextAt(es, i)])

CallAt(es, i) ==
    IF es[i].event = "tool_result"
    THEN <<[sql |-> <<es[i - 1].data>>, rows |-> es[i].data]>> ELSE <<>>
CallsOf(es) == FlattenSeq([i \in 1 .. Len(es) |-> CallAt(es, i)])

Waiting(es) ==
    LET n == Len(es) IN
    IF n > 0 /\ es[n].event = "tool_call" THEN <<es[n].data>>
    ELSE IF n > 1 /\ es[n].event = "error" /\ es[n - 1].event = "tool_call"
    THEN <<es[n - 1].data>> ELSE <<>>

(* Calls are shown with their rows; a query may be missing. *)
SameCalls(shown, calls) ==
    /\ Len(shown) = Len(calls)
    /\ \A i \in 1 .. Len(calls) :
        shown[i].rows = calls[i].rows /\ shown[i].sql \in {calls[i].sql, <<>>}

Recorded ==
    Connected => /\ Written = TextOf(sent)
                 /\ reply.calls = CallsOf(sent)
                 /\ asked = Waiting(sent)
                 /\ Last(sent).event = "done" => roundContent = <<>> /\ ~reply.error
                 /\ Last(sent).event = "error" => reply.error

Shown ==
    IF Connected THEN /\ view.text = TextOf(heard)
                      /\ SameCalls(view.calls, CallsOf(heard))
                      /\ view.pending = Waiting(heard)
    ELSE view = EmptyView

StreamInv == StreamTypeOK /\ InTransit /\ EventsInOrder /\ Recorded /\ Shown

-----------------------------------------------------------------------------
(* What events come to *)

(* One part more comes first. *)
LEMMA FlattenCons ==
  ASSUME NEW S, NEW x \in Seq(S), NEW ss \in Seq(Seq(S))
  PROVE  FlattenSeq(<<x>> \o ss) = x \o FlattenSeq(ss)
<1>1. <<x>> \in Seq(Seq(S))
  OBVIOUS
<1>2. FlattenSeq(<<x>> \o ss) = FlattenSeq(<<x>>) \o FlattenSeq(ss)
  BY <1>1, FlattenConcat
<1>3. FlattenSeq(<<x>>) = x
  BY FlattenOne
<1>4. QED
  BY <1>2, <1>3

(* More to flatten makes what is flattened longer, and changes nothing of it. *)
LEMMA FlattenPrefix ==
  ASSUME NEW S, NEW ss \in Seq(Seq(S)), NEW tt \in Seq(Seq(S)),
         Len(ss) <= Len(tt), \A i \in 1 .. Len(ss) : ss[i] = tt[i]
  PROVE  /\ Len(FlattenSeq(ss)) <= Len(FlattenSeq(tt))
         /\ \A i \in 1 .. Len(FlattenSeq(ss)) : FlattenSeq(tt)[i] = FlattenSeq(ss)[i]
<1> DEFINE n == Len(ss)
           rest == SubSeq(tt, n + 1, Len(tt))
           a == FlattenSeq(ss)
           b == FlattenSeq(rest)
<1>1. rest \in Seq(Seq(S)) /\ SubSeq(tt, 1, n) = ss
  <2>1. n \in Nat /\ n <= Len(tt) /\ Len(tt) \in Nat
    BY LenProperties
  <2>2. SubSeq(tt, 1, n) \in Seq(Seq(S)) /\ Len(SubSeq(tt, 1, n)) = n
        /\ \A i \in 1 .. n : SubSeq(tt, 1, n)[i] = tt[i]
    BY <2>1
  <2>3. SubSeq(tt, 1, n) = ss
    <3> DEFINE p == SubSeq(tt, 1, n)
    <3>1. p \in Seq(Seq(S)) /\ Len(p) = Len(ss) /\ \A i \in 1 .. Len(p) : p[i] = ss[i]
      BY <2>2
    <3> HIDE DEF p
    <3>2. p = ss
      BY <3>1, SeqEqual
    <3>3. QED
      BY <3>2 DEF p
  <2>4. rest \in Seq(Seq(S))
    BY <2>1
  <2>5. QED
    BY <2>3, <2>4
<1>2. tt = ss \o rest
  <2> DEFINE all == ss \o rest
  <2>1. n \in Nat /\ Len(tt) \in Nat /\ n <= Len(tt) /\ tt \in Seq(Seq(S))
    BY LenProperties
  <2>2. Len(rest) = Len(tt) - n /\ \A i \in 1 .. Len(tt) - n : rest[i] = tt[n + i]
    BY <2>1
  <2>3. ss \in Seq(Seq(S)) /\ rest \in Seq(Seq(S))
    BY <1>1
  <2> HIDE DEF rest
  <2>4. /\ all \in Seq(Seq(S)) /\ Len(all) = n + Len(rest)
        /\ \A i \in 1 .. n : all[i] = ss[i]
        /\ \A i \in 1 .. Len(rest) : all[n + i] = rest[i]
    BY <2>3, ConcatAt
  <2> HIDE DEF all, n
  <2>5. Len(all) = Len(tt)
    BY <2>1, <2>2, <2>4
  <2>6. ASSUME NEW i \in 1 .. Len(tt) PROVE tt[i] = all[i]
    <3>1. CASE i \in 1 .. n
      BY <3>1, <2>4 DEF n
    <3>2. CASE i \notin 1 .. n
      <4>1. i - n \in 1 .. Len(tt) - n /\ n + (i - n) = i
        BY <2>1, <3>2
      <4>2. all[n + (i - n)] = rest[i - n] /\ rest[i - n] = tt[n + (i - n)]
        BY <2>2, <2>4, <4>1
      <4>3. QED
        BY <4>1, <4>2
    <3>3. QED
      BY <3>1, <3>2
  <2>7. tt = all
    BY <2>1, <2>4, <2>5, <2>6, SeqEqual
  <2>8. QED
    BY <2>7 DEF all
<1> HIDE DEF rest
<1>3. FlattenSeq(tt) = a \o b
  BY <1>1, <1>2, FlattenConcat
<1>4. a \in Seq(S) /\ b \in Seq(S)
  BY <1>1, FlattenType
<1> HIDE DEF a, b
<1>5. Len(a) \in Nat /\ Len(b) \in Nat /\ Len(a \o b) = Len(a) + Len(b) /\ \A i \in 1 .. Len(a) : (a \o b)[i] = a[i]
  BY <1>4, ConcatAt
<1>6. QED
  BY <1>3, <1>5 DEF a

(* Events that have rows only after a query. *)
Sound(es) ==
    \A i \in 1 .. Len(es) :
        es[i].event = "tool_result" => i > 1 /\ es[i - 1].event = "tool_call"

(* What sound events come to. *)
LEMMA PartsType ==
  ASSUME NEW es \in Seq(Events), Sound(es)
  PROVE  /\ [i \in 1 .. Len(es) |-> TextAt(es, i)] \in Seq(Seq(Characters))
         /\ [i \in 1 .. Len(es) |-> CallAt(es, i)] \in Seq(Seq(ToolCall))
         /\ TextOf(es) \in Seq(Characters)
         /\ CallsOf(es) \in Seq(ToolCall)
         /\ Waiting(es) \in Seq(Seq(Characters))
<1>1. Len(es) \in Nat /\ \A i \in 1 .. Len(es) : es[i] \in Events
  BY LenProperties, ElementOfSeq
<1>2. \A i \in 1 .. Len(es) : es[i].data \in Seq(Characters)
  BY <1>1 DEF Events
<1>3. \A i \in 1 .. Len(es) : TextAt(es, i) \in Seq(Characters)
  BY <1>2, EmptySeq DEF TextAt
<1>4. ASSUME NEW i \in 1 .. Len(es) PROVE CallAt(es, i) \in Seq(ToolCall)
  <2>1. CASE es[i].event = "tool_result"
    <3>1. i - 1 \in 1 .. Len(es)
      BY <1>1, <2>1 DEF Sound
    <3>2. <<es[i - 1].data>> \in Seq(Seq(Characters)) /\ es[i].data \in Seq(Characters)
      BY <1>2, <3>1
    <3>3. [sql |-> <<es[i - 1].data>>, rows |-> es[i].data] \in ToolCall
      BY <3>2 DEF ToolCall
    <3>4. QED
      BY <2>1, <3>3 DEF CallAt
  <2>2. CASE es[i].event # "tool_result"
    BY <2>2, EmptySeq DEF CallAt
  <2>3. QED
    BY <2>1, <2>2
<1>5. [i \in 1 .. Len(es) |-> TextAt(es, i)] \in Seq(Seq(Characters))
  BY <1>1, <1>3
<1>6. [i \in 1 .. Len(es) |-> CallAt(es, i)] \in Seq(Seq(ToolCall))
  BY <1>1, <1>4
<1>7. TextOf(es) \in Seq(Characters)
  BY <1>5, FlattenType DEF TextOf
<1>8. CallsOf(es) \in Seq(ToolCall)
  BY <1>6, FlattenType DEF CallsOf
<1>9. Waiting(es) \in Seq(Seq(Characters))
  <2> DEFINE n == Len(es)
  <2>1. CASE n > 0 /\ es[n].event = "tool_call"
    <3>1. es[n].data \in Seq(Characters)
      BY <1>1, <1>2, <2>1
    <3>2. QED
      BY <2>1, <3>1 DEF Waiting
  <2>2. CASE ~(n > 0 /\ es[n].event = "tool_call")
    <3>1. CASE n > 1 /\ es[n].event = "error" /\ es[n - 1].event = "tool_call"
      <4>1. es[n - 1].data \in Seq(Characters)
        BY <1>1, <1>2, <3>1
      <4>2. Waiting(es) = <<es[n - 1].data>>
        BY <2>2, <3>1 DEF Waiting
      <4>3. QED
        BY <4>1, <4>2
    <3>2. CASE ~(n > 1 /\ es[n].event = "error" /\ es[n - 1].event = "tool_call")
      <4>1. Waiting(es) = <<>>
        BY <2>2, <3>2 DEF Waiting
      <4>2. QED
        BY <4>1, EmptySeq
    <3>3. QED
      BY <3>1, <3>2
  <2>3. QED
    BY <2>1, <2>2
<1>10. QED
  BY <1>5, <1>6, <1>7, <1>8, <1>9

(* One event more. *)
LEMMA PartsAppend ==
  ASSUME NEW es \in Seq(Events), NEW e \in Events, Sound(es), Sound(Append(es, e))
  PROVE  LET more == Append(es, e)
             n == Len(es)
         IN  /\ TextOf(more) = TextOf(es) \o (IF e.event = "token" THEN e.data ELSE <<>>)
             /\ CallsOf(more) = CallsOf(es) \o
                    (IF e.event = "tool_result"
                     THEN <<[sql |-> <<es[n].data>>, rows |-> e.data]>> ELSE <<>>)
             /\ Waiting(more) =
                    IF e.event = "tool_call" THEN <<e.data>>
                    ELSE IF e.event = "error" /\ n > 0 /\ es[n].event = "tool_call"
                    THEN <<es[n].data>> ELSE <<>>
<1> DEFINE more == Append(es, e)
           n == Len(es)
           ss == [i \in 1 .. n |-> TextAt(es, i)]
           cc == [i \in 1 .. n |-> CallAt(es, i)]
<1>1. /\ n \in Nat /\ more \in Seq(Events) /\ Len(more) = n + 1 /\ more[n + 1] = e
      /\ \A i \in 1 .. n : more[i] = es[i]
  OBVIOUS
<1>2. /\ ss \in Seq(Seq(Characters)) /\ cc \in Seq(Seq(ToolCall)) /\ Len(ss) = n /\ Len(cc) = n
      /\ \A i \in 1 .. n : ss[i] = TextAt(es, i) /\ cc[i] = CallAt(es, i)
  BY <1>1, PartsType
<1>3. /\ [i \in 1 .. n + 1 |-> TextAt(more, i)] \in Seq(Seq(Characters))
      /\ [i \in 1 .. n + 1 |-> CallAt(more, i)] \in Seq(Seq(ToolCall))
  BY <1>1, PartsType
<1> HIDE DEF more
<1>4. \A i \in 1 .. n : TextAt(more, i) = TextAt(es, i)
  BY <1>1 DEF TextAt
<1>5. ASSUME NEW i \in 1 .. n PROVE CallAt(more, i) = CallAt(es, i)
  <2>1. CASE es[i].event = "tool_result"
    <3>1. i - 1 \in 1 .. n
      BY <1>1, <2>1 DEF Sound
    <3>2. QED
      BY <1>1, <3>1 DEF CallAt
  <2>2. CASE es[i].event # "tool_result"
    BY <1>1, <2>2 DEF CallAt
  <2>3. QED
    BY <2>1, <2>2
<1>6. TextAt(more, n + 1) = IF e.event = "token" THEN e.data ELSE <<>>
  BY <1>1 DEF TextAt
<1>7. CallAt(more, n + 1) = IF e.event = "tool_result"
                            THEN <<[sql |-> <<es[n].data>>, rows |-> e.data]>> ELSE <<>>
  <2>1. CASE e.event = "tool_result"
    <3>1. (n + 1) - 1 = n /\ n > 0
      BY <1>1, <2>1 DEF Sound, more
    <3>2. more[(n + 1) - 1] = es[n]
      BY <1>1, <3>1
    <3>3. QED
      BY <1>1, <2>1, <3>2 DEF CallAt
  <2>2. CASE e.event # "tool_result"
    BY <1>1, <2>2 DEF CallAt
  <2>3. QED
    BY <2>1, <2>2
<1>8. TextAt(more, n + 1) \in Seq(Characters) /\ CallAt(more, n + 1) \in Seq(ToolCall)
  <2>1. e.data \in Seq(Characters)
    BY DEF Events
  <2>2. TextAt(more, n + 1) \in Seq(Characters)
    BY <1>6, <2>1, EmptySeq
  <2>3. CallAt(more, n + 1) = [i \in 1 .. n + 1 |-> CallAt(more, i)][n + 1] /\ n + 1 \in 1 .. n + 1
    BY <1>1
  <2>4. Len([i \in 1 .. n + 1 |-> CallAt(more, i)]) = n + 1
    BY <1>1
  <2>5. CallAt(more, n + 1) \in Seq(ToolCall)
    BY <1>3, <2>3, <2>4, ElementOfSeq
  <2>6. QED
    BY <2>2, <2>5
<1> HIDE DEF ss, cc, n
<1>9. [i \in 1 .. n + 1 |-> TextAt(more, i)] = Append(ss, TextAt(more, n + 1))
  <2> DEFINE u == [i \in 1 .. n + 1 |-> TextAt(more, i)]
             v == Append(ss, TextAt(more, n + 1))
  <2>1. v \in Seq(Seq(Characters)) /\ Len(v) = n + 1 /\ v[n + 1] = TextAt(more, n + 1)
        /\ \A i \in 1 .. n : v[i] = ss[i]
    BY <1>1, <1>2, <1>8
  <2>2. u \in Seq(Seq(Characters)) /\ Len(u) = n + 1 /\ \A i \in 1 .. n + 1 : u[i] = TextAt(more, i)
    BY <1>1, <1>3
  <2> HIDE DEF u, v
  <2>3. ASSUME NEW i \in 1 .. n + 1 PROVE u[i] = v[i]
    <3>1. CASE i \in 1 .. n
      BY <3>1, <1>2, <1>4, <2>1, <2>2
    <3>2. CASE i = n + 1
      BY <3>2, <2>1, <2>2
    <3>3. QED
      BY <1>1, <3>1, <3>2
  <2>4. u = v
    BY <2>1, <2>2, <2>3, SeqEqual
  <2>5. QED
    BY <2>4 DEF u, v
<1>10. [i \in 1 .. n + 1 |-> CallAt(more, i)] = Append(cc, CallAt(more, n + 1))
  <2> DEFINE u == [i \in 1 .. n + 1 |-> CallAt(more, i)]
             v == Append(cc, CallAt(more, n + 1))
  <2>1. v \in Seq(Seq(ToolCall)) /\ Len(v) = n + 1 /\ v[n + 1] = CallAt(more, n + 1)
        /\ \A i \in 1 .. n : v[i] = cc[i]
    BY <1>1, <1>2, <1>8
  <2>2. u \in Seq(Seq(ToolCall)) /\ Len(u) = n + 1 /\ \A i \in 1 .. n + 1 : u[i] = CallAt(more, i)
    BY <1>1, <1>3
  <2> HIDE DEF u, v
  <2>3. ASSUME NEW i \in 1 .. n + 1 PROVE u[i] = v[i]
    <3>1. CASE i \in 1 .. n
      BY <3>1, <1>2, <1>5, <2>1, <2>2
    <3>2. CASE i = n + 1
      BY <3>2, <2>1, <2>2
    <3>3. QED
      BY <1>1, <3>1, <3>2
  <2>4. u = v
    BY <2>1, <2>2, <2>3, SeqEqual
  <2>5. QED
    BY <2>4 DEF u, v
<1>11. TextOf(more) = TextOf(es) \o TextAt(more, n + 1)
  <2>1. FlattenSeq(Append(ss, TextAt(more, n + 1))) = FlattenSeq(ss) \o TextAt(more, n + 1)
    BY <1>2, <1>8, FlattenAppend
  <2>2. TextOf(es) = FlattenSeq(ss)
    BY DEF TextOf, ss, n
  <2>3. TextOf(more) = FlattenSeq([i \in 1 .. n + 1 |-> TextAt(more, i)])
    BY <1>1 DEF TextOf
  <2>4. QED
    BY <1>9, <2>1, <2>2, <2>3
<1>12. CallsOf(more) = CallsOf(es) \o CallAt(more, n + 1)
  <2>1. FlattenSeq(Append(cc, CallAt(more, n + 1))) = FlattenSeq(cc) \o CallAt(more, n + 1)
    BY <1>2, <1>8, FlattenAppend
  <2>2. CallsOf(es) = FlattenSeq(cc)
    BY DEF CallsOf, cc, n
  <2>3. CallsOf(more) = FlattenSeq([i \in 1 .. n + 1 |-> CallAt(more, i)])
    BY <1>1 DEF CallsOf
  <2>4. QED
    BY <1>10, <2>1, <2>2, <2>3
<1>13. Waiting(more) = IF e.event = "tool_call" THEN <<e.data>>
                       ELSE IF e.event = "error" /\ n > 0 /\ es[n].event = "tool_call"
                       THEN <<es[n].data>> ELSE <<>>
  <2>1. n + 1 > 0 /\ (n + 1 > 1 <=> n > 0) /\ (n + 1) - 1 = n
    BY <1>1
  <2>2. n > 0 => more[n] = es[n]
    BY <1>1
  <2>3. QED
    BY <1>1, <2>1, <2>2 DEF Waiting
<1>14. QED
  BY <1>6, <1>7, <1>11, <1>12, <1>13 DEF more, n

(* What the first events come to is the beginning of what all do. *)
LEMMA PartsPrefix ==
  ASSUME NEW first \in Seq(Events), NEW es \in Seq(Events), Sound(es),
         Len(first) <= Len(es), \A i \in 1 .. Len(first) : first[i] = es[i]
  PROVE  /\ Sound(first)
         /\ Len(TextOf(first)) <= Len(TextOf(es))
         /\ \A i \in 1 .. Len(TextOf(first)) : TextOf(es)[i] = TextOf(first)[i]
         /\ Len(CallsOf(first)) <= Len(CallsOf(es))
         /\ \A i \in 1 .. Len(CallsOf(first)) : CallsOf(es)[i] = CallsOf(first)[i]
<1> DEFINE m == Len(first)
           n == Len(es)
<1>1. m \in Nat /\ n \in Nat /\ m <= n /\ \A i \in 1 .. m : i \in 1 .. n /\ first[i] = es[i]
  BY LenProperties
<1>2. ASSUME NEW i \in 1 .. m, first[i].event = "tool_result"
      PROVE  i > 1 /\ i - 1 \in 1 .. m /\ es[i - 1].event = "tool_call"
  BY <1>1, <1>2 DEF Sound
<1>3. Sound(first)
  BY <1>1, <1>2 DEF Sound
<1> DEFINE ss == [i \in 1 .. m |-> TextAt(first, i)]
           tt == [i \in 1 .. n |-> TextAt(es, i)]
           cc == [i \in 1 .. m |-> CallAt(first, i)]
           dd == [i \in 1 .. n |-> CallAt(es, i)]
<1>4. /\ ss \in Seq(Seq(Characters)) /\ tt \in Seq(Seq(Characters))
      /\ cc \in Seq(Seq(ToolCall)) /\ dd \in Seq(Seq(ToolCall))
  BY <1>3, PartsType
<1>5. Len(ss) = m /\ Len(tt) = n /\ Len(cc) = m /\ Len(dd) = n
  BY <1>1
<1>6. \A i \in 1 .. m : ss[i] = tt[i]
  BY <1>1 DEF TextAt
<1>7. ASSUME NEW i \in 1 .. m PROVE cc[i] = dd[i]
  <2>1. CASE first[i].event = "tool_result"
    <3>1. first[i] = es[i] /\ first[i - 1] = es[i - 1]
      BY <1>1, <1>2, <2>1
    <3>2. CallAt(first, i) = CallAt(es, i)
      BY <3>1 DEF CallAt
    <3>3. QED
      BY <1>1, <3>2
  <2>2. CASE first[i].event # "tool_result"
    <3>1. CallAt(first, i) = CallAt(es, i)
      BY <1>1, <2>2 DEF CallAt
    <3>2. QED
      BY <1>1, <3>1
  <2>3. QED
    BY <2>1, <2>2
<1>8. TextOf(first) = FlattenSeq(ss) /\ TextOf(es) = FlattenSeq(tt)
      /\ CallsOf(first) = FlattenSeq(cc) /\ CallsOf(es) = FlattenSeq(dd)
  BY DEF TextOf, CallsOf
<1> HIDE DEF ss, tt, cc, dd, m, n
<1>9. /\ Len(FlattenSeq(ss)) <= Len(FlattenSeq(tt))
      /\ \A i \in 1 .. Len(FlattenSeq(ss)) : FlattenSeq(tt)[i] = FlattenSeq(ss)[i]
  <2>1. Len(ss) <= Len(tt) /\ \A i \in 1 .. Len(ss) : ss[i] = tt[i]
    BY <1>1, <1>5, <1>6
  <2>2. QED
    BY <1>4, <2>1, FlattenPrefix
<1>10. /\ Len(FlattenSeq(cc)) <= Len(FlattenSeq(dd))
       /\ \A i \in 1 .. Len(FlattenSeq(cc)) : FlattenSeq(dd)[i] = FlattenSeq(cc)[i]
  <2>1. Len(cc) <= Len(dd) /\ \A i \in 1 .. Len(cc) : cc[i] = dd[i]
    BY <1>1, <1>5, <1>7
  <2>2. QED
    BY <1>4, <2>1, FlattenPrefix
<1>11. QED
  BY <1>3, <1>8, <1>9, <1>10

-----------------------------------------------------------------------------
(* The bytes *)

(* The texts of the events after the first h. *)
LEMMA RestType ==
  ASSUME ReplyStreamAssumption, NEW es \in Seq(Events), NEW h \in Nat, h <= Len(es)
  PROVE  /\ Rest(es, h) \in Seq(Seq(Symbols)) /\ Len(Rest(es, h)) = Len(es) - h
         /\ \A i \in 1 .. Len(es) - h : Rest(es, h)[i] = Text(es[h + i])
<1>1. Len(es) \in Nat /\ Len(es) - h \in Nat
  <2>1. Len(es) \in Nat
    BY LenProperties
  <2>2. QED
    BY <2>1
<1>2. ASSUME NEW i \in 1 .. Len(es) - h PROVE Text(es[h + i]) \in Seq(Symbols)
  <2>1. h + i \in 1 .. Len(es)
    BY <1>1
  <2>2. es[h + i] \in Events
    BY <2>1, ElementOfSeq
  <2>3. QED
    BY <2>2, TextShape
<1>3. Rest(es, h) \in [1 .. Len(es) - h -> Seq(Symbols)]
  BY <1>2 DEF Rest
<1> DEFINE m == Len(es) - h
           r == Rest(es, h)
<1>4. m \in Nat /\ r \in [1 .. m -> Seq(Symbols)]
  BY <1>1, <1>3
<1>5. \A i \in 1 .. m : r[i] = Text(es[h + i])
  BY DEF Rest
<1> HIDE DEF m, r
<1>6. r \in Seq(Seq(Symbols)) /\ Len(r) = m
  BY <1>4
<1>7. QED
  BY <1>5, <1>6 DEF m, r

(* An event more is a text more. *)
LEMMA RestAppend ==
  ASSUME ReplyStreamAssumption, NEW es \in Seq(Events), NEW e \in Events,
         NEW h \in Nat, h <= Len(es)
  PROVE  Rest(Append(es, e), h) = Append(Rest(es, h), Text(e))
<1> DEFINE u == Rest(Append(es, e), h)
           v == Append(Rest(es, h), Text(e))
           n == Len(es)
           more == Append(es, e)
<1>1. /\ n \in Nat /\ more \in Seq(Events) /\ Len(more) = n + 1 /\ more[n + 1] = e
      /\ \A i \in 1 .. n : more[i] = es[i]
  OBVIOUS
<1> HIDE DEF n, more
<1>2. u \in Seq(Seq(Symbols)) /\ Len(u) = (n + 1) - h /\ \A i \in 1 .. (n + 1) - h : u[i] = Text(more[h + i])
  <2>1. h <= Len(more)
    BY <1>1 DEF n
  <2>2. Rest(more, h) \in Seq(Seq(Symbols)) /\ Len(Rest(more, h)) = Len(more) - h
        /\ \A i \in 1 .. Len(more) - h : Rest(more, h)[i] = Text(more[h + i])
    BY <1>1, <2>1, RestType
  <2>3. QED
    BY <1>1, <2>2 DEF more
<1>3. /\ Rest(es, h) \in Seq(Seq(Symbols)) /\ Len(Rest(es, h)) = n - h
      /\ \A i \in 1 .. n - h : Rest(es, h)[i] = Text(es[h + i])
  BY RestType DEF n
<1>4. Text(e) \in Seq(Symbols)
  BY TextShape
<1> DEFINE r == Rest(es, h)
           x == Text(e)
<1>5. r \in Seq(Seq(Symbols)) /\ Len(r) = n - h /\ x \in Seq(Symbols) /\ v = Append(r, x)
  BY <1>3, <1>4
<1> HIDE DEF r, x, u, v
<1>6. v \in Seq(Seq(Symbols)) /\ Len(v) = (n - h) + 1 /\ v[(n - h) + 1] = x
      /\ \A i \in 1 .. n - h : v[i] = r[i]
  BY <1>5
<1>7. n - h \in Nat
  BY <1>1 DEF n
<1>8. ASSUME NEW i \in 1 .. (n + 1) - h PROVE u[i] = v[i]
  <2>1. CASE i \in 1 .. n - h
    <3>1. h + i \in 1 .. n
      BY <1>1, <1>7, <2>1
    <3>2. u[i] = Text(es[h + i])
      BY <1>1, <1>2, <3>1
    <3>3. QED
      BY <1>3, <1>6, <2>1, <3>2 DEF r
  <2>2. CASE i = (n - h) + 1
    <3>1. h + i = n + 1
      BY <1>1, <1>7, <2>2
    <3>2. u[i] = Text(e)
      BY <1>1, <1>2, <3>1
    <3>3. QED
      BY <1>6, <2>2, <3>2 DEF x
  <2>3. i \in 1 .. n - h \/ i = (n - h) + 1
    BY <1>1, <1>7
  <2>4. QED
    BY <2>1, <2>2, <2>3
<1>9. Len(u) = Len(v)
  BY <1>1, <1>2, <1>6, <1>7
<1>10. u = v
  BY <1>2, <1>6, <1>8, <1>9, SeqEqual
<1>11. QED
  BY <1>10 DEF u, v

(* The next event is the first of the rest. *)
LEMMA RestFirst ==
  ASSUME ReplyStreamAssumption, NEW es \in Seq(Events), NEW h \in Nat, h < Len(es)
  PROVE  /\ Rest(es, h + 1) \in Seq(Seq(Symbols))
         /\ Rest(es, h) = <<Text(es[h + 1])>> \o Rest(es, h + 1)
<1> DEFINE n == Len(es)
           x == Text(es[h + 1])
           r == Rest(es, h + 1)
           u == Rest(es, h)
           v == <<x>> \o r
<1>1. n \in Nat /\ h + 1 \in 1 .. n /\ h + 1 \in Nat /\ h + 1 <= n /\ h <= n
  <2>1. n \in Nat
    BY LenProperties
  <2>2. QED
    BY <2>1
<1>2. x \in Seq(Symbols)
  <2>1. es[h + 1] \in Events
    BY <1>1, ElementOfSeq
  <2>2. QED
    BY <2>1, TextShape
<1>3. r \in Seq(Seq(Symbols)) /\ Len(r) = n - (h + 1)
      /\ \A i \in 1 .. n - (h + 1) : r[i] = Text(es[(h + 1) + i])
  BY <1>1, RestType
<1>4. u \in Seq(Seq(Symbols)) /\ Len(u) = n - h /\ \A i \in 1 .. n - h : u[i] = Text(es[h + i])
  BY <1>1, RestType
<1> HIDE DEF r, u
<1>5. /\ v \in Seq(Seq(Symbols)) /\ Len(v) = 1 + Len(r) /\ v[1] = x
      /\ \A i \in 1 .. Len(r) : v[1 + i] = r[i]
  <2> DEFINE y == x
  <2> HIDE DEF x
  <2>1. <<x>> \in Seq(Seq(Symbols)) /\ Len(<<x>>) = 1 /\ <<x>>[1] = x
    BY <1>2
  <2>2. r \in Seq(Seq(Symbols))
    BY <1>3
  <2>3. /\ <<x>> \o r \in Seq(Seq(Symbols)) /\ Len(<<x>> \o r) = Len(<<x>>) + Len(r)
        /\ \A i \in 1 .. Len(<<x>>) : (<<x>> \o r)[i] = <<x>>[i]
        /\ \A i \in 1 .. Len(r) : (<<x>> \o r)[Len(<<x>>) + i] = r[i]
    BY <2>1, <2>2, ConcatAt
  <2>4. QED
    BY <2>1, <2>3
<1> HIDE DEF v, n
<1>6. ASSUME NEW i \in 1 .. n - h PROVE u[i] = v[i]
  <2>1. u[i] = Text(es[h + i])
    BY <1>4
  <2>2. CASE i = 1
    BY <2>1, <2>2, <1>5
  <2>3. CASE i # 1
    <3>1. i - 1 \in 1 .. n - (h + 1) /\ 1 + (i - 1) = i /\ (h + 1) + (i - 1) = h + i
      BY <1>1, <2>3
    <3>2. v[1 + (i - 1)] = r[i - 1] /\ r[i - 1] = Text(es[(h + 1) + (i - 1)])
      BY <1>3, <1>5, <3>1
    <3>3. QED
      BY <2>1, <3>1, <3>2
  <2>4. QED
    BY <2>2, <2>3
<1>7. Len(u) = n - h /\ Len(v) = n - h
  BY <1>1, <1>3, <1>4, <1>5
<1>8. u = v
  BY <1>4, <1>5, <1>6, <1>7, SeqEqual
<1>9. QED
  BY <1>3, <1>8 DEF u, v, r, x

(* What is kept of a chunk and what follows decode to the rest. *)
LEMMA ReadSplits ==
  ASSUME NEW c \in {<<>>, <<"hi">>}, NEW w \in Seq(Symbols), NEW k \in 1 .. Len(w)
  PROVE  LET bytes == c \o SubSeq(w, 1, k)
             after == SubSeq(w, k + 1, Len(w))
         IN  /\ Decoded(bytes) \in Seq(Symbols)
             /\ NextCarry(bytes) \in {<<>>, <<"hi">>}
             /\ after \in Seq(Symbols)
             /\ Decode(NextCarry(bytes) \o after) \in Seq(Symbols)
             /\ Decode(c \o w) = Decoded(bytes) \o Decode(NextCarry(bytes) \o after)
<1> DEFINE first == SubSeq(w, 1, k)
           after == SubSeq(w, k + 1, Len(w))
           bytes == c \o first
           hi == <<"hi">>
<1>1. hi \in Seq(Symbols) /\ c \in Seq(Symbols) /\ hi # <<>>
  <2>1. "hi" \in Symbols
    BY DEF Symbols, Framing
  <2>2. hi \in Seq(Symbols)
    BY <2>1
  <2>3. hi # <<>>
    OBVIOUS
  <2>4. <<>> \in Seq(Symbols)
    BY EmptySeq
  <2>5. c = <<>> \/ c = hi
    OBVIOUS
  <2>6. QED
    BY <2>2, <2>3, <2>4, <2>5
<1>2. first \in Seq(Symbols) /\ after \in Seq(Symbols) /\ w = first \o after
  <2>1. first \in Seq(Symbols) /\ after \in Seq(Symbols)
    <3>1. Len(w) \in Nat
      BY LenProperties
    <3>2. QED
      BY <3>1
  <2>2. 1 \in 1 .. Len(w) + 1 /\ k \in 1 - 1 .. Len(w) /\ Len(w) \in k .. Len(w)
    <3>1. Len(w) \in Nat
      BY LenProperties
    <3>2. QED
      BY <3>1
  <2>3. first \o after = SubSeq(w, 1, Len(w))
    BY <2>2, ConcatAdjacentSubSeq
  <2>4. SubSeq(w, 1, Len(w)) = w
    BY SubSeqFull
  <2>5. QED
    BY <2>1, <2>3, <2>4
<1> HIDE DEF first, after, hi
<1>3. bytes \in Seq(Symbols)
  BY <1>1, <1>2, ConcatProperties
<1>4. c \o w = bytes \o after
  <2>1. c \o (first \o after) = (c \o first) \o after
    <3>1. c \in Seq(Symbols) /\ first \in Seq(Symbols) /\ after \in Seq(Symbols)
      BY <1>1, <1>2
    <3>2. QED
      BY <3>1
  <2>2. QED
    BY <1>2, <2>1
<1> HIDE DEF bytes
<1>5. CASE Halved(bytes)
  <2> DEFINE front == Front(bytes)
             tail == hi \o after
  <2>1. NextCarry(bytes) = hi /\ Decoded(bytes) = Decode(front)
    BY <1>1, <1>5 DEF NextCarry, Decoded, hi
  <2>2. Len(bytes) \in Nat /\ Len(bytes) > 0 /\ bytes[Len(bytes)] = "hi"
    BY <1>3, <1>5 DEF Halved, Last
  <2>3. front \in Seq(Symbols) /\ Len(front) = Len(bytes) - 1 /\ \A i \in 1 .. Len(bytes) - 1 : front[i] = bytes[i]
    <3> DEFINE m == Len(bytes) - 1
    <3>1. m \in Nat /\ m <= Len(bytes)
      BY <2>2
    <3>2. front = SubSeq(bytes, 1, m)
      BY DEF Front
    <3> HIDE DEF front, m
    <3>3. SubSeq(bytes, 1, m) \in Seq(Symbols) /\ Len(SubSeq(bytes, 1, m)) = m
          /\ \A i \in 1 .. m : SubSeq(bytes, 1, m)[i] = bytes[i]
      BY <1>3, <3>1
    <3>4. QED
      BY <3>2, <3>3 DEF m
  <2> HIDE DEF front
  <2>4. bytes = front \o hi
    <3> DEFINE v == front \o hi
    <3>1. v \in Seq(Symbols) /\ Len(v) = Len(bytes) /\ v[Len(bytes)] = "hi"
          /\ \A i \in 1 .. Len(bytes) - 1 : v[i] = front[i]
      <4>1. hi \in Seq(Symbols) /\ Len(hi) = 1 /\ hi[1] = "hi"
        BY <1>1 DEF hi
      <4>2. front \in Seq(Symbols)
        BY <2>3
      <4>3. /\ v \in Seq(Symbols) /\ Len(v) = Len(front) + Len(hi)
            /\ \A i \in 1 .. Len(front) : v[i] = front[i]
            /\ \A i \in 1 .. Len(hi) : v[Len(front) + i] = hi[i]
        BY <1>1, <4>2, ConcatAt
      <4> HIDE DEF v
      <4>4. v[Len(front) + 1] = "hi"
        BY <4>1, <4>3
      <4>5. Len(front) + 1 = Len(bytes)
        BY <2>2, <2>3
      <4>6. QED
        BY <2>3, <4>1, <4>3, <4>4, <4>5
    <3> HIDE DEF v
    <3>2. ASSUME NEW i \in 1 .. Len(bytes) PROVE bytes[i] = v[i]
      <4>1. CASE i \in 1 .. Len(bytes) - 1
        BY <4>1, <2>3, <3>1
      <4>2. CASE i = Len(bytes)
        BY <4>2, <2>2, <3>1
      <4>3. QED
        BY <2>2, <4>1, <4>2
    <3>3. bytes = v
      BY <1>3, <3>1, <3>2, SeqEqual
    <3>4. QED
      BY <3>3 DEF v
  <2>5. bytes \o after = front \o tail
    <3>1. front \in Seq(Symbols) /\ hi \in Seq(Symbols) /\ after \in Seq(Symbols)
      BY <1>1, <1>2, <2>3
    <3>2. (front \o hi) \o after = front \o (hi \o after)
      BY <3>1
    <3>3. QED
      BY <2>4, <3>2
  <2>6. tail \in Seq(Symbols) /\ tail[1] = "hi"
    <3>1. hi \in Seq(Symbols) /\ after \in Seq(Symbols) /\ Len(hi) = 1 /\ hi[1] = "hi"
      BY <1>1, <1>2 DEF hi
    <3>4. hi \in Seq(Symbols) /\ after \in Seq(Symbols)
      BY <3>1
    <3>2. tail \in Seq(Symbols) /\ \A i \in 1 .. Len(hi) : tail[i] = hi[i]
      BY <3>4, ConcatAt
    <3>5. 1 \in 1 .. Len(hi)
      BY <3>1
    <3> HIDE DEF tail
    <3>3. QED
      BY <3>1, <3>2, <3>5
  <2> HIDE DEF tail
  <2>7. Decode(front \o tail) = Decode(front) \o Decode(tail)
    BY <2>3, <2>6, DecodeConcat
  <2>8. Decode(front) \in Seq(Symbols) /\ Decode(tail) \in Seq(Symbols)
    BY <2>3, <2>6, DecodeType
  <2>9. QED
    BY <1>2, <1>4, <2>1, <2>5, <2>7, <2>8 DEF tail, bytes, first, after, hi
<1>6. CASE ~Halved(bytes)
  <2>1. NextCarry(bytes) = <<>> /\ Decoded(bytes) = Decode(bytes)
    BY <1>6 DEF NextCarry, Decoded
  <2>2. bytes = <<>> \/ bytes[Len(bytes)] # "hi"
    BY <1>6 DEF Halved, Last
  <2>3. Decode(bytes \o after) = Decode(bytes) \o Decode(after)
    BY <1>2, <1>3, <2>2, DecodeConcat
  <2>4. <<>> \o after = after
    BY <1>2, ConcatEmptySeq
  <2>5. Decode(bytes) \in Seq(Symbols) /\ Decode(after) \in Seq(Symbols)
    BY <1>2, <1>3, DecodeType
  <2>6. QED
    BY <1>2, <1>4, <2>1, <2>3, <2>4, <2>5 DEF bytes, first, after
<1>7. QED
  BY <1>5, <1>6

-----------------------------------------------------------------------------
(* The steps *)

(* Rows come only after their query when each event follows the one before. *)
LEMMA InOrderSound ==
  ASSUME NEW es \in Seq(Events), es # <<>>, es[1].event = "conversation",
         \A i \in 1 .. Len(es) - 1 : Follows(es[i], es[i + 1])
  PROVE  Sound(es)
<1> SUFFICES ASSUME NEW i \in 1 .. Len(es), es[i].event = "tool_result"
             PROVE  i > 1 /\ es[i - 1].event = "tool_call"
  BY DEF Sound
<1>1. Len(es) \in Nat
  BY LenProperties
<1>2. i > 1
  BY <1>1
<1>3. i - 1 \in 1 .. Len(es) - 1 /\ (i - 1) + 1 = i
  BY <1>1, <1>2
<1>4. Follows(es[i - 1], es[i])
  BY <1>3
<1>5. QED
  BY <1>2, <1>4 DEF Follows

(* What each action of the server comes to: one event more. *)
Emits(e) ==
    /\ socket = "open"
    /\ Follows(sent[Len(sent)], e)
    /\ sent' = Append(sent, e)
    /\ wire' = wire \o Frame(e)
    /\ socket' = IF e.event \in {"done", "error"} THEN "ended" ELSE "open"
    /\ Written' = Written \o (IF e.event = "token" THEN e.data ELSE <<>>)
    /\ reply'.calls = reply.calls \o
            (IF e.event = "tool_result" THEN <<[sql |-> asked, rows |-> e.data]>> ELSE <<>>)
    /\ reply' \in StoredReply /\ roundContent' \in Seq(Characters)
    /\ e.event = "done" => roundContent' = <<>> /\ ~reply'.error
    /\ e.event = "error" => reply'.error
    /\ asked' = IF e.event = "tool_call" THEN <<e.data>>
                ELSE IF e.event = "error" THEN asked ELSE <<>>
    /\ UNCHANGED clientVars

(* One event more keeps the types, *)
LEMMA EmitKeepsTypes ==
  ASSUME ReplyStreamAssumption, StreamInv, NEW e \in Events, Emits(e)
  PROVE  StreamTypeOK'
<1>1. StreamTypeOK
  BY DEF StreamInv
<1>2. Append(sent, e) \in Seq(Events) /\ Append(sent, e) # <<>>
  <2>1. sent \in Seq(Events)
    BY <1>1 DEF StreamTypeOK
  <2>2. QED
    BY <2>1
<1>3. sent' \in Seq(Events) /\ sent' # <<>>
  BY <1>2 DEF Emits
<1>4. wire' \in Seq(Symbols)
  <2>1. wire \in Seq(Symbols) /\ Frame(e) \in Seq(Symbols)
    BY <1>1, FrameDecoded DEF StreamTypeOK
  <2>2. wire \o Frame(e) \in Seq(Symbols)
    BY <2>1, ConcatAt
  <2>3. QED
    BY <2>2 DEF Emits
<1>5. asked' \in Seq(Seq(Characters))
  <2>1. e.data \in Seq(Characters)
    BY DEF Events
  <2>2. <<e.data>> \in Seq(Seq(Characters))
    BY <2>1
  <2>3. asked \in Seq(Seq(Characters)) /\ <<>> \in Seq(Seq(Characters))
    BY <1>1, EmptySeq DEF StreamTypeOK
  <2>4. asked' = <<e.data>> \/ asked' = asked \/ asked' = <<>>
    BY DEF Emits
  <2>5. QED
    BY <2>2, <2>3, <2>4
<1>6. socket' \in {"open", "ended", "destroyed", "left"}
  BY DEF Emits
<1>7. reply' \in StoredReply /\ roundContent' \in Seq(Characters)
  BY DEF Emits
<1>8. UNCHANGED <<carry, buffer, heard, view>>
  BY DEF Emits, clientVars
<1>9. QED
  BY <1>1, <1>3, <1>4, <1>5, <1>6, <1>7, <1>8 DEF StreamTypeOK

(* the order of the events, *)
LEMMA EmitKeepsOrder ==
  ASSUME ReplyStreamAssumption, StreamInv, NEW e \in Events, Emits(e)
  PROVE  EventsInOrder' /\ Sound(sent) /\ Sound(Append(sent, e))
<1> DEFINE n == Len(sent)
           more == Append(sent, e)
<1>1. sent \in Seq(Events) /\ sent # <<>> /\ n \in Nat /\ n > 0
  <2>1. sent \in Seq(Events) /\ sent # <<>>
    BY DEF StreamInv, StreamTypeOK
  <2>2. QED
    BY <2>1
<1>2. /\ more \in Seq(Events) /\ Len(more) = n + 1 /\ more[n + 1] = e /\ more # <<>>
      /\ \A i \in 1 .. n : more[i] = sent[i]
  BY <1>1
<1> HIDE DEF more
<1>3. sent[1].event = "conversation" /\ \A i \in 1 .. n - 1 : Follows(sent[i], sent[i + 1])
  BY DEF StreamInv, EventsInOrder
<1>4. Follows(sent[n], e)
  BY DEF Emits
<1> HIDE DEF n
<1>5. more[1].event = "conversation"
  BY <1>1, <1>2, <1>3
<1>6. ASSUME NEW i \in 1 .. n PROVE Follows(more[i], more[i + 1])
  <2>1. CASE i = n
    BY <2>1, <1>1, <1>2, <1>4
  <2>2. CASE i # n
    <3>1. i \in 1 .. n - 1 /\ i + 1 \in 1 .. n
      BY <2>2, <1>1
    <3>2. QED
      BY <3>1, <1>2, <1>3
  <2>3. QED
    BY <2>1, <2>2
<1>7. \A i \in 1 .. Len(more) - 1 : Follows(more[i], more[i + 1])
  <2>1. Len(more) - 1 = n
    BY <1>1, <1>2
  <2>2. QED
    BY <1>6, <2>1
<1>8. Sound(sent)
  BY <1>1, <1>3, InOrderSound DEF n
<1>9. Sound(more)
  BY <1>2, <1>5, <1>7, InOrderSound
<1>10. sent' = more /\ (socket' = "ended" <=> more[Len(more)].event \in {"done", "error"})
  BY <1>2 DEF Emits, more
<1>11. EventsInOrder'
  BY <1>5, <1>7, <1>10 DEF EventsInOrder, Last
<1>12. QED
  BY <1>8, <1>9, <1>11 DEF more

(* what is on its way, *)
LEMMA EmitKeepsTransit ==
  ASSUME ReplyStreamAssumption, StreamInv, NEW e \in Events, Emits(e)
  PROVE  InTransit'
<1> DEFINE h == Len(heard)
           more == Append(sent, e)
           f == Frame(e)
           t == Text(e)
           cw == carry \o wire
           d == Decode(cw)
           r == Rest(sent, h)
<1>1. /\ sent \in Seq(Events) /\ carry \in {<<>>, <<"hi">>} /\ wire \in Seq(Symbols)
      /\ buffer \in Seq(Symbols) /\ heard \in Seq(Events)
  BY DEF StreamInv, StreamTypeOK
<1>2. /\ h \in Nat /\ Len(sent) \in Nat /\ h <= Len(sent)
      /\ \A i \in 1 .. h : heard[i] = sent[i]
  <2>1. h \in Nat /\ Len(sent) \in Nat
    BY <1>1, LenProperties
  <2>2. QED
    BY <2>1 DEF StreamInv, InTransit
<1>3. /\ Len(more) = Len(sent) + 1
      /\ \A i \in 1 .. Len(sent) : more[i] = sent[i]
  BY <1>1
<1>4. carry \in Seq(Symbols)
  <2>1. "hi" \in Symbols
    BY DEF Symbols, Framing
  <2>2. <<"hi">> \in Seq(Symbols)
    BY <2>1
  <2>3. QED
    BY <1>1, <2>2, EmptySeq
<1>5. f \in Seq(Symbols) /\ f[1] = "event:" /\ Decode(f) = t
  BY FrameDecoded
<1>6. cw \in Seq(Symbols)
  BY <1>1, <1>4, ConcatAt
<1>7. t \in Seq(Symbols)
  BY TextShape
<1>8. d \in Seq(Symbols)
  BY <1>6, DecodeType
<1>9. buffer \o d = FlattenSeq(r)
  BY DEF StreamInv, InTransit, Connected, Emits
<1>10. r \in Seq(Seq(Symbols))
  BY <1>1, <1>2, RestType
<1>11. Rest(more, h) = Append(r, t)
  BY <1>1, <1>2, RestAppend
<1> HIDE DEF f, t, r, h, more
<1>12. carry \o (wire \o f) = cw \o f
  <2>1. carry \in Seq(Symbols) /\ wire \in Seq(Symbols) /\ f \in Seq(Symbols)
    BY <1>1, <1>4, <1>5
  <2>2. (carry \o wire) \o f = carry \o (wire \o f)
    BY <2>1
  <2>3. QED
    BY <2>2
<1> HIDE DEF cw
<1>13. Decode(cw \o f) = d \o t
  <2>1. f[1] # "lo"
    BY <1>5
  <2>2. Decode(cw \o f) = Decode(cw) \o Decode(f)
    BY <1>5, <1>6, <2>1, DecodeConcat
  <2>3. QED
    BY <1>5, <2>2
<1> HIDE DEF d
<1>14. buffer \o (d \o t) = (buffer \o d) \o t
  <2>1. buffer \in Seq(Symbols) /\ d \in Seq(Symbols) /\ t \in Seq(Symbols)
    BY <1>1, <1>7, <1>8
  <2>2. QED
    BY <2>1
<1>15. FlattenSeq(Append(r, t)) = FlattenSeq(r) \o t
  BY <1>7, <1>10, FlattenAppend
<1>16. buffer \o Decode(carry \o (wire \o f)) = FlattenSeq(Rest(more, h))
  BY <1>9, <1>11, <1>12, <1>13, <1>14, <1>15
<1>17. /\ sent' = more /\ wire' = wire \o f /\ carry' = carry /\ buffer' = buffer /\ heard' = heard
       /\ Connected'
  BY DEF Emits, more, f, clientVars, Connected
<1>18. Len(heard') <= Len(sent') /\ \A i \in 1 .. Len(heard') : heard'[i] = sent'[i]
  <2>1. h <= Len(more)
    BY <1>2, <1>3
  <2>2. \A i \in 1 .. h : heard[i] = more[i]
    BY <1>2, <1>3
  <2>3. QED
    BY <1>17, <2>1, <2>2 DEF h
<1>19. buffer' \o Decode(carry' \o wire') = FlattenSeq(Rest(sent', Len(heard')))
  BY <1>16, <1>17 DEF h
<1>20. QED
  BY <1>17, <1>18, <1>19 DEF InTransit

(* and what is stored and shown. *)
LEMMA EmitKeepsViews ==
  ASSUME ReplyStreamAssumption, StreamInv, NEW e \in Events, Emits(e)
  PROVE  Recorded' /\ Shown'
<1> DEFINE n == Len(sent)
           more == Append(sent, e)
<1>1. Sound(sent) /\ Sound(more)
  BY EmitKeepsOrder
<1>2. sent \in Seq(Events) /\ sent # <<>>
  BY DEF StreamInv, StreamTypeOK
<1>3. n \in Nat /\ n > 0
  BY <1>2
<1>4. /\ TextOf(more) = TextOf(sent) \o (IF e.event = "token" THEN e.data ELSE <<>>)
      /\ CallsOf(more) = CallsOf(sent) \o
            (IF e.event = "tool_result"
             THEN <<[sql |-> <<sent[n].data>>, rows |-> e.data]>> ELSE <<>>)
      /\ Waiting(more) =
            IF e.event = "tool_call" THEN <<e.data>>
            ELSE IF e.event = "error" /\ n > 0 /\ sent[n].event = "tool_call"
            THEN <<sent[n].data>> ELSE <<>>
  BY <1>1, <1>2, PartsAppend
<1>5. Written = TextOf(sent) /\ reply.calls = CallsOf(sent) /\ asked = Waiting(sent)
  BY DEF StreamInv, Recorded, Connected, Emits
<1>6. Follows(sent[n], e)
  BY DEF Emits
<1>7. Waiting(sent) = IF sent[n].event = "tool_call" THEN <<sent[n].data>> ELSE <<>>
  <2>1. sent[n].event # "error"
    BY <1>6 DEF Follows
  <2>2. QED
    BY <1>3, <2>1 DEF Waiting
<1>8. e.event = "tool_result" => asked = <<sent[n].data>>
  BY <1>5, <1>6, <1>7 DEF Follows
<1>9. sent' = more
  BY DEF Emits
<1>10. Written' = TextOf(more)
  BY <1>4, <1>5 DEF Emits
<1>11. reply'.calls = CallsOf(more)
  <2>1. reply'.calls = reply.calls \o
            (IF e.event = "tool_result" THEN <<[sql |-> asked, rows |-> e.data]>> ELSE <<>>)
    BY DEF Emits
  <2>2. QED
    BY <1>4, <1>5, <1>8, <2>1
<1>12. asked' = Waiting(more)
  <2>1. asked' = IF e.event = "tool_call" THEN <<e.data>>
                 ELSE IF e.event = "error" THEN asked ELSE <<>>
    BY DEF Emits
  <2>2. QED
    BY <1>3, <1>4, <1>5, <1>7, <2>1
<1>13. Recorded'
  <2>1. Last(more) = e
    BY <1>2, <1>3 DEF Last
  <2> HIDE DEF more
  <2>2. /\ e.event = "done" => roundContent' = <<>> /\ ~reply'.error
        /\ e.event = "error" => reply'.error
    BY DEF Emits
  <2>3. QED
    BY <1>9, <1>10, <1>11, <1>12, <2>1, <2>2 DEF Recorded
<1>14. Connected /\ Connected' /\ heard' = heard /\ view' = view
  BY DEF Emits, Connected, clientVars
<1>15. Shown'
  BY <1>14 DEF StreamInv, Shown
<1>16. QED
  BY <1>13, <1>15

(* One event more keeps the invariant. *)
LEMMA EmitKeeps ==
  ASSUME ReplyStreamAssumption, StreamInv, NEW e \in Events, Emits(e)
  PROVE  StreamInv'
BY EmitKeepsTypes, EmitKeepsOrder, EmitKeepsTransit, EmitKeepsViews DEF StreamInv

(* A query is announced exactly when it was the last thing sent. *)
LEMMA AskedLast ==
  ASSUME StreamInv, socket = "open"
  PROVE  /\ Len(sent) \in Nat /\ Len(sent) > 0
         /\ sent[Len(sent)].event \notin {"done", "error"}
         /\ asked # <<>> <=> sent[Len(sent)].event = "tool_call"
<1>1. sent \in Seq(Events) /\ sent # <<>>
  BY DEF StreamInv, StreamTypeOK
<1>2. Len(sent) \in Nat /\ Len(sent) > 0
  BY <1>1
<1>3. sent[Len(sent)].event \notin {"done", "error"}
  BY DEF StreamInv, EventsInOrder, Connected, Last
<1>4. asked = Waiting(sent)
  BY DEF StreamInv, Recorded, Connected
<1>5. CASE sent[Len(sent)].event = "tool_call"
  <2>1. asked = <<sent[Len(sent)].data>>
    BY <1>2, <1>4, <1>5 DEF Waiting
  <2>2. asked # <<>>
    BY <2>1
  <2>3. QED
    BY <1>2, <1>3, <1>5, <2>2
<1>6. CASE sent[Len(sent)].event # "tool_call"
  <2>1. asked = <<>>
    BY <1>2, <1>3, <1>4, <1>6 DEF Waiting
  <2>2. QED
    BY <1>2, <1>3, <1>6, <2>1
<1>7. QED
  BY <1>5, <1>6

(* The socket is gone: nothing is written, and the loop is left. *)
GivesUp ==
    /\ socket = "destroyed" /\ socket' = "left"
    /\ UNCHANGED <<sent, wire, clientVars>>
    /\ reply' \in StoredReply /\ roundContent' \in Seq(Characters)
    /\ asked' \in Seq(Seq(Characters))

(* So does giving up. *)
LEMMA GivesUpKeeps ==
  ASSUME StreamInv, GivesUp
  PROVE  StreamInv'
<1>1. UNCHANGED <<sent, wire, carry, buffer, heard, view>> /\ ~Connected /\ ~Connected'
  BY DEF GivesUp, clientVars, Connected
<1>2. StreamTypeOK'
  BY <1>1 DEF StreamInv, StreamTypeOK, GivesUp
<1>3. InTransit'
  BY <1>1 DEF StreamInv, InTransit, Boundaries
<1>4. EventsInOrder'
  BY <1>1 DEF StreamInv, EventsInOrder
<1>5. Recorded'
  BY <1>1 DEF Recorded
<1>6. Shown'
  BY <1>1 DEF StreamInv, Shown
<1>7. QED
  BY <1>2, <1>3, <1>4, <1>5, <1>6 DEF StreamInv

(* The fields of an event. *)
LEMMA EventType ==
  ASSUME NEW name \in EventNames, NEW d \in Seq(Characters)
  PROVE  SseEvent(name, d) \in Events /\ SseEvent(name, d).event = name /\ SseEvent(name, d).data = d
BY DEF SseEvent, Events

(* What is stored when a text, a query or rows are added. *)
LEMMA ReplyTypes ==
  ASSUME StreamInv, NEW d \in Seq(Characters)
  PROVE  /\ reply.text \in Seq(Characters) /\ reply.calls \in Seq(ToolCall)
         /\ reply \in StoredReply /\ roundContent \in Seq(Characters)
         /\ asked \in Seq(Seq(Characters))
         /\ roundContent \o d \in Seq(Characters)
         /\ reply.text \o (roundContent \o d) = Written \o d
         /\ Append(reply.calls, [sql |-> asked, rows |-> d]) \in Seq(ToolCall)
         /\ Append(reply.calls, [sql |-> asked, rows |-> d])
                = reply.calls \o <<[sql |-> asked, rows |-> d]>>
         /\ Written \o <<>> = Written /\ reply.calls \o <<>> = reply.calls
         /\ <<d>> \in Seq(Seq(Characters)) /\ <<>> \in Seq(Seq(Characters))
<1>1. /\ reply.text \in Seq(Characters) /\ reply.calls \in Seq(ToolCall)
      /\ reply \in StoredReply /\ roundContent \in Seq(Characters)
      /\ asked \in Seq(Seq(Characters))
  BY DEF StreamInv, StreamTypeOK, StoredReply
<1>2. /\ roundContent \o d \in Seq(Characters) /\ Written \in Seq(Characters)
      /\ reply.text \o (roundContent \o d) = Written \o d
  <2>1. roundContent \o d \in Seq(Characters) /\ reply.text \o roundContent \in Seq(Characters)
    BY <1>1, ConcatProperties
  <2> DEFINE t == reply.text
             r == roundContent
  <2>2. t \in Seq(Characters) /\ r \in Seq(Characters)
    BY <1>1
  <2> HIDE DEF t, r
  <2>3. (t \o r) \o d = t \o (r \o d)
    BY <2>2
  <2>4. QED
    BY <2>1, <2>3 DEF t, r, Written
<1>3. [sql |-> asked, rows |-> d] \in ToolCall
  BY <1>1 DEF ToolCall
<1> DEFINE c == [sql |-> asked, rows |-> d]
<1> HIDE DEF c
<1>4. Append(reply.calls, c) \in Seq(ToolCall) /\ Append(reply.calls, c) = reply.calls \o <<c>>
  <2>1. reply.calls \in Seq(ToolCall) /\ c \in ToolCall
    BY <1>1, <1>3 DEF c
  <2>2. Append(reply.calls, c) \in Seq(ToolCall)
    BY <2>1
  <2>3. Append(reply.calls, c) = reply.calls \o <<c>>
    BY <2>1, AppendIsConcat
  <2>4. QED
    BY <2>2, <2>3
<1>5. Written \o <<>> = Written /\ reply.calls \o <<>> = reply.calls
  BY <1>1, <1>2, ConcatEmptySeq
<1>6. <<d>> \in Seq(Seq(Characters)) /\ <<>> \in Seq(Seq(Characters))
  <2>1. <<d>> \in Seq(Seq(Characters))
    OBVIOUS
  <2>2. QED
    BY <2>1, EmptySeq
<1>7. QED
  BY <1>1, <1>2, <1>4, <1>5, <1>6 DEF c

(* SendToken writes its event, or gives up. *)
LEMMA TokenEmits ==
  ASSUME StreamInv, NEW d \in Seq(Characters), SendToken(d)
  PROVE  GivesUp \/ Emits(SseEvent("token", d))
<1> DEFINE e == SseEvent("token", d)
<1>1. e.event = "token" /\ e.data = d
  BY DEF SseEvent
<1>2. /\ roundContent' = roundContent \o d /\ reply' = reply
      /\ asked' = asked /\ asked = <<>> /\ UNCHANGED clientVars
  BY DEF SendToken
<1>4. Written' = Written \o d /\ reply'.calls = reply.calls
  BY <1>2, ReplyTypes DEF Written
<1>5. reply' \in StoredReply /\ roundContent' \in Seq(Characters)
  BY <1>2, ReplyTypes
<1>6. CASE socket = "destroyed"
  <2>1. socket' = "left" /\ UNCHANGED <<sent, wire>>
    BY <1>6 DEF SendToken, WriteSseEvent
  <2>2. asked' \in Seq(Seq(Characters))
    BY <1>2, ReplyTypes
  <2>3. QED
    BY <1>2, <1>5, <1>6, <2>1, <2>2 DEF GivesUp
<1>7. CASE socket = "open"
  <2>1. sent' = Append(sent, e) /\ wire' = wire \o Frame(e) /\ socket' = "open"
    BY <1>7 DEF SendToken, WriteSseEvent
  <2>2. Follows(sent[Len(sent)], e)
    BY <1>1, <1>2, <1>7, AskedLast DEF Follows
  <2>3. reply'.calls = reply.calls \o <<>>
    BY <1>4, ReplyTypes
  <2> HIDE DEF e
  <2>4. Emits(e)
    BY <1>1, <1>2, <1>4, <1>5, <1>7, <2>1, <2>2, <2>3 DEF Emits
  <2>5. QED
    BY <2>4 DEF e
<1>8. QED
  BY <1>6, <1>7 DEF SendToken, More

(* AnnounceQuery writes its event, or gives up. *)
LEMMA QueryEmits ==
  ASSUME StreamInv, NEW d \in Seq(Characters), AnnounceQuery(d)
  PROVE  GivesUp \/ Emits(SseEvent("tool_call", d))
<1> DEFINE e == SseEvent("tool_call", d)
<1>1. e.event = "tool_call" /\ e.data = d
  BY DEF SseEvent
<1>2. /\ reply' = reply /\ roundContent' = roundContent
      /\ asked' = <<d>> /\ asked = <<>> /\ UNCHANGED clientVars
  BY DEF AnnounceQuery
<1>3. reply' \in StoredReply /\ roundContent' \in Seq(Characters)
  BY <1>2, ReplyTypes
<1>4. CASE socket = "destroyed"
  <2>1. socket' = "left" /\ UNCHANGED <<sent, wire>>
    BY <1>4 DEF AnnounceQuery, WriteSseEvent
  <2>2. asked' \in Seq(Seq(Characters))
    BY <1>2, ReplyTypes
  <2>3. QED
    BY <1>2, <1>3, <1>4, <2>1, <2>2 DEF GivesUp
<1>5. CASE socket = "open"
  <2>1. sent' = Append(sent, e) /\ wire' = wire \o Frame(e) /\ socket' = "open"
    BY <1>5 DEF AnnounceQuery, WriteSseEvent
  <2>2. Follows(sent[Len(sent)], e)
    BY <1>1, <1>2, <1>5, AskedLast DEF Follows
  <2>3. reply'.calls = reply.calls \o <<>> /\ Written' = Written \o <<>>
    BY <1>2, ReplyTypes DEF Written
  <2> HIDE DEF e
  <2>4. Emits(e)
    BY <1>1, <1>2, <1>3, <1>5, <2>1, <2>2, <2>3 DEF Emits
  <2>5. QED
    BY <2>4 DEF e
<1>6. QED
  BY <1>4, <1>5 DEF AnnounceQuery, More

(* SendRows writes its event, or gives up. *)
LEMMA RowsEmit ==
  ASSUME StreamInv, NEW d \in Seq(Characters), SendRows(d)
  PROVE  GivesUp \/ Emits(SseEvent("tool_result", d))
<1> DEFINE e == SseEvent("tool_result", d)
<1>1. e.event = "tool_result" /\ e.data = d
  BY DEF SseEvent
<1>2. /\ reply' = IF socket = "destroyed" THEN reply
                   ELSE [reply EXCEPT !.calls = Append(@, [sql |-> asked, rows |-> d])]
      /\ asked' = <<>> /\ asked # <<>> /\ roundContent' = roundContent /\ UNCHANGED clientVars
  BY DEF SendRows
<1>3. reply \in StoredReply
  BY ReplyTypes
<1>4. ASSUME socket = "open"
      PROVE  Written' = Written /\ reply'.calls = Append(reply.calls, [sql |-> asked, rows |-> d])
  BY <1>2, <1>3, <1>4 DEF StoredReply, Written
<1>5. reply' \in StoredReply /\ roundContent' \in Seq(Characters)
  BY <1>2, <1>3, ReplyTypes DEF StoredReply
<1>6. CASE socket = "destroyed"
  <2>1. socket' = "left" /\ UNCHANGED <<sent, wire>>
    BY <1>6 DEF SendRows, WriteSseEvent
  <2>2. asked' \in Seq(Seq(Characters))
    BY <1>2, ReplyTypes
  <2>3. QED
    BY <1>2, <1>5, <1>6, <2>1, <2>2 DEF GivesUp
<1>7. CASE socket = "open"
  <2>1. sent' = Append(sent, e) /\ wire' = wire \o Frame(e) /\ socket' = "open"
    BY <1>7 DEF SendRows, WriteSseEvent
  <2>2. Follows(sent[Len(sent)], e)
    BY <1>1, <1>2, <1>7, AskedLast DEF Follows
  <2>3. Written' = Written \o <<>>
        /\ reply'.calls = reply.calls \o <<[sql |-> asked, rows |-> d]>>
    BY <1>4, <1>7, ReplyTypes
  <2> HIDE DEF e
  <2>4. Emits(e)
    BY <1>1, <1>2, <1>5, <1>7, <2>1, <2>2, <2>3 DEF Emits
  <2>5. QED
    BY <2>4 DEF e
<1>8. QED
  BY <1>6, <1>7 DEF SendRows, More

(* FinishTurn writes its event. *)
LEMMA FinishEmits ==
  ASSUME StreamInv, NEW name \in {"done", "error"}, FinishTurn(name)
  PROVE  Emits(SseEvent(name, <<>>))
<1> DEFINE e == SseEvent(name, <<>>)
<1>1. e.event = name /\ e.data = <<>>
  BY DEF SseEvent
<1>2. /\ socket = "open" /\ socket' = "ended" /\ asked' = asked
      /\ reply' = [reply EXCEPT !.error = (name = "error")] /\ roundContent' = roundContent
      /\ UNCHANGED clientVars /\ sent' = Append(sent, e) /\ wire' = wire \o Frame(e)
      /\ name = "done" => asked = <<>> /\ roundContent = <<>>
  BY DEF FinishTurn
<1>3. /\ reply' \in StoredReply /\ roundContent' \in Seq(Characters)
      /\ reply'.text = reply.text /\ reply'.calls = reply.calls /\ reply'.error = (name = "error")
  <2>1. <<>> \in Seq(Characters)
    BY EmptySeq
  <2>2. reply \in StoredReply /\ roundContent \in Seq(Characters)
    BY <2>1, ReplyTypes
  <2>3. QED
    BY <1>2, <2>2 DEF StoredReply
<1>4. Follows(sent[Len(sent)], e)
  BY <1>1, <1>2, AskedLast DEF Follows
<1>5. <<>> \in Seq(Characters)
  BY EmptySeq
<1>6. reply'.calls = reply.calls \o <<>> /\ Written' = Written \o <<>>
  BY <1>2, <1>3, <1>5, ReplyTypes DEF Written
<1> HIDE DEF e
<1>7. Emits(e)
  BY <1>1, <1>2, <1>3, <1>4, <1>6 DEF Emits
<1>8. QED
  BY <1>7 DEF e

(* A round that ends moves its text, and the text written is the same. *)
LEMMA EndRoundKeeps ==
  ASSUME StreamInv, EndRound
  PROVE  StreamInv'
<1>1. /\ UNCHANGED <<sent, asked, wire, socket, carry, buffer, heard, view>>
      /\ reply' = [reply EXCEPT !.text = @ \o roundContent] /\ roundContent' = <<>>
      /\ socket \in {"open", "destroyed"}
  BY DEF EndRound, clientVars
<1>2. reply \in StoredReply /\ roundContent \in Seq(Characters) /\ <<>> \in Seq(Characters)
  BY EmptySeq DEF StreamInv, StreamTypeOK
<1>3. Written \in Seq(Characters)
  BY <1>2, ConcatProperties DEF Written, StoredReply
<1>4. /\ reply' \in StoredReply /\ reply'.text = Written
      /\ reply'.calls = reply.calls /\ reply'.error = reply.error
  BY <1>1, <1>2, <1>3 DEF StoredReply, Written
<1>5. Written' = Written
  <2>1. Written' = Written \o <<>>
    BY <1>1, <1>4 DEF Written
  <2>2. QED
    BY <1>3, <2>1, ConcatEmptySeq
<1>6. StreamTypeOK'
  BY <1>1, <1>2, <1>4 DEF StreamInv, StreamTypeOK
<1>7. InTransit'
  BY <1>1 DEF StreamInv, InTransit, Connected, Boundaries
<1>8. EventsInOrder' /\ Shown'
  BY <1>1 DEF StreamInv, EventsInOrder, Shown, Connected
<1>9. Recorded'
  <2>1. CASE socket = "open"
    BY <1>1, <1>4, <1>5, <2>1 DEF StreamInv, Recorded, EventsInOrder, Connected
  <2>2. CASE socket = "destroyed"
    BY <1>1, <2>2 DEF Recorded, Connected
  <2>3. QED
    BY <1>1, <2>1, <2>2
<1>10. QED
  BY <1>6, <1>7, <1>8, <1>9 DEF StreamInv

(* A chunk takes bytes from the wire to the buffer, and no event is lost. *)
LEMMA ReadKeeps ==
  ASSUME StreamInv, NEW k \in 1 .. Len(wire), Read(k)
  PROVE  StreamInv'
<1> DEFINE bytes == carry \o SubSeq(wire, 1, k)
           x == Decoded(bytes)
           y == Decode(carry' \o wire')
<1>1. UNCHANGED <<sent, reply, roundContent, asked, socket, heard, view>> /\ Connected /\ Connected'
  BY DEF Read, Connected
<1>2. buffer' = buffer \o x /\ carry' = NextCarry(bytes) /\ wire' = SubSeq(wire, k + 1, Len(wire))
  BY DEF Read
<1>3. /\ carry \in {<<>>, <<"hi">>} /\ wire \in Seq(Symbols) /\ buffer \in Seq(Symbols)
  BY DEF StreamInv, StreamTypeOK
<1>4. /\ x \in Seq(Symbols) /\ carry' \in {<<>>, <<"hi">>} /\ wire' \in Seq(Symbols)
      /\ y \in Seq(Symbols) /\ Decode(carry \o wire) = x \o y
  BY <1>2, <1>3, ReadSplits
<1> HIDE DEF bytes, x, y
<1>5. buffer' \in Seq(Symbols)
  <2>1. buffer \in Seq(Symbols) /\ x \in Seq(Symbols)
    BY <1>3, <1>4
  <2>2. buffer \o x \in Seq(Symbols)
    BY <2>1, ConcatProperties
  <2>3. QED
    BY <1>2, <2>2
<1>6. StreamTypeOK'
  BY <1>1, <1>4, <1>5 DEF StreamInv, StreamTypeOK
<1>7. buffer' \o y = FlattenSeq(Rest(sent, Len(heard)))
  <2>1. buffer \in Seq(Symbols) /\ x \in Seq(Symbols) /\ y \in Seq(Symbols)
    BY <1>3, <1>4
  <2>2. (buffer \o x) \o y = buffer \o (x \o y)
    BY <2>1
  <2>3. buffer \o Decode(carry \o wire) = FlattenSeq(Rest(sent, Len(heard)))
    BY <1>1 DEF StreamInv, InTransit
  <2>4. QED
    BY <1>2, <1>4, <2>2, <2>3
<1>8. InTransit'
  <2>1. Len(heard) <= Len(sent) /\ \A i \in 1 .. Len(heard) : heard[i] = sent[i]
    BY DEF StreamInv, InTransit
  <2>2. sent' = sent /\ heard' = heard
    BY <1>1
  <2>3. Len(heard') <= Len(sent') /\ \A i \in 1 .. Len(heard') : heard'[i] = sent'[i]
    BY <2>1, <2>2
  <2>4. buffer' \o Decode(carry' \o wire') = FlattenSeq(Rest(sent', Len(heard')))
    BY <1>7, <2>2 DEF y
  <2>5. QED
    BY <1>1, <2>3, <2>4 DEF InTransit
<1>9. EventsInOrder'
  BY <1>1 DEF StreamInv, EventsInOrder
<1>10. Recorded' /\ Shown'
  BY <1>1 DEF StreamInv, Recorded, Shown, Written
<1>11. QED
  BY <1>6, <1>8, <1>9, <1>10 DEF StreamInv

(* A break leaves nothing to hear, and empties the view. *)
LEMMA BreakKeeps ==
  ASSUME StreamInv, Boundaries = {}, BreakOff
  PROVE  StreamInv'
<1>1. UNCHANGED <<sent, reply, roundContent, asked, carry, buffer, heard>> /\ ~Connected'
  BY DEF BreakOff, Connected
<1>2. socket' \in {"destroyed", "left"} /\ wire' = <<>> /\ view' = EmptyView
  BY DEF BreakOff
<1>3. wire' \in Seq(Symbols)
  BY <1>2, EmptySeq
<1>4. EmptyView \in [text : Seq(Characters), calls : Seq(ToolCall), pending : Seq(Seq(Characters))]
  BY EmptySeq DEF EmptyView
<1>5. StreamTypeOK'
  BY <1>1, <1>2, <1>3, <1>4 DEF StreamInv, StreamTypeOK
<1>6. InTransit'
  <2>1. Len(heard) <= Len(sent) /\ \A i \in 1 .. Len(heard) : heard[i] = sent[i]
    BY DEF StreamInv, InTransit
  <2>2. Boundaries' = {}
    BY <1>1 DEF Boundaries
  <2>3. QED
    BY <1>1, <2>1, <2>2 DEF InTransit
<1>7. EventsInOrder'
  BY <1>1 DEF StreamInv, EventsInOrder
<1>8. Recorded' /\ Shown'
  BY <1>1, <1>2 DEF Recorded, Shown
<1>9. QED
  BY <1>5, <1>6, <1>7, <1>8 DEF StreamInv

(* What the callback leaves of a view that shows the events heard. *)
LEMMA ViewAfter ==
  ASSUME NEW before \in Seq(Events), NEW e \in Events,
         Sound(before), Sound(Append(before, e)),
         Len(before) > 0 => Follows(before[Len(before)], e),
         view \in [text : Seq(Characters), calls : Seq(ToolCall), pending : Seq(Seq(Characters))],
         view.text = TextOf(before), SameCalls(view.calls, CallsOf(before)),
         view.pending = Waiting(before),
         NEW v \in OnEvent(e)
  PROVE  /\ v \in [text : Seq(Characters), calls : Seq(ToolCall), pending : Seq(Seq(Characters))]
         /\ v.text = TextOf(Append(before, e))
         /\ SameCalls(v.calls, CallsOf(Append(before, e)))
         /\ v.pending = Waiting(Append(before, e))
<1> DEFINE n == Len(before)
           more == Append(before, e)
<1>1. n \in Nat
  BY LenProperties
<1>2. /\ TextOf(more) = TextOf(before) \o (IF e.event = "token" THEN e.data ELSE <<>>)
      /\ CallsOf(more) = CallsOf(before) \o
            (IF e.event = "tool_result"
             THEN <<[sql |-> <<before[n].data>>, rows |-> e.data]>> ELSE <<>>)
      /\ Waiting(more) =
            IF e.event = "tool_call" THEN <<e.data>>
            ELSE IF e.event = "error" /\ n > 0 /\ before[n].event = "tool_call"
            THEN <<before[n].data>> ELSE <<>>
  BY PartsAppend
<1> HIDE DEF more
<1>3. /\ view.text \in Seq(Characters) /\ view.calls \in Seq(ToolCall)
      /\ view.pending \in Seq(Seq(Characters)) /\ CallsOf(before) \in Seq(ToolCall)
  BY PartsType
<1>4. view.text \o <<>> = view.text /\ CallsOf(before) \o <<>> = CallsOf(before)
  BY <1>3, ConcatEmptySeq
<1>5. e.data \in Seq(Characters) /\ e.event \in EventNames
  BY DEF Events
<1>6. Waiting(before) = IF n > 0 /\ before[n].event = "tool_call" THEN <<before[n].data>> ELSE <<>>
  <2>1. CASE n > 0
    BY <2>1, <1>1 DEF Waiting, Follows
  <2>2. CASE ~(n > 0)
    BY <2>2, <1>1 DEF Waiting
  <2>3. QED
    BY <2>1, <2>2
<1>7. CASE e.event = "tool_call"
  <2>1. v = [view EXCEPT !.pending = <<e.data>>]
    BY <1>7 DEF OnEvent
  <2>2. v.text = view.text /\ v.calls = view.calls /\ v.pending = <<e.data>>
    BY <2>1
  <2>3. <<e.data>> \in Seq(Seq(Characters))
    BY <1>5
  <2>4. v \in [text : Seq(Characters), calls : Seq(ToolCall), pending : Seq(Seq(Characters))]
    BY <2>1, <2>3
  <2>5. TextOf(more) = view.text /\ CallsOf(more) = CallsOf(before) /\ Waiting(more) = <<e.data>>
    BY <1>2, <1>4, <1>7
  <2>6. QED
    BY <2>2, <2>4, <2>5 DEF more
<1>8. CASE e.event = "tool_result"
  <2>1. n > 0 /\ before[n].event = "tool_call"
    <3>1. Len(more) = n + 1 /\ more[n + 1] = e /\ \A i \in 1 .. n : more[i] = before[i]
      BY DEF more
    <3>2. n + 1 \in 1 .. Len(more) /\ (n + 1) - 1 = n
      BY <1>1, <3>1
    <3>3. n + 1 > 1 /\ more[n].event = "tool_call"
      BY <1>8, <3>1, <3>2 DEF Sound, more
    <3>4. QED
      BY <1>1, <3>1, <3>3
  <2>2. PICK sql \in {view.pending, <<>>} :
            v = [view EXCEPT !.calls = Append(@, [sql |-> sql, rows |-> e.data]), !.pending = <<>>]
    BY <1>8 DEF OnEvent
  <2> DEFINE new == [sql |-> sql, rows |-> e.data]
             old == [sql |-> <<before[n].data>>, rows |-> e.data]
             shown == view.calls
             calls == CallsOf(before)
  <2>3. sql \in {<<before[n].data>>, <<>>}
    BY <1>6, <2>1
  <2>4. v.text = view.text /\ v.calls = Append(shown, new) /\ v.pending = <<>>
    BY <2>2
  <2>5. new \in ToolCall /\ <<>> \in Seq(Seq(Characters))
    BY <1>3, <1>5, EmptySeq DEF ToolCall
  <2>6. old.rows = new.rows /\ new.sql \in {old.sql, <<>>}
    BY <2>3
  <2>7. shown \in Seq(ToolCall) /\ calls \in Seq(ToolCall)
    BY <1>3
  <2>8. Len(shown) = Len(calls) /\ \A i \in 1 .. Len(calls) :
            shown[i].rows = calls[i].rows /\ shown[i].sql \in {calls[i].sql, <<>>}
    BY DEF SameCalls
  <2>9. CallsOf(more) = calls \o <<old>> /\ TextOf(more) = view.text /\ Waiting(more) = <<>>
    BY <1>2, <1>4, <1>8
  <2>10. old \in ToolCall
    <3>1. before[n].data \in Seq(Characters)
      <4>1. n \in 1 .. n
        BY <1>1, <2>1
      <4>2. before[n] \in Events
        BY <4>1, ElementOfSeq
      <4>3. QED
        BY <4>2 DEF Events
    <3>2. <<before[n].data>> \in Seq(Seq(Characters))
      BY <3>1
    <3>3. QED
      BY <1>5, <3>2 DEF ToolCall
  <2> HIDE DEF new, old, shown, calls
  <2>11. Append(shown, new) \in Seq(ToolCall)
    BY <2>5, <2>7
  <2>12. v \in [text : Seq(Characters), calls : Seq(ToolCall), pending : Seq(Seq(Characters))]
    <3>1. v = [view EXCEPT !.calls = Append(shown, new), !.pending = <<>>]
      BY <2>2 DEF new, shown
    <3>2. QED
      BY <3>1, <2>5, <2>11
  <2>13. calls \o <<old>> = Append(calls, old)
    BY <2>7, <2>10, AppendIsConcat
  <2>14. SameCalls(Append(shown, new), Append(calls, old))
    <3> DEFINE m == Len(calls)
               a == Append(shown, new)
               b == Append(calls, old)
    <3>1. m \in Nat /\ Len(a) = m + 1 /\ a[m + 1] = new /\ \A i \in 1 .. m : a[i] = shown[i]
      BY <2>5, <2>7, <2>8
    <3>2. Len(b) = m + 1 /\ b[m + 1] = old /\ \A i \in 1 .. m : b[i] = calls[i]
      BY <2>7, <2>10
    <3> HIDE DEF m, a, b
    <3>3. ASSUME NEW i \in 1 .. m + 1 PROVE a[i].rows = b[i].rows /\ a[i].sql \in {b[i].sql, <<>>}
      <4>1. CASE i = m + 1
        BY <4>1, <2>6, <3>1, <3>2
      <4>2. CASE i \in 1 .. m
        BY <4>2, <2>8, <3>1, <3>2 DEF m
      <4>3. QED
        BY <3>1, <4>1, <4>2
    <3>4. SameCalls(a, b)
      BY <3>1, <3>2, <3>3 DEF SameCalls
    <3>5. QED
      BY <3>4 DEF a, b
  <2>15. QED
    BY <2>4, <2>9, <2>12, <2>13, <2>14 DEF more
<1>9. CASE e.event = "token"
  <2>1. v = [view EXCEPT !.text = @ \o e.data]
    BY <1>9 DEF OnEvent
  <2>2. v.text = view.text \o e.data /\ v.calls = view.calls /\ v.pending = view.pending
    BY <2>1
  <2>3. view.text \o e.data \in Seq(Characters)
    BY <1>3, <1>5, ConcatProperties
  <2>4. v \in [text : Seq(Characters), calls : Seq(ToolCall), pending : Seq(Seq(Characters))]
    BY <2>1, <2>3
  <2>5. TextOf(more) = view.text \o e.data /\ CallsOf(more) = CallsOf(before) /\ Waiting(more) = <<>>
    BY <1>2, <1>4, <1>9
  <2>6. Waiting(before) = <<>>
    BY <1>6, <1>9 DEF Follows
  <2>7. QED
    BY <2>2, <2>4, <2>5, <2>6 DEF more
<1>10. CASE e.event \in {"conversation", "done", "error"}
  <2>1. v = view
    BY <1>10 DEF OnEvent
  <2>2. TextOf(more) = view.text /\ CallsOf(more) = CallsOf(before)
    BY <1>2, <1>4, <1>10
  <2>3. Waiting(more) = Waiting(before)
    BY <1>2, <1>6, <1>10 DEF Follows
  <2>4. QED
    BY <2>1, <2>2, <2>3 DEF more
<1>11. QED
  BY <1>5, <1>7, <1>8, <1>9, <1>10 DEF EventNames

(* While there is a boundary there is an event on its way, and it is the
   next one.                                                               *)
LEMMA HearsNext ==
  ASSUME ReplyStreamAssumption, StreamInv, Boundaries # {}
  PROVE  LET h == Len(heard)
             e == sent[h + 1]
         IN  /\ Connected /\ h \in Nat /\ h + 1 \in 1 .. Len(sent) /\ e \in Events
             /\ ParseSseEvent(CutOff) = <<e>>
             /\ Remaining \in Seq(Symbols)
             /\ Remaining \o Decode(carry \o wire) = FlattenSeq(Rest(sent, h + 1))
<1> DEFINE h == Len(heard)
           n == Len(sent)
           e == sent[h + 1]
           z == Decode(carry \o wire)
           r == FlattenSeq(Rest(sent, h + 1))
<1>1. Connected /\ buffer \o z = FlattenSeq(Rest(sent, h))
  BY DEF StreamInv, InTransit
<1>2. /\ sent \in Seq(Events) /\ heard \in Seq(Events) /\ buffer \in Seq(Symbols)
      /\ carry \in {<<>>, <<"hi">>} /\ wire \in Seq(Symbols)
  BY DEF StreamInv, StreamTypeOK
<1>3. h \in Nat /\ n \in Nat /\ h <= n
  <2>1. h \in Nat /\ n \in Nat
    BY <1>2, LenProperties
  <2>2. QED
    BY <2>1 DEF StreamInv, InTransit
<1>4. z \in Seq(Symbols)
  <2>1. "hi" \in Symbols
    BY DEF Symbols, Framing
  <2>2. <<"hi">> \in Seq(Symbols) /\ <<>> \in Seq(Symbols)
    BY <2>1, EmptySeq
  <2>3. carry \in Seq(Symbols)
    BY <1>2, <2>2
  <2>4. carry \o wire \in Seq(Symbols)
    BY <1>2, <2>3, ConcatProperties
  <2>5. QED
    BY <2>4, DecodeType
<1>5. h < n
  <2>1. SUFFICES ASSUME h = n PROVE FALSE
    BY <1>3
  <2>2. Rest(sent, h) \in Seq(Seq(Symbols)) /\ Len(Rest(sent, h)) = 0
    BY <1>2, <1>3, <2>1, RestType
  <2>3. Rest(sent, h) = <<>>
    BY <2>2, EmptySeq
  <2> HIDE DEF z
  <2>4. buffer \o z = <<>>
    BY <1>1, <2>3, FlattenEmpty
  <2>5. Len(buffer) \in Nat /\ Len(z) \in Nat /\ Len(buffer \o z) = Len(buffer) + Len(z)
    BY <1>2, <1>4, ConcatAt
  <2>6. Len(buffer \o z) = 0
    BY <2>4
  <2>7. Len(buffer) = 0
    BY <2>5, <2>6
  <2>8. Boundaries = {}
    BY <2>7 DEF Boundaries
  <2>9. QED
    BY <2>8
<1>6. h + 1 \in 1 .. n /\ h + 1 \in Nat
  BY <1>3, <1>5
<1>7. e \in Events
  BY <1>2, <1>6, ElementOfSeq
<1>8. Rest(sent, h + 1) \in Seq(Seq(Symbols)) /\ Rest(sent, h) = <<Text(e)>> \o Rest(sent, h + 1)
  BY <1>2, <1>3, <1>5, RestFirst
<1>9. Text(e) \in Seq(Symbols)
  BY <1>7, TextShape
<1>10. FlattenSeq(Rest(sent, h)) = Text(e) \o r /\ r \in Seq(Symbols)
  <2>1. FlattenSeq(<<Text(e)>> \o Rest(sent, h + 1)) = Text(e) \o FlattenSeq(Rest(sent, h + 1))
    BY <1>8, <1>9, FlattenCons
  <2>2. r \in Seq(Symbols)
    BY <1>8, FlattenType
  <2>3. QED
    BY <1>8, <2>1, <2>2
<1> HIDE DEF z, r, e
<1>11. buffer \o z = Text(e) \o r
  BY <1>1, <1>10
<1>12. /\ ParseSseEvent(CutOff) = <<e>>
       /\ Remaining \in Seq(Symbols) /\ Remaining \o z = r
  <2>1. Begins(e, r, z)
    BY <1>2, <1>4, <1>7, <1>10, <1>11 DEF Begins
  <2>2. QED
    BY <2>1, FirstEvent, Zenon
<1>13. QED
  BY <1>1, <1>3, <1>6, <1>7, <1>12 DEF z, r, e

(* Hear takes the next event from the rest to those heard. *)
LEMMA HearKeeps ==
  ASSUME ReplyStreamAssumption, StreamInv, Hear
  PROVE  StreamInv'
<1> DEFINE h == Len(heard)
           e == sent[h + 1]
           more == Append(heard, e)
<1>1. UNCHANGED <<sent, reply, roundContent, asked, wire, socket, carry>> /\ Boundaries # {}
  BY DEF Hear
<1>2. /\ Connected /\ h \in Nat /\ h + 1 \in 1 .. Len(sent) /\ e \in Events
      /\ ParseSseEvent(CutOff) = <<e>>
      /\ Remaining \in Seq(Symbols)
      /\ Remaining \o Decode(carry \o wire) = FlattenSeq(Rest(sent, h + 1))
  BY <1>1, HearsNext
<1>3. buffer' = Remaining /\ heard' = heard \o <<e>> /\ view' \in OnEvent(e)
  <2> DEFINE parsed == ParseSseEvent(CutOff)
  <2>1. /\ buffer' = Remaining /\ heard' = heard \o parsed
        /\ view' \in IF parsed = <<>> THEN {view} ELSE OnEvent(parsed[1])
    BY Zenon DEF Hear, CutOff, Remaining
  <2>2. parsed = <<e>>
    BY <1>2, Zenon
  <2> HIDE DEF parsed, e
  <2>3. parsed # <<>> /\ parsed[1] = e
    BY <2>2
  <2>4. QED
    BY <2>1, <2>2, <2>3, Zenon
<1>4. heard \in Seq(Events) /\ sent \in Seq(Events) /\ sent # <<>>
  BY DEF StreamInv, StreamTypeOK
<1>5. heard' = more
  BY <1>2, <1>3, <1>4, AppendIsConcat
<1>6. /\ more \in Seq(Events) /\ Len(more) = h + 1 /\ more[h + 1] = e
      /\ \A i \in 1 .. h : more[i] = heard[i]
  BY <1>2, <1>4
<1> HIDE DEF more
<1>7. \A i \in 1 .. h : heard[i] = sent[i]
  BY DEF StreamInv, InTransit
<1>8. ASSUME NEW i \in 1 .. h + 1 PROVE more[i] = sent[i]
  <2>1. CASE i = h + 1
    BY <2>1, <1>6
  <2>2. CASE i \in 1 .. h
    BY <2>2, <1>6, <1>7
  <2>3. QED
    BY <1>2, <2>1, <2>2
<1>9. Len(sent) \in Nat /\ h + 1 <= Len(sent)
  <2>1. Len(sent) \in Nat
    BY <1>4, LenProperties
  <2>2. QED
    BY <1>2, <2>1
<1>10. Connected' /\ sent' = sent
  BY <1>1, <1>2 DEF Connected
<1>11. InTransit'
  <2>1. Len(heard') <= Len(sent') /\ \A i \in 1 .. Len(heard') : heard'[i] = sent'[i]
    BY <1>5, <1>6, <1>8, <1>9, <1>10
  <2>2. buffer' \o Decode(carry' \o wire') = FlattenSeq(Rest(sent', Len(heard')))
    BY <1>1, <1>2, <1>3, <1>5, <1>6
  <2>3. QED
    BY <1>10, <2>1, <2>2 DEF InTransit
<1>12. sent[1].event = "conversation" /\ \A i \in 1 .. Len(sent) - 1 : Follows(sent[i], sent[i + 1])
  BY DEF StreamInv, EventsInOrder
<1>13. Sound(sent)
  BY <1>4, <1>12, InOrderSound
<1>14. Sound(heard) /\ Sound(more)
  <2>1. Sound(heard)
    <3>1. h <= Len(sent)
      BY <1>2, <1>9
    <3>2. QED
      BY <1>4, <1>7, <1>13, <3>1, PartsPrefix
  <2>2. Sound(more)
    <3>1. Len(more) <= Len(sent) /\ \A i \in 1 .. Len(more) : more[i] = sent[i]
      BY <1>6, <1>8, <1>9
    <3>2. QED
      BY <1>4, <1>6, <1>13, <3>1, PartsPrefix
  <2>3. QED
    BY <2>1, <2>2
<1>15. h > 0 => Follows(heard[h], e)
  <2>1. SUFFICES ASSUME h > 0 PROVE Follows(heard[h], e)
    OBVIOUS
  <2>2. h \in 1 .. h /\ h \in 1 .. Len(sent) - 1
    BY <1>2, <1>9, <2>1
  <2>3. heard[h] = sent[h] /\ Follows(sent[h], sent[h + 1])
    BY <1>7, <1>12, <2>2
  <2>4. QED
    BY <2>3
<1>16. /\ view \in [text : Seq(Characters), calls : Seq(ToolCall), pending : Seq(Seq(Characters))]
       /\ view.text = TextOf(heard) /\ SameCalls(view.calls, CallsOf(heard))
       /\ view.pending = Waiting(heard)
  BY <1>2 DEF StreamInv, StreamTypeOK, Shown
<1>17. /\ view' \in [text : Seq(Characters), calls : Seq(ToolCall), pending : Seq(Seq(Characters))]
       /\ view'.text = TextOf(more) /\ SameCalls(view'.calls, CallsOf(more))
       /\ view'.pending = Waiting(more)
  <2> HIDE DEF e
  <2>1. e \in Events /\ view' \in OnEvent(e) /\ (Len(heard) > 0 => Follows(heard[Len(heard)], e))
    BY <1>2, <1>3, <1>15
  <2>2. QED
    BY <1>4, <1>14, <1>16, <2>1, ViewAfter DEF more
<1>18. Shown'
  BY <1>5, <1>10, <1>17 DEF Shown
<1>19. StreamTypeOK'
  BY <1>1, <1>2, <1>3, <1>5, <1>6, <1>17 DEF StreamInv, StreamTypeOK
<1>20. EventsInOrder'
  BY <1>1 DEF StreamInv, EventsInOrder, Connected
<1>21. Recorded'
  BY <1>1 DEF StreamInv, Recorded, Connected, Written
<1>22. QED
  BY <1>11, <1>18, <1>19, <1>20, <1>21 DEF StreamInv

-----------------------------------------------------------------------------
(* The invariant holds *)

(* No events come to nothing. *)
LEMMA NothingHeard ==
    /\ <<>> \in Seq(Events) /\ Sound(<<>>)
    /\ TextOf(<<>>) = <<>> /\ CallsOf(<<>>) = <<>> /\ Waiting(<<>>) = <<>>
<1>1. <<>> \in Seq(Events) /\ Len(<<>>) = 0
  BY EmptySeq
<1>2. Sound(<<>>)
  BY <1>1 DEF Sound
<1>3. [i \in 1 .. Len(<<>>) |-> TextAt(<<>>, i)] = <<>>
  <2> DEFINE s == [i \in 1 .. Len(<<>>) |-> TextAt(<<>>, i)]
  <2>1. s \in Seq(Seq(Characters))
    BY <1>1, <1>2, PartsType
  <2>2. Len(s) = 0
    BY <1>1
  <2> HIDE DEF s
  <2>3. s = <<>>
    BY <2>1, <2>2, EmptySeq
  <2>4. QED
    BY <2>3 DEF s
<1>4. [i \in 1 .. Len(<<>>) |-> CallAt(<<>>, i)] = <<>>
  <2> DEFINE s == [i \in 1 .. Len(<<>>) |-> CallAt(<<>>, i)]
  <2>1. s \in Seq(Seq(ToolCall))
    BY <1>1, <1>2, PartsType
  <2>2. Len(s) = 0
    BY <1>1
  <2> HIDE DEF s
  <2>3. s = <<>>
    BY <2>1, <2>2, EmptySeq
  <2>4. QED
    BY <2>3 DEF s
<1>5. TextOf(<<>>) = <<>>
  BY <1>3, FlattenEmpty DEF TextOf
<1>6. CallsOf(<<>>) = <<>>
  BY <1>4, FlattenEmpty DEF CallsOf
<1>7. Waiting(<<>>) = <<>>
  BY <1>1 DEF Waiting
<1>8. QED
  BY <1>1, <1>2, <1>5, <1>6, <1>7

(* The invariant holds at the start. *)
LEMMA InitInv ==
  ASSUME ReplyStreamAssumption, StreamInit
  PROVE  StreamInv
<1> DEFINE e == SseEvent("conversation", <<>>)
           f == Frame(e)
<1>1. e \in Events /\ e.event = "conversation" /\ e.data = <<>>
  <2>1. <<>> \in Seq(Characters)
    BY EmptySeq
  <2>2. "conversation" \in EventNames
    BY DEF EventNames
  <2>3. QED
    BY <2>1, <2>2, EventType
<1>2. /\ sent = <<e>> /\ wire = f /\ asked = <<>> /\ socket = "open"
      /\ carry = <<>> /\ buffer = <<>> /\ heard = <<>>
      /\ reply = [text |-> <<>>, calls |-> <<>>, error |-> FALSE] /\ roundContent = <<>>
      /\ view = EmptyView
  BY DEF StreamInit
<1> HIDE DEF e
<1>3. f \in Seq(Symbols) /\ Decode(f) = Text(e) /\ Text(e) \in Seq(Symbols)
  BY <1>1, FrameDecoded, TextShape
<1> HIDE DEF f
<1>4. /\ sent \in Seq(Events) /\ sent # <<>> /\ Len(sent) = 1 /\ sent[1] = e
      /\ sent = Append(<<>>, e)
  BY <1>1, <1>2
<1>5. /\ <<>> \in Seq(Characters) /\ <<>> \in Seq(ToolCall) /\ <<>> \in Seq(Seq(Characters))
      /\ <<>> \in Seq(Symbols)
  BY EmptySeq
<1>6. StreamTypeOK
  <2>1. wire \in Seq(Symbols) /\ buffer \in Seq(Symbols) /\ heard \in Seq(Events)
    BY <1>2, <1>3, <1>5, NothingHeard
  <2>2. /\ reply \in StoredReply /\ roundContent \in Seq(Characters)
        /\ asked \in Seq(Seq(Characters))
    BY <1>2, <1>5 DEF StoredReply
  <2>3. view \in [text : Seq(Characters), calls : Seq(ToolCall), pending : Seq(Seq(Characters))]
    BY <1>2, <1>5 DEF EmptyView
  <2>4. QED
    BY <1>2, <1>4, <2>1, <2>2, <2>3 DEF StreamTypeOK
<1>7. Connected
  BY <1>2 DEF Connected
<1>8. Len(heard) = 0
  BY <1>2, EmptySeq
<1>9. InTransit
  <2>1. Rest(sent, 1) \in Seq(Seq(Symbols)) /\ Rest(sent, 0) = <<Text(e)>> \o Rest(sent, 1)
    <3>1. 0 \in Nat /\ 0 < Len(sent) /\ 0 + 1 = 1
      BY <1>4
    <3>2. /\ Rest(sent, 0 + 1) \in Seq(Seq(Symbols))
          /\ Rest(sent, 0) = <<Text(sent[0 + 1])>> \o Rest(sent, 0 + 1)
      BY <1>4, <3>1, RestFirst
    <3>3. QED
      BY <1>4, <3>1, <3>2
  <2>2. Rest(sent, 1) = <<>>
    <3>1. 1 \in Nat /\ 1 <= Len(sent)
      BY <1>4
    <3>2. Len(Rest(sent, 1)) = Len(sent) - 1
      BY <1>4, <3>1, RestType
    <3>3. Len(Rest(sent, 1)) = 0
      BY <1>4, <3>2
    <3>4. QED
      BY <2>1, <3>3, EmptySeq
  <2>3. FlattenSeq(Rest(sent, 0)) = Text(e)
    <3>1. FlattenSeq(<<Text(e)>> \o Rest(sent, 1)) = Text(e) \o FlattenSeq(Rest(sent, 1))
      BY <1>3, <2>1, FlattenCons
    <3>2. Text(e) \o <<>> = Text(e)
      BY <1>3, ConcatEmptySeq
    <3>3. QED
      BY <2>1, <2>2, <3>1, <3>2, FlattenEmpty
  <2>4. buffer \o Decode(carry \o wire) = Text(e)
    <3>1. <<>> \o f = f
      BY <1>3, ConcatEmptySeq
    <3>2. <<>> \o Text(e) = Text(e)
      BY <1>3, ConcatEmptySeq
    <3>3. QED
      BY <1>2, <1>3, <3>1, <3>2
  <2>5. Len(heard) <= Len(sent) /\ \A i \in 1 .. Len(heard) : heard[i] = sent[i]
    BY <1>4, <1>8
  <2>6. QED
    BY <1>7, <1>8, <2>3, <2>4, <2>5 DEF InTransit
<1>10. EventsInOrder
  <2>1. Last(sent).event = "conversation"
    BY <1>1, <1>4 DEF Last
  <2>2. sent[1].event = "conversation" /\ \A i \in 1 .. Len(sent) - 1 : Follows(sent[i], sent[i + 1])
    BY <1>1, <1>4
  <2>3. socket # "ended"
    BY <1>2
  <2>4. QED
    BY <2>1, <2>2, <2>3 DEF EventsInOrder
<1>11. Sound(sent)
  BY <1>4, <1>10, InOrderSound DEF EventsInOrder
<1>12. TextOf(sent) = <<>> /\ CallsOf(sent) = <<>> /\ Waiting(sent) = <<>>
  <2> DEFINE none == <<>>
  <2>1. none \in Seq(Events) /\ Sound(none) /\ Sound(Append(none, e)) /\ Len(none) = 0
        /\ TextOf(none) = <<>> /\ CallsOf(none) = <<>>
    BY <1>4, <1>11, NothingHeard, EmptySeq
  <2> HIDE DEF none
  <2>2. /\ TextOf(Append(none, e)) = <<>> \o <<>> /\ CallsOf(Append(none, e)) = <<>> \o <<>>
        /\ Waiting(Append(none, e)) = <<>>
    BY <1>1, <2>1, PartsAppend
  <2>3. <<>> \o <<>> = <<>>
    BY <1>5, ConcatEmptySeq
  <2>4. QED
    BY <1>4, <2>2, <2>3 DEF none
<1>13. Recorded
  <2>1. Last(sent).event = "conversation"
    BY <1>1, <1>4 DEF Last
  <2>2. Written = <<>>
    BY <1>2, <1>5, ConcatEmptySeq DEF Written
  <2>3. QED
    BY <1>2, <1>12, <2>1, <2>2 DEF Recorded
<1>14. Shown
  <2>1. SameCalls(<<>>, <<>>)
    BY EmptySeq DEF SameCalls
  <2>2. QED
    BY <1>2, <1>7, <2>1, NothingHeard DEF Shown, EmptyView
<1>15. QED
  BY <1>6, <1>9, <1>10, <1>13, <1>14 DEF StreamInv

(* Every step keeps the invariant. *)
LEMMA NextInv ==
  ASSUME ReplyStreamAssumption, StreamInv, [StreamNext]_streamVars
  PROVE  StreamInv'
<1>1. \A p \in Payloads : p \in Seq(Characters)
  BY DEF ReplyStreamAssumption
<1>2. <<>> \in Seq(Characters)
  BY EmptySeq
<1>3. \A d \in Seq(Characters) : \A name \in EventNames : SseEvent(name, d) \in Events
  BY EventType
<1>4. CASE Hear
  BY <1>4, HearKeeps
<1>5. ASSUME Boundaries = {}, NEW p \in Seq(Characters), SendToken(p) \/ AnnounceQuery(p) \/ SendRows(p)
      PROVE  StreamInv'
  <2>1. CASE SendToken(p)
    <3>1. GivesUp \/ Emits(SseEvent("token", p))
      BY <2>1, TokenEmits
    <3>2. SseEvent("token", p) \in Events
      BY <1>3 DEF EventNames
    <3>3. QED
      BY <3>1, <3>2, GivesUpKeeps, EmitKeeps
  <2>2. CASE AnnounceQuery(p)
    <3>1. GivesUp \/ Emits(SseEvent("tool_call", p))
      BY <2>2, QueryEmits
    <3>2. SseEvent("tool_call", p) \in Events
      BY <1>3 DEF EventNames
    <3>3. QED
      BY <3>1, <3>2, GivesUpKeeps, EmitKeeps
  <2>3. CASE SendRows(p)
    <3>1. GivesUp \/ Emits(SseEvent("tool_result", p))
      BY <2>3, RowsEmit
    <3>2. SseEvent("tool_result", p) \in Events
      BY <1>3 DEF EventNames
    <3>3. QED
      BY <3>1, <3>2, GivesUpKeeps, EmitKeeps
  <2>4. QED
    BY <1>5, <2>1, <2>2, <2>3
<1>6. ASSUME NEW name \in {"done", "error"}, FinishTurn(name)
      PROVE  StreamInv'
  <2>1. Emits(SseEvent(name, <<>>))
    BY <1>6, FinishEmits
  <2>2. SseEvent(name, <<>>) \in Events
    BY <1>2, <1>3 DEF EventNames
  <2>3. QED
    BY <2>1, <2>2, EmitKeeps
<1>7. ASSUME NEW k \in 1 .. Len(wire), Read(k) PROVE StreamInv'
  BY <1>7, ReadKeeps
<1>8. CASE Boundaries = {} /\ BreakOff
  BY <1>8, BreakKeeps
<1>9. CASE UNCHANGED streamVars
  <2>1. UNCHANGED <<sent, reply, roundContent, asked, wire, socket, carry, buffer, heard, view>>
    BY <1>9 DEF streamVars
  <2>2. StreamTypeOK'
    BY <2>1 DEF StreamInv, StreamTypeOK
  <2>3. InTransit'
    BY <2>1 DEF StreamInv, InTransit, Connected, Boundaries
  <2>4. EventsInOrder' /\ Recorded' /\ Shown'
    BY <2>1 DEF StreamInv, EventsInOrder, Recorded, Shown, Connected, Written
  <2>5. QED
    BY <2>2, <2>3, <2>4 DEF StreamInv
<1>10. CASE EndRound
  BY <1>10, EndRoundKeeps
<1>11. QED
  BY <1>1, <1>2, <1>4, <1>5, <1>6, <1>7, <1>8, <1>9, <1>10 DEF StreamNext

-----------------------------------------------------------------------------
(* What the page shows *)

(* IsPrefix, element by element. *)
LEMMA PrefixIs ==
  ASSUME NEW S, NEW s \in Seq(S), NEW t \in Seq(S), Len(s) <= Len(t),
         \A i \in 1 .. Len(s) : t[i] = s[i]
  PROVE  IsPrefix(s, t)
<1> DEFINE n == Len(s)
           u == SubSeq(t, 1, n)
<1>1. n \in Nat /\ n <= Len(t) /\ Len(t) \in Nat /\ t \in Seq(S)
  BY LenProperties
<1> HIDE DEF n
<1>2. u \in Seq(S) /\ Len(u) = n /\ \A i \in 1 .. n : u[i] = t[i]
  BY <1>1
<1> HIDE DEF u
<1>3. u = s
  BY <1>2, SeqEqual DEF n
<1>4. SubSeq(s, 1, Len(s)) = s
  BY SubSeqFull
<1>5. QED
  BY <1>1, <1>3, <1>4 DEF IsPrefix, n, u

(* The events, and what the invariant says of them. *)
LEMMA EventFacts ==
  ASSUME StreamInv
  PROVE  /\ sent \in Seq(Events) /\ heard \in Seq(Events)
         /\ Len(sent) \in Nat /\ Len(heard) \in Nat /\ Len(heard) <= Len(sent) /\ Len(sent) > 0
         /\ \A i \in 1 .. Len(heard) : heard[i] = sent[i]
         /\ \A i \in 1 .. Len(sent) - 1 : Follows(sent[i], sent[i + 1])
         /\ Sound(sent) /\ Sound(heard)
<1>1. sent \in Seq(Events) /\ heard \in Seq(Events) /\ sent # <<>>
  BY DEF StreamInv, StreamTypeOK
<1>2. Len(sent) \in Nat /\ Len(heard) \in Nat /\ Len(sent) > 0
  BY <1>1
<1>3. Len(heard) <= Len(sent) /\ \A i \in 1 .. Len(heard) : heard[i] = sent[i]
  BY DEF StreamInv, InTransit
<1>4. sent[1].event = "conversation" /\ \A i \in 1 .. Len(sent) - 1 : Follows(sent[i], sent[i + 1])
  BY DEF StreamInv, EventsInOrder
<1>5. Sound(sent)
  BY <1>1, <1>4, InOrderSound
<1>6. Sound(heard)
  BY <1>1, <1>3, <1>5, PartsPrefix
<1>7. QED
  BY <1>1, <1>2, <1>3, <1>4, <1>5, <1>6

(* When the body has ended and nothing is left of it, all is heard. *)
LEMMA AllHeard ==
  ASSUME ReplyStreamAssumption, StreamInv, socket = "ended", wire = <<>>, Boundaries = {}
  PROVE  heard = sent
<1> DEFINE h == Len(heard)
           n == Len(sent)
           last == sent[n]
           front == SubSeq(sent, 1, n - 1)
<1>1. /\ sent \in Seq(Events) /\ heard \in Seq(Events) /\ n \in Nat /\ h \in Nat /\ h <= n /\ n > 0
      /\ \A i \in 1 .. h : heard[i] = sent[i]
  BY EventFacts
<1>2. CASE h = n
  BY <1>1, <1>2, SeqEqual
<1>3. CASE h < n
  <2>1. /\ last \in Events /\ front \in Seq(Events) /\ Len(front) = n - 1
        /\ sent = Append(front, last)
    <3>1. n \in 1 .. n
      BY <1>1
    <3>2. last \in Events
      BY <1>1, <3>1, ElementOfSeq
    <3>3. n - 1 \in Nat /\ n - 1 <= n
      BY <1>1
    <3> DEFINE m == n - 1
    <3>4. m \in Nat /\ m <= Len(sent) /\ sent \in Seq(Events)
      BY <1>1, <3>3
    <3> HIDE DEF m
    <3>5. SubSeq(sent, 1, m) \in Seq(Events) /\ Len(SubSeq(sent, 1, m)) = m
          /\ \A i \in 1 .. m : SubSeq(sent, 1, m)[i] = sent[i]
      BY <3>4
    <3>6. front \in Seq(Events) /\ Len(front) = n - 1 /\ \A i \in 1 .. n - 1 : front[i] = sent[i]
      BY <3>5 DEF m
    <3> HIDE DEF front, last
    <3> DEFINE all == Append(front, last)
    <3>7. all \in Seq(Events) /\ Len(all) = (n - 1) + 1 /\ all[(n - 1) + 1] = last
          /\ \A i \in 1 .. n - 1 : all[i] = front[i]
      BY <3>2, <3>6
    <3> HIDE DEF all, n
    <3>8. (n - 1) + 1 = n /\ n = Len(sent)
      BY <1>1 DEF n
    <3>9. ASSUME NEW i \in 1 .. n PROVE sent[i] = all[i]
      <4>1. CASE i = n
        BY <4>1, <3>7, <3>8 DEF last
      <4>2. CASE i # n
        <5>1. i \in 1 .. n - 1
          BY <4>2, <1>1
        <5>2. QED
          BY <5>1, <3>6, <3>7
      <4>3. QED
        BY <4>1, <4>2
    <3>10. sent = all
      BY <1>1, <3>7, <3>8, <3>9, SeqEqual
    <3>11. QED
      BY <3>2, <3>6, <3>10 DEF all
  <2> HIDE DEF front, last
  <2> DEFINE before == FlattenSeq(Rest(front, h))
             t == Text(last)
             all == before \o t
             z == Decode(carry)
  <2>2. Rest(front, h) \in Seq(Seq(Symbols)) /\ Rest(sent, h) = Append(Rest(front, h), t)
    <3>1. h <= Len(front)
      BY <1>1, <1>3, <2>1
    <3>2. QED
      BY <1>1, <2>1, <3>1, RestType, RestAppend
  <2>3. /\ t \in Seq(Symbols) /\ Len(t) = Len(last.data) + 8 /\ Len(last.data) \in Nat
        /\ t[Len(last.data) + 7] = "nl" /\ t[Len(last.data) + 8] = "nl"
    BY <2>1, TextShape
  <2>4. before \in Seq(Symbols) /\ FlattenSeq(Rest(sent, h)) = all
    <3>1. before \in Seq(Symbols)
      BY <2>2, FlattenType
    <3>2. FlattenSeq(Append(Rest(front, h), t)) = before \o t
      BY <2>2, <2>3, FlattenAppend
    <3>3. QED
      BY <2>2, <3>1, <3>2
  <2> DEFINE k == Len(before)
             m == Len(last.data)
  <2> HIDE DEF before, t
  <2>5. /\ all \in Seq(Symbols) /\ k \in Nat /\ Len(all) = k + Len(t)
        /\ \A i \in 1 .. Len(t) : all[k + i] = t[i]
    <3>1. before \in Seq(Symbols) /\ t \in Seq(Symbols)
      BY <2>3, <2>4
    <3>2. QED
      BY <3>1, ConcatAt
  <2> HIDE DEF all, k, m
  <2>6. /\ Len(all) = k + (m + 8) /\ m \in Nat /\ k \in Nat
        /\ all[k + (m + 7)] = "nl" /\ all[k + (m + 8)] = "nl"
    <3>1. m \in Nat /\ Len(t) = m + 8 /\ t[m + 7] = "nl" /\ t[m + 8] = "nl"
      BY <2>3 DEF m
    <3>2. m + 7 \in 1 .. Len(t) /\ m + 8 \in 1 .. Len(t)
      BY <3>1
    <3>3. QED
      BY <2>5, <3>1, <3>2
  <2>7. carry \in {<<>>, <<"hi">>} /\ buffer \in Seq(Symbols)
    BY DEF StreamInv, StreamTypeOK
  <2>8. buffer \o z = all
    <3>1. buffer \o Decode(carry \o wire) = FlattenSeq(Rest(sent, h))
      BY DEF StreamInv, InTransit, Connected
    <3>2. carry \o <<>> = carry
      <4>1. "hi" \in Symbols
        BY DEF Symbols, Framing
      <4>2. <<"hi">> \in Seq(Symbols) /\ <<>> \in Seq(Symbols)
        BY <4>1, EmptySeq
      <4>3. carry \in Seq(Symbols)
        BY <2>7, <4>2
      <4>4. QED
        BY <4>3, ConcatEmptySeq
    <3>3. QED
      BY <2>4, <3>1, <3>2
  <2>9. carry = <<>>
    <3>1. SUFFICES ASSUME carry = <<"hi">> PROVE FALSE
      BY <2>7
    <3>2. z = <<"bad">>
      BY <3>1, DecodeHalf
    <3> HIDE DEF z
    <3>3. z \in Seq(Symbols) /\ Len(z) = 1 /\ z[1] = "bad"
      <4>1. "bad" \in Symbols
        BY DEF Symbols, Framing
      <4>2. QED
        BY <3>2, <4>1
    <3>4. Len(buffer \o z) = Len(buffer) + Len(z) /\ Len(buffer) \in Nat
          /\ \A i \in 1 .. Len(z) : (buffer \o z)[Len(buffer) + i] = z[i]
      <4>1. z \in Seq(Symbols) /\ buffer \in Seq(Symbols)
        BY <2>7, <3>3
      <4>2. QED
        BY <4>1, ConcatAt
    <3>5. (buffer \o z)[Len(buffer) + 1] = "bad" /\ Len(buffer) + 1 = Len(buffer \o z)
      BY <3>3, <3>4
    <3>6. all[k + (m + 8)] = "bad"
      BY <2>6, <2>8, <3>5
    <3>7. QED
      BY <2>6, <3>6
  <2>10. buffer = all
    <3>1. buffer \o <<>> = buffer
      BY <2>7, ConcatEmptySeq
    <3>2. z = <<>>
      BY <2>9, DecodeEmpty
    <3>3. QED
      BY <2>8, <3>1, <3>2
  <2>11. k + (m + 7) \in 1 .. Len(all) - 1 /\ (k + (m + 7)) + 1 = k + (m + 8)
    BY <2>6
  <2>12. k + (m + 7) \in Boundaries
    BY <2>6, <2>10, <2>11 DEF Boundaries
  <2>13. QED
    BY <2>12
<1>4. QED
  BY <1>1, <1>2, <1>3

(* The text shown, and the number of calls. *)
LEMMA ShownBegins ==
  ASSUME StreamInv
  PROVE  /\ IsPrefix(view.text, reply.text \o roundContent)
         /\ Connected => /\ reply.calls = CallsOf(sent)
                         /\ reply.text \o roundContent = TextOf(sent)
                         /\ asked = Waiting(sent)
                         /\ view.text = TextOf(heard) /\ SameCalls(view.calls, CallsOf(heard))
                         /\ view.pending = Waiting(heard)
                         /\ CallsOf(heard) \in Seq(ToolCall) /\ CallsOf(sent) \in Seq(ToolCall)
                         /\ Len(CallsOf(heard)) <= Len(CallsOf(sent))
                         /\ \A i \in 1 .. Len(CallsOf(heard)) : CallsOf(sent)[i] = CallsOf(heard)[i]
<1>1. /\ sent \in Seq(Events) /\ heard \in Seq(Events) /\ Sound(sent) /\ Sound(heard)
      /\ Len(heard) <= Len(sent) /\ \A i \in 1 .. Len(heard) : heard[i] = sent[i]
  BY EventFacts
<1>2. view.text \in Seq(Characters) /\ Written \in Seq(Characters)
  BY ConcatProperties DEF StreamInv, StreamTypeOK, StoredReply, Written
<1>3. /\ Len(TextOf(heard)) <= Len(TextOf(sent))
      /\ \A i \in 1 .. Len(TextOf(heard)) : TextOf(sent)[i] = TextOf(heard)[i]
      /\ Len(CallsOf(heard)) <= Len(CallsOf(sent))
      /\ \A i \in 1 .. Len(CallsOf(heard)) : CallsOf(sent)[i] = CallsOf(heard)[i]
  BY <1>1, PartsPrefix
<1>4. CallsOf(heard) \in Seq(ToolCall) /\ CallsOf(sent) \in Seq(ToolCall)
  BY <1>1, PartsType
<1>5. CASE Connected
  <2>1. /\ reply.calls = CallsOf(sent) /\ Written = TextOf(sent) /\ asked = Waiting(sent)
        /\ view.text = TextOf(heard) /\ SameCalls(view.calls, CallsOf(heard))
        /\ view.pending = Waiting(heard)
    BY <1>5 DEF StreamInv, Recorded, Shown
  <2>2. IsPrefix(view.text, Written)
    BY <1>2, <1>3, <2>1, PrefixIs
  <2>3. QED
    BY <1>3, <1>4, <2>1, <2>2 DEF Written
<1>6. CASE ~Connected
  <2>1. view.text = <<>>
    BY <1>6 DEF StreamInv, Shown, EmptyView
  <2>2. Len(view.text) = 0 /\ Len(Written) \in Nat
    BY <1>2, <2>1, EmptySeq, LenProperties
  <2>3. Len(view.text) <= Len(Written) /\ \A i \in 1 .. Len(view.text) : Written[i] = view.text[i]
    BY <2>2
  <2>4. IsPrefix(view.text, Written)
    BY <1>2, <2>3, PrefixIs
  <2>5. QED
    BY <1>6, <2>4 DEF Written
<1>7. QED
  BY <1>5, <1>6

(* The query shown as running is the one that was asked: its rows have been
   stored since, as those of the first call not shown, or it still waits.   *)
LEMMA PendingAsked ==
  ASSUME StreamInv, Connected, view.pending # <<>>
  PROVE  /\ Len(view.pending) = 1
         /\ LET i == Len(view.calls) + 1 IN
            view.pending = IF i \in 1 .. Len(reply.calls) THEN reply.calls[i].sql ELSE asked
<1> DEFINE h == Len(heard)
           n == Len(sent)
           m == Len(CallsOf(heard))
<1>1. /\ sent \in Seq(Events) /\ heard \in Seq(Events) /\ n \in Nat /\ h \in Nat /\ h <= n /\ n > 0
      /\ \A i \in 1 .. h : heard[i] = sent[i]
      /\ \A i \in 1 .. n - 1 : Follows(sent[i], sent[i + 1])
      /\ Sound(sent) /\ Sound(heard)
  BY EventFacts
<1>2. /\ reply.calls = CallsOf(sent) /\ asked = Waiting(sent)
      /\ SameCalls(view.calls, CallsOf(heard)) /\ view.pending = Waiting(heard)
      /\ CallsOf(heard) \in Seq(ToolCall) /\ CallsOf(sent) \in Seq(ToolCall)
  BY ShownBegins
<1>3. Len(view.calls) = m /\ m \in Nat
  <2>1. Len(view.calls) = m
    BY <1>2 DEF SameCalls
  <2>2. m \in Nat
    BY <1>2, LenProperties
  <2>3. QED
    BY <2>1, <2>2
<1>4. Len(view.pending) = 1
  <2> DEFINE a == heard[h].data
             b == heard[h - 1].data
  <2>1. view.pending = <<a>> \/ view.pending = <<b>>
    BY <1>2 DEF Waiting
  <2> HIDE DEF a, b
  <2>2. Len(<<a>>) = 1 /\ Len(<<b>>) = 1
    OBVIOUS
  <2>3. QED
    BY <2>1, <2>2, Zenon
<1>5. CASE h = n
  <2>1. heard = sent
    BY <1>1, <1>5, SeqEqual
  <2>2. m = Len(reply.calls) /\ view.pending = asked
    BY <1>2, <2>1
  <2>3. m + 1 \notin 1 .. Len(reply.calls)
    BY <1>3, <2>2
  <2>4. QED
    BY <1>3, <1>4, <2>2, <2>3
<1>6. CASE h < n
  <2> DEFINE e == sent[h + 1]
             more == Append(heard, e)
  <2>1. h > 0
    <3>1. SUFFICES ASSUME h = 0 PROVE FALSE
      BY <1>1
    <3>2. Waiting(heard) = <<>>
      BY <3>1 DEF Waiting
    <3>3. QED
      BY <1>2, <3>2
  <2>2. h \in 1 .. h /\ h \in 1 .. n - 1 /\ h + 1 \in 1 .. n
    BY <1>1, <1>6, <2>1
  <2>3. heard[h] = sent[h] /\ Follows(heard[h], e)
    BY <1>1, <2>2
  <2>4. heard[h].event = "tool_call" /\ view.pending = <<heard[h].data>>
    <3>1. heard[h].event # "error"
      BY <2>3 DEF Follows
    <3>2. QED
      BY <1>2, <3>1 DEF Waiting
  <2>5. e.event \in {"tool_result", "error"}
    BY <2>3, <2>4 DEF Follows
  <2>6. e \in Events
    BY <1>1, <2>2, ElementOfSeq
  <2>7. /\ more \in Seq(Events) /\ Len(more) = h + 1 /\ more[h + 1] = e
        /\ \A i \in 1 .. h : more[i] = heard[i]
    BY <1>1, <2>6
  <2> HIDE DEF more
  <2>8. ASSUME NEW i \in 1 .. h + 1 PROVE more[i] = sent[i]
    <3>1. CASE i = h + 1
      BY <3>1, <2>7
    <3>2. CASE i \in 1 .. h
      BY <3>2, <1>1, <2>7
    <3>3. QED
      BY <1>1, <3>1, <3>2
  <2>9. Len(more) <= n /\ \A i \in 1 .. Len(more) : more[i] = sent[i]
    <3>1. h + 1 <= n
      BY <1>1, <1>6
    <3>2. QED
      BY <2>7, <2>8, <3>1
  <2>10. /\ Sound(more) /\ Len(CallsOf(more)) <= Len(CallsOf(sent))
         /\ \A i \in 1 .. Len(CallsOf(more)) : CallsOf(sent)[i] = CallsOf(more)[i]
    BY <1>1, <2>7, <2>9, PartsPrefix
  <2>11. CallsOf(more) = CallsOf(heard) \o
            (IF e.event = "tool_result"
             THEN <<[sql |-> <<heard[h].data>>, rows |-> e.data]>> ELSE <<>>)
    BY <1>1, <2>6, <2>10, PartsAppend DEF more
  <2>12. CASE e.event = "tool_result"
    <3> DEFINE c == [sql |-> <<heard[h].data>>, rows |-> e.data]
    <3>1. CallsOf(more) = CallsOf(heard) \o <<c>>
      BY <2>11, <2>12
    <3>2. c.sql = view.pending /\ c \in ToolCall
      <4>1. heard[h].data \in Seq(Characters)
        <5>1. heard[h] \in Events
          BY <1>1, <2>2, ElementOfSeq
        <5>2. QED
          BY <5>1 DEF Events
      <4>2. <<heard[h].data>> \in Seq(Seq(Characters)) /\ e.data \in Seq(Characters)
        BY <2>6, <4>1 DEF Events
      <4>3. QED
        BY <2>4, <4>2 DEF ToolCall
    <3> HIDE DEF c
    <3>3. CallsOf(heard) \o <<c>> = Append(CallsOf(heard), c)
      BY <1>2, <3>2, AppendIsConcat
    <3>4. Len(CallsOf(more)) = m + 1 /\ CallsOf(more)[m + 1] = c
      <4> DEFINE s == CallsOf(heard)
      <4>1. s \in Seq(ToolCall) /\ c \in ToolCall /\ CallsOf(more) = Append(s, c)
        BY <1>2, <3>1, <3>2, <3>3
      <4> HIDE DEF s
      <4>2. Len(Append(s, c)) = Len(s) + 1 /\ Append(s, c)[Len(s) + 1] = c
        BY <4>1
      <4>3. QED
        BY <4>1, <4>2 DEF s
    <3>5. m + 1 \in 1 .. Len(CallsOf(more)) /\ m + 1 \in 1 .. Len(CallsOf(sent))
      <4>1. Len(CallsOf(sent)) \in Nat
        BY <1>2, LenProperties
      <4>2. QED
        BY <1>3, <2>10, <3>4, <4>1
    <3>6. CallsOf(sent)[m + 1] = c
      BY <2>10, <3>4, <3>5
    <3>7. QED
      BY <1>2, <1>3, <1>4, <3>2, <3>5, <3>6
  <2>13. CASE e.event = "error"
    <3>1. h + 1 = n
      <4>1. SUFFICES ASSUME h + 1 < n PROVE FALSE
        BY <1>1, <1>6
      <4>2. h + 1 \in 1 .. n - 1
        BY <1>1, <2>2, <4>1
      <4>3. Follows(e, sent[(h + 1) + 1])
        BY <1>1, <4>2
      <4>4. QED
        BY <2>13, <4>3 DEF Follows
    <3>2. sent = more
      <4>1. Len(more) = Len(sent)
        BY <2>7, <3>1
      <4>2. QED
        BY <1>1, <2>7, <2>9, <4>1, SeqEqual
    <3>3. CallsOf(more) = CallsOf(heard)
      <4>1. CallsOf(heard) \o <<>> = CallsOf(heard)
        BY <1>2, ConcatEmptySeq
      <4>2. QED
        BY <2>11, <2>13, <4>1
    <3>4. asked = <<heard[h].data>>
      <4>1. Waiting(more) = <<heard[h].data>>
        BY <1>1, <2>1, <2>4, <2>6, <2>10, <2>13, PartsAppend DEF more
      <4>2. QED
        BY <1>2, <3>2, <4>1
    <3>5. m + 1 \notin 1 .. Len(reply.calls)
      BY <1>2, <1>3, <3>2, <3>3
    <3>6. QED
      BY <1>3, <1>4, <2>4, <3>4, <3>5
  <2>14. QED
    BY <2>5, <2>12, <2>13
<1>7. QED
  BY <1>1, <1>5, <1>6

(* The cards: the calls in order, then the query that is running. *)
LEMMA CardAt ==
  ASSUME StreamInv
  PROVE  LET m == Len(view.calls) IN
         /\ m \in Nat
         /\ DOMAIN Cards = 1 .. Len(Cards)
         /\ Len(Cards) = m + Len(view.pending) /\ Len(view.pending) \in Nat
         /\ \A i \in 1 .. m : Cards[i] = Card(view.calls[i].sql, view.calls[i].rows, FALSE)
         /\ \A i \in 1 .. Len(view.pending) : Cards[m + i] = Card(view.pending, <<>>, TRUE)
<1> DEFINE S == [sql : Seq(Seq(Characters)), rows : Seq(Characters),
                 note : {"querying", "none", "table"}]
           m == Len(view.calls)
           p == Len(view.pending)
           a == [i \in DOMAIN view.calls |-> Card(view.calls[i].sql, view.calls[i].rows, FALSE)]
           b == [i \in DOMAIN view.pending |-> Card(view.pending, <<>>, TRUE)]
<1>1. view.calls \in Seq(ToolCall) /\ view.pending \in Seq(Seq(Characters))
  BY DEF StreamInv, StreamTypeOK
<1>2. m \in Nat /\ p \in Nat /\ DOMAIN view.calls = 1 .. m /\ DOMAIN view.pending = 1 .. p
  BY <1>1
<1>3. \A sql \in Seq(Seq(Characters)), rows \in Seq(Characters), f \in BOOLEAN :
        Card(sql, rows, f) \in S
  BY EmptySeq DEF Card
<1>4. ASSUME NEW i \in 1 .. m PROVE Card(view.calls[i].sql, view.calls[i].rows, FALSE) \in S
  <2>1. view.calls[i] \in ToolCall
    BY <1>1, ElementOfSeq
  <2>2. QED
    BY <1>3, <2>1 DEF ToolCall
<1>5. Card(view.pending, <<>>, TRUE) \in S
  <2>1. <<>> \in Seq(Characters)
    BY EmptySeq
  <2>2. QED
    BY <1>1, <1>3, <2>1
<1> HIDE DEF S
<1>6. a \in [1 .. m -> S] /\ b \in [1 .. p -> S]
  BY <1>2, <1>4, <1>5
<1>7. /\ \A i \in 1 .. m : a[i] = Card(view.calls[i].sql, view.calls[i].rows, FALSE)
      /\ \A i \in 1 .. p : b[i] = Card(view.pending, <<>>, TRUE)
  BY <1>2
<1> HIDE DEF a, b, m, p
<1>8. a \in Seq(S) /\ b \in Seq(S) /\ Len(a) = m /\ Len(b) = p
  BY <1>2, <1>6
<1> DEFINE all == a \o b
<1>9. /\ all \in Seq(S) /\ Len(all) = m + p
      /\ \A i \in 1 .. m : all[i] = a[i]
      /\ \A i \in 1 .. p : all[m + i] = b[i]
  <2>1. a \in Seq(S) /\ b \in Seq(S)
    BY <1>8
  <2>2. /\ all \in Seq(S) /\ Len(all) = Len(a) + Len(b)
        /\ \A i \in 1 .. Len(a) : all[i] = a[i]
        /\ \A i \in 1 .. Len(b) : all[Len(a) + i] = b[i]
    BY <2>1, ConcatAt
  <2>3. QED
    BY <1>8, <2>2
<1>10. Cards = all
  BY DEF Cards, a, b
<1> HIDE DEF all
<1>11. DOMAIN all = 1 .. Len(all)
  BY <1>9
<1>12. QED
  BY <1>2, <1>7, <1>9, <1>10, <1>11 DEF m, p

(* Each card shows its call, or the query that runs. *)
LEMMA CardsAsStored ==
  ASSUME StreamInv, NEW i \in DOMAIN Cards
  PROVE  \/ i \in DOMAIN reply.calls /\ Shows(Cards[i], reply.calls[i])
         \/ /\ i = Len(Cards)
            /\ Cards[i] = Card(IF i \in DOMAIN reply.calls
                               THEN reply.calls[i].sql ELSE asked, <<>>, TRUE)
<1> DEFINE m == Len(view.calls)
           p == Len(view.pending)
<1>1. /\ m \in Nat /\ p \in Nat /\ i \in 1 .. m + p /\ Len(Cards) = m + p
      /\ \A j \in 1 .. m : Cards[j] = Card(view.calls[j].sql, view.calls[j].rows, FALSE)
      /\ \A j \in 1 .. p : Cards[m + j] = Card(view.pending, <<>>, TRUE)
  BY CardAt
<1>2. CASE ~Connected
  <2>1. view.calls = <<>> /\ view.pending = <<>>
    BY <1>2 DEF StreamInv, Shown, EmptyView
  <2>2. m = 0 /\ p = 0
    BY <2>1, EmptySeq
  <2> HIDE DEF m, p
  <2>3. i \in 1 .. 0
    BY <1>1, <2>2
  <2>4. QED
    BY <2>3
<1>3. CASE Connected
  <2>1. DOMAIN reply.calls = 1 .. Len(reply.calls) /\ Len(reply.calls) \in Nat
    <3>1. reply.calls \in Seq(ToolCall)
      BY DEF StreamInv, StreamTypeOK, StoredReply
    <3>2. QED
      BY <3>1
  <2>2. /\ reply.calls = CallsOf(sent) /\ SameCalls(view.calls, CallsOf(heard))
        /\ Len(CallsOf(heard)) <= Len(CallsOf(sent))
        /\ \A j \in 1 .. Len(CallsOf(heard)) : CallsOf(sent)[j] = CallsOf(heard)[j]
    BY <1>3, ShownBegins
  <2>3. /\ m = Len(CallsOf(heard))
        /\ \A j \in 1 .. m : /\ view.calls[j].rows = CallsOf(heard)[j].rows
                             /\ view.calls[j].sql \in {CallsOf(heard)[j].sql, <<>>}
    BY <2>2 DEF SameCalls
  <2>4. CASE i \in 1 .. m
    <3>1. i \in DOMAIN reply.calls
      BY <1>1, <2>1, <2>2, <2>3, <2>4
    <3>2. /\ view.calls[i].rows = reply.calls[i].rows
          /\ view.calls[i].sql \in {reply.calls[i].sql, <<>>}
      BY <2>2, <2>3, <2>4
    <3>3. Cards[i] = Card(view.calls[i].sql, reply.calls[i].rows, FALSE)
      BY <1>1, <2>4, <3>2
    <3>4. QED
      BY <3>1, <3>2, <3>3 DEF Shows
  <2>5. CASE i \notin 1 .. m
    <3>1. p > 0
      <4> HIDE DEF m, p
      <4>1. QED
        BY <1>1, <2>5
    <3>2. view.pending # <<>>
      BY <3>1, EmptySeq
    <3>3. p = 1 /\ view.pending = IF m + 1 \in 1 .. Len(reply.calls)
                                  THEN reply.calls[m + 1].sql ELSE asked
      BY <1>3, <3>2, PendingAsked
    <3>4. i = m + 1 /\ i = Len(Cards) /\ 1 \in 1 .. p
      BY <1>1, <2>5, <3>3
    <3>5. Cards[m + 1] = Card(view.pending, <<>>, TRUE)
      BY <1>1, <3>4
    <3>6. QED
      BY <2>1, <3>3, <3>4, <3>5
  <2>6. QED
    BY <2>4, <2>5
<1>4. QED
  BY <1>2, <1>3

(* When the last event is heard, so are the others: what is shown is what the
   turn has written.                                                        *)
LEMMA LastShown ==
  ASSUME StreamInv, heard # <<>>, Last(heard).event \in {"done", "error"}, socket = "ended"
  PROVE  /\ view.text = reply.text \o roundContent /\ Len(view.calls) = Len(reply.calls)
         /\ view.pending = asked
         /\ Last(heard).event = "done" =>
              ~reply.error /\ view.text = reply.text /\ view.pending = <<>>
         /\ Last(heard).event = "error" => reply.error
<1> DEFINE h == Len(heard)
           n == Len(sent)
<1>1. /\ sent \in Seq(Events) /\ heard \in Seq(Events) /\ n \in Nat /\ h \in Nat /\ h <= n
      /\ \A i \in 1 .. h : heard[i] = sent[i]
      /\ \A i \in 1 .. n - 1 : Follows(sent[i], sent[i + 1])
  BY EventFacts
<1>2. h > 0 /\ heard[h].event \in {"done", "error"}
  BY <1>1 DEF Last
<1>3. h = n
  <2>1. SUFFICES ASSUME h < n PROVE FALSE
    BY <1>1
  <2>2. h \in 1 .. h /\ h \in 1 .. n - 1
    BY <1>1, <1>2, <2>1
  <2>3. Follows(heard[h], sent[h + 1])
    BY <1>1, <2>2
  <2>4. QED
    BY <1>2, <2>3 DEF Follows
<1>4. heard = sent
  BY <1>1, <1>3, SeqEqual
<1>5. /\ reply.calls = CallsOf(sent) /\ reply.text \o roundContent = TextOf(sent)
      /\ asked = Waiting(sent)
      /\ view.text = TextOf(heard) /\ SameCalls(view.calls, CallsOf(heard))
      /\ view.pending = Waiting(heard)
  BY ShownBegins DEF Connected
<1>6. /\ Last(sent).event = "done" => roundContent = <<>> /\ ~reply.error
      /\ Last(sent).event = "error" => reply.error
  BY DEF StreamInv, Recorded, Connected
<1>7. Last(heard).event = "done" => Waiting(heard) = <<>>
  BY <1>2 DEF Waiting, Last
<1>8. reply.text \o <<>> = reply.text
  BY ConcatEmptySeq DEF StreamInv, StreamTypeOK, StoredReply
<1>9. QED
  BY <1>4, <1>5, <1>6, <1>7, <1>8 DEF SameCalls

(* However the network cuts the stream, the page hears the events that were
   sent, in order and once, all of them when the body ends.  It shows what
   the turn has written: the stored reply once "done" is heard; at "error"
   the stored reply, less its note, and behind it the text of the round that
   failed: handleChat and writeSseEvent against streamChat, parseSseEvent and
   the callback of sendMessage.                                            *)
THEOREM ReplyShownAsStored == StreamSpec => []ReplyAsStored
<1>1. ReplyStreamAssumption => (StreamInit => StreamInv)
  BY InitInv
<1>2. ReplyStreamAssumption => (StreamInv /\ [StreamNext]_streamVars => StreamInv')
  BY NextInv
<1>3. ReplyStreamAssumption => (StreamInv => ReplyAsStored)
  <2> SUFFICES ASSUME ReplyStreamAssumption, StreamInv PROVE ReplyAsStored
    OBVIOUS
  <2>1. IsPrefix(heard, sent)
    <3>1. /\ sent \in Seq(Events) /\ heard \in Seq(Events) /\ Len(heard) <= Len(sent)
          /\ \A i \in 1 .. Len(heard) : sent[i] = heard[i]
      BY EventFacts
    <3>2. QED
      BY <3>1, PrefixIs
  <2>2. socket = "ended" /\ wire = <<>> /\ Boundaries = {} => heard = sent
    BY AllHeard
  <2>3. IsPrefix(view.text, reply.text \o roundContent)
    BY ShownBegins
  <2>4. \A i \in DOMAIN Cards :
            \/ i \in DOMAIN reply.calls /\ Shows(Cards[i], reply.calls[i])
            \/ /\ i = Len(Cards)
               /\ Cards[i] = Card(IF i \in DOMAIN reply.calls
                                  THEN reply.calls[i].sql ELSE asked, <<>>, TRUE)
    BY CardsAsStored, Zenon
  <2>5. heard # <<>> /\ socket = "ended" =>
            /\ Last(heard).event = "done" =>
                  /\ ~reply.error
                  /\ view.text = reply.text
                  /\ Len(view.calls) = Len(reply.calls) /\ view.pending = <<>>
            /\ Last(heard).event = "error" =>
                  /\ reply.error
                  /\ view.text = reply.text \o roundContent
                  /\ Len(view.calls) = Len(reply.calls) /\ view.pending = asked
    BY LastShown, Zenon
  <2>6. QED
    BY <2>1, <2>2, <2>3, <2>4, <2>5, Zenon DEF ReplyAsStored
<1>4. QED
  BY <1>1, <1>2, <1>3, ReplyStreamAssumption, PTL DEF StreamSpec

-----------------------------------------------------------------------------
(* The page *)

Lists == Seq(Message)

ServerTurn == [conv : Ids, text : Texts \cup {None}, left : BOOLEAN,
               phase : {"none", "sent", "refused", "stored", "replied"}]

Query == [phase : {"none", "asked", "answered", "failed"}, data : Lists,
          clears : SUBSET Turns]

ClientTypeOK ==
    /\ log \in [Conversations -> Lists \cup {None}]
    /\ server \in [Turns -> ServerTurn]
    /\ selected \in Ids
    /\ isStreaming \in BOOLEAN
    /\ stream \in Stream
    /\ streamingConversationIdRef \in Ids
    /\ streamingText \in BOOLEAN
    /\ bubble \in Texts \cup {None}
    /\ cache \in [Conversations -> Lists \cup {None}]
    /\ fetch \in [Conversations -> Query]
    /\ stops \in SUBSET (Turns \X Conversations)
    /\ deleting \in [id : Ids, from : Ids]
    /\ turns \in 0 .. MaxTurns
    /\ events \in 0 .. MaxEvents
    /\ excused \in SUBSET Conversations
    /\ disturbed \in BOOLEAN

-----------------------------------------------------------------------------
(* The turns *)

Stored(n) == server[n].phase \in {"stored", "replied"}

(* The turn that the page is streaming, and the conversation it is in. *)
Current(n) == isStreaming /\ stream.turn = n
Live(c)    == isStreaming /\ server[stream.turn].conv = c

TurnsInOrder ==
    /\ isStreaming => stream.turn = turns /\ turns \in Turns
    /\ \A n \in Turns : n > turns => server[n].phase = "none" /\ server[n].conv = None
    /\ \A n \in Turns : server[n].phase # "none" => server[n].text \in Texts
    /\ \A n \in Turns : Stored(n) => server[n].conv \in Conversations

(* What sendMessage knows of its turn, before and after it has heard of the
   conversation.                                                            *)
StreamKnows ==
    isStreaming =>
        LET s == server[stream.turn] IN
        /\ ~s.left
        /\ stream.from # None => s.conv = stream.from
        /\ ~stream.heard =>
             /\ stream.active = stream.from
             /\ streamingConversationIdRef = stream.from
             /\ ~streamingText
        /\ stream.heard =>
             /\ Stored(stream.turn)
             /\ stream.active = s.conv
             /\ streamingConversationIdRef = s.conv

(* A turn that goes on without the page has been left. *)
LeftBehind ==
    \A n \in Turns : server[n].phase \in {"sent", "stored"} /\ ~Current(n) => server[n].left

-----------------------------------------------------------------------------
(* The lists *)

HasQuestion(l, n) ==
    l # None /\ \E i \in DOMAIN l : l[i].role = "user" /\ l[i].turn = n

(* The messages of l belong to turns of conversation c that are stored. *)
From(l, c) ==
    l # None => \A i \in DOMAIN l : Stored(l[i].turn) /\ server[l[i].turn].conv = c

FromTurns ==
    \A c \in Conversations :
        From(log[c], c) /\ From(cache[c], c) /\ From(fetch[c].data, c)

QuestionsLogged ==
    \A n \in Turns, c \in Conversations :
        Stored(n) /\ server[n].conv = c /\ Exists(c) => HasQuestion(log[c], n)

(* The answer on its way is a list, and one that knows what the cache knows. *)
AnswersAreNewer ==
    \A c \in Conversations :
        fetch[c].phase = "answered" =>
            /\ fetch[c].data # None
            /\ \A n \in Turns : HasQuestion(cache[c], n) => HasQuestion(fetch[c].data, n)

ClearsOwn ==
    \A c \in Conversations : \A n \in fetch[c].clears :
        server[n].conv = c /\ ~Current(n)

(* What is fetched, and what is on the screen, is what is stored. *)
ViewOf(c) ==
    Exists(c) /\ ~Live(c) /\ c \notin excused =>
        /\ fetch[c].phase = "answered" => fetch[c].data = log[c]
        /\ fetch[c].phase # "failed"
        /\ selected = c /\ fetch[c].phase = "none" => cache[c] = log[c]

Views == \A c \in Conversations : ViewOf(c)

-----------------------------------------------------------------------------
(* The bubble *)

InSight(n) ==
    \/ bubble = server[n].text
    \/ server[n].conv # None /\ HasQuestion(cache[server[n].conv], n)

WhileStreaming == isStreaming /\ ~disturbed => InSight(stream.turn)

(* A list that failed to load is all that hides a question afterwards, and
   no request is under way that could excuse it no longer.                  *)
Afterwards ==
    LET c == server[turns].conv IN
    /\ ~isStreaming /\ ~disturbed
    /\ turns \in Turns /\ Stored(turns) /\ ~server[turns].left
    /\ selected = c /\ Exists(c)
    => InSight(turns) \/ (c \in excused /\ fetch[c].phase = "none")

IInv ==
    /\ ClientTypeOK /\ TurnsInOrder /\ StreamKnows /\ LeftBehind /\ StopHitsItsTurn
    /\ FromTurns /\ QuestionsLogged /\ AnswersAreNewer /\ ClearsOwn /\ Views
    /\ WhileStreaming /\ Afterwards

-----------------------------------------------------------------------------
(* Types *)

LEMMA EmptyIsAList == <<>> \in Lists
  BY DEF Lists

LEMMA InitIsOK ==
  ASSUME ChatClientAssumption, Init
  PROVE  IInv
<1>1. NoFetch \in Query /\ NoFetch.phase = "none" /\ NoFetch.clears = {} /\ NoFetch.data = <<>>
  BY EmptyIsAList DEF NoFetch, Query
<1>2. ClientTypeOK
  <2>1. log \in [Conversations -> Lists \cup {None}]
    BY EmptyIsAList DEF Init
  <2>2. server \in [Turns -> ServerTurn]
    BY DEF Init, ServerTurn, Ids
  <2>3. stream \in Stream /\ deleting \in [id : Ids, from : Ids]
    BY DEF Init, Stream, Ids, ChatClientAssumption
  <2>4. cache \in [Conversations -> Lists \cup {None}] /\ fetch \in [Conversations -> Query]
    BY <1>1 DEF Init
  <2>5. /\ stops \in SUBSET (Turns \X Conversations) /\ excused \in SUBSET Conversations
        /\ turns \in 0 .. MaxTurns /\ events \in 0 .. MaxEvents
    BY DEF Init, ChatClientAssumption
  <2>6. QED
    BY <2>1, <2>2, <2>3, <2>4, <2>5 DEF Init, ClientTypeOK, Ids
<1>3. TurnsInOrder /\ StreamKnows /\ LeftBehind /\ StopHitsItsTurn
  BY DEF Init, TurnsInOrder, StreamKnows, LeftBehind, StopHitsItsTurn, Stored
<1>4. FromTurns
  BY <1>1 DEF Init, FromTurns, From
<1>5. QuestionsLogged /\ AnswersAreNewer /\ ClearsOwn
  BY <1>1 DEF Init, QuestionsLogged, AnswersAreNewer, ClearsOwn, Stored
<1>6. Views
  BY <1>1 DEF Init, Views, ViewOf, ChatClientAssumption
<1>7. ~isStreaming /\ turns \notin Turns
  BY DEF Init, Turns
<1>8. WhileStreaming /\ Afterwards
  BY <1>7 DEF WhileStreaming, Afterwards
<1>9. QED
  BY <1>2, <1>3, <1>4, <1>5, <1>6, <1>8 DEF IInv

LEMMA QueryTypes ==
  ASSUME ClientTypeOK, NEW c \in Conversations, NEW q \in Query,
         fetch' = [fetch EXCEPT ![c] = q]
  PROVE  /\ fetch' \in [Conversations -> Query]
         /\ fetch'[c] = q
         /\ \A d \in Conversations \ {c} : fetch'[d] = fetch[d]
  BY DEF ClientTypeOK

LEMMA ServerTypes ==
  ASSUME ClientTypeOK, NEW n \in Turns, NEW s \in ServerTurn,
         server' = [server EXCEPT ![n] = s]
  PROVE  /\ server' \in [Turns -> ServerTurn]
         /\ server'[n] = s
         /\ \A m \in Turns \ {n} : server'[m] = server[m]
  BY DEF ClientTypeOK

-----------------------------------------------------------------------------
(* The kinds of steps, as far as the turns see them *)

locals == <<isStreaming, stream, streamingConversationIdRef, streamingText,
            turns, stops>>

(* sendMessage begins. *)
Sends ==
    /\ ~isStreaming /\ isStreaming'
    /\ turns' = turns + 1 /\ turns' \in Turns
    /\ stream'.turn = turns' /\ ~stream'.heard
    /\ stream'.from = selected /\ stream'.active = selected
    /\ streamingConversationIdRef' = selected
    /\ ~streamingText'
    /\ server'[turns'].conv = selected /\ server'[turns'].phase = "sent"
    /\ ~server'[turns'].left /\ server'[turns'].text \in Texts
    /\ \A n \in Turns \ {turns'} : server'[n] = server[n]
    /\ stops' = stops

Hears ==
    /\ isStreaming /\ ~stream.heard /\ Stored(stream.turn)
    /\ isStreaming'
    /\ stream'.turn = stream.turn /\ stream'.from = stream.from
    /\ stream'.heard /\ stream'.active = server[stream.turn].conv
    /\ streamingConversationIdRef' = server[stream.turn].conv
    /\ UNCHANGED <<server, streamingText, turns, stops>>

Tokens ==
    /\ isStreaming /\ stream.heard
    /\ UNCHANGED <<server, isStreaming, stream, streamingConversationIdRef, turns, stops>>

(* The finally block: the reply is complete, or the page leaves its turn. *)
Finishes ==
    /\ isStreaming /\ ~isStreaming'
    /\ turns' = turns
    /\ \A n \in Turns :
         /\ server'[n].conv = server[n].conv
         /\ server'[n].phase = server[n].phase
         /\ server'[n].text = server[n].text
         /\ n # stream.turn \/ server[n].left => server'[n].left = server[n].left
    /\ \/ server'[stream.turn].left
       \/ server[stream.turn].phase \in {"replied", "refused"}
    /\ \A s \in stops' :
         \/ s \in stops
         \/ /\ s[1] = stream.turn /\ s[2] = streamingConversationIdRef
            /\ streamingConversationIdRef # None

(* The server goes on with turn n. *)
Advances(n) ==
    /\ UNCHANGED locals
    /\ \A m \in Turns \ {n} : server'[m] = server[m]
    /\ server'[n].left = server[n].left /\ server'[n].text = server[n].text
    /\ \/ /\ server[n].phase = "sent" /\ server'[n].phase = "stored"
          /\ server'[n].conv \in Conversations
          /\ server[n].conv # None => server'[n].conv = server[n].conv
       \/ /\ server[n].phase = "sent" /\ server'[n].phase = "refused"
          /\ server'[n].conv = server[n].conv
       \/ /\ server[n].phase = "stored" /\ server'[n].phase = "replied"
          /\ server'[n].conv = server[n].conv

Rests == UNCHANGED <<server, locals>>

TurnsMove ==
    \/ Sends \/ Hears \/ Tokens \/ Finishes \/ Rests
    \/ \E n \in Turns : Advances(n)

(* Whatever the kind, the turns that have begun only go on. *)
StoredAfter(n) == server'[n].phase \in {"stored", "replied"}

Begun == {n \in Turns : n <= turns}

TurnsGoOn ==
    \A n \in Begun :
        /\ server[n].conv # None => server'[n].conv = server[n].conv
        /\ Stored(n) => StoredAfter(n)
        /\ server[n].left => server'[n].left

TurnsOK == TurnsInOrder /\ StreamKnows /\ LeftBehind /\ StopHitsItsTurn

LEMMA TurnNumbers ==
  ASSUME ChatClientAssumption, ClientTypeOK
  PROVE  /\ turns \in Nat /\ MaxTurns \in Nat
         /\ \A n : n \in Turns <=> n \in Nat /\ 1 <= n /\ n <= MaxTurns
         /\ Begun \subseteq Turns
         /\ \A n \in Turns : n \in Begun <=> ~(n > turns)
         /\ turns \in Turns => turns \in Begun
  BY DEF ChatClientAssumption, ClientTypeOK, Turns, Begun

LEMMA MovesGoOn ==
  ASSUME ChatClientAssumption, ClientTypeOK, TurnsInOrder, TurnsMove
  PROVE  TurnsGoOn
<1>1. CASE Sends
  <2>1. turns' \notin Begun
    BY <1>1, TurnNumbers DEF Sends
  <2>2. QED
    BY <1>1, <2>1, TurnNumbers DEF Sends, TurnsGoOn, Stored, StoredAfter
<1>2. CASE Hears \/ Tokens \/ Rests
  BY <1>2, TurnNumbers DEF Hears, Tokens, Rests, TurnsGoOn, Stored, StoredAfter
<1>3. CASE Finishes
  BY <1>3, TurnNumbers DEF Finishes, TurnsGoOn, Stored, StoredAfter
<1>4. ASSUME NEW n \in Turns, Advances(n)
      PROVE  TurnsGoOn
  BY <1>4, TurnNumbers DEF Advances, TurnsGoOn, Stored, StoredAfter
<1>5. QED
  BY <1>1, <1>2, <1>3, <1>4 DEF TurnsMove

LEMMA InOrderKept ==
  ASSUME ChatClientAssumption, ClientTypeOK, TurnsInOrder, TurnsMove
  PROVE  TurnsInOrder'
<1> USE TurnNumbers
<1>1. CASE Sends
  BY <1>1 DEF Sends, TurnsInOrder, Stored
<1>2. CASE Hears \/ Tokens \/ Rests
  BY <1>2 DEF Hears, Tokens, Rests, locals, TurnsInOrder, Stored
<1>3. CASE Finishes
  BY <1>3 DEF Finishes, TurnsInOrder, Stored
<1>4. ASSUME NEW n \in Turns, Advances(n)
      PROVE  TurnsInOrder'
  BY <1>4 DEF Advances, locals, TurnsInOrder, Stored
<1>5. QED
  BY <1>1, <1>2, <1>3, <1>4 DEF TurnsMove

LEMMA KnowsKept ==
  ASSUME ChatClientAssumption, ClientTypeOK, TurnsInOrder, StreamKnows, TurnsMove
  PROVE  StreamKnows'
<1> USE TurnNumbers
<1>1. CASE Sends
  BY <1>1 DEF Sends, StreamKnows, Stored
<1>2. CASE Hears \/ Tokens \/ Rests
  BY <1>2 DEF Hears, Tokens, Rests, locals, StreamKnows, Stored
<1>3. CASE Finishes
  BY <1>3 DEF Finishes, StreamKnows
<1>4. ASSUME NEW n \in Turns, Advances(n)
      PROVE  StreamKnows'
  <2>1. CASE isStreaming /\ stream.turn = n
    BY <1>4, <2>1, MovesGoOn DEF Advances, locals, TurnsInOrder, StreamKnows, Stored,
       TurnsGoOn, StoredAfter, TurnsMove, ChatClientAssumption
  <2>2. CASE ~(isStreaming /\ stream.turn = n)
    BY <1>4, <2>2 DEF Advances, locals, TurnsInOrder, StreamKnows, Stored
  <2>3. QED
    BY <2>1, <2>2
<1>5. QED
  BY <1>1, <1>2, <1>3, <1>4 DEF TurnsMove

LEMMA LeftBehindKept ==
  ASSUME ChatClientAssumption, ClientTypeOK, TurnsInOrder, LeftBehind, TurnsMove
  PROVE  LeftBehind'
<1> USE TurnNumbers
<1>1. CASE Sends
  BY <1>1 DEF Sends, LeftBehind, Current
<1>2. CASE Hears \/ Tokens \/ Rests
  BY <1>2 DEF Hears, Tokens, Rests, locals, LeftBehind, Current
<1>3. CASE Finishes
  BY <1>3 DEF Finishes, LeftBehind, Current, TurnsInOrder
<1>4. ASSUME NEW n \in Turns, Advances(n)
      PROVE  LeftBehind'
  BY <1>4 DEF Advances, locals, LeftBehind, Current
<1>5. QED
  BY <1>1, <1>2, <1>3, <1>4 DEF TurnsMove

LEMMA StopsKept ==
  ASSUME ChatClientAssumption, ClientTypeOK, TurnsInOrder, StreamKnows,
         StopHitsItsTurn, TurnsMove
  PROVE  StopHitsItsTurn'
<1>1. \A s \in stops : s[1] \in Turns /\ s[2] \in Conversations
  BY DEF ClientTypeOK
<1>2. ASSUME NEW s \in stops
      PROVE  s[2] = server'[s[1]].conv
  <2>1. s[1] \in Turns /\ server[s[1]].conv = s[2] /\ s[2] # None
    BY <1>1 DEF StopHitsItsTurn, ChatClientAssumption
  <2>2. s[1] \in Begun
    BY <2>1, TurnNumbers DEF TurnsInOrder
  <2>3. QED
    BY <2>1, <2>2, MovesGoOn DEF TurnsGoOn
<1>3. CASE stops' = stops
  BY <1>2, <1>3 DEF StopHitsItsTurn
<1>4. CASE Finishes
  <2>1. stream.turn \in Turns
        /\ (streamingConversationIdRef # None =>
              server[stream.turn].conv = streamingConversationIdRef)
    BY <1>4 DEF Finishes, StreamKnows, TurnsInOrder
  <2>2. QED
    BY <1>2, <1>4, <2>1 DEF Finishes, StopHitsItsTurn
<1>5. QED
  BY <1>3, <1>4 DEF TurnsMove, Sends, Hears, Tokens, Rests, Advances, locals

LEMMA TurnsOKKept ==
  ASSUME ChatClientAssumption, IInv, TurnsMove
  PROVE  TurnsOK' /\ TurnsGoOn
  BY MovesGoOn, InOrderKept, KnowsKept, LeftBehindKept, StopsKept DEF IInv, TurnsOK

-----------------------------------------------------------------------------
(* The kinds of steps, as far as the lists of one conversation see them *)

(* The request for the messages of c. *)
Keeps(c) == fetch'[c] = fetch[c] /\ cache'[c] = cache[c]

Waits(c) ==
    /\ fetch'[c].clears \subseteq fetch[c].clears
                                    \cup (IF isStreaming' THEN {} ELSE {stream.turn})
    /\ ~(fetch'[c].clears \subseteq fetch[c].clears) =>
         isStreaming /\ server[stream.turn].conv = c

Asks(c) ==
    /\ isStreaming \/ disturbed'
    /\ fetch'[c].phase = "asked" /\ fetch'[c].data \in {fetch[c].data, <<>>}
    /\ cache'[c] = cache[c]
    /\ Waits(c)

Joins(c) ==
    /\ fetch'[c].phase = fetch[c].phase /\ fetch'[c].data = fetch[c].data
    /\ fetch[c].phase # "none"
    /\ Past(c) => c \in excused'
    /\ cache'[c] = cache[c]
    /\ Waits(c)

Serves(c) ==
    /\ fetch[c].phase = "asked"
    /\ fetch'[c].clears = fetch[c].clears
    /\ \/ Exists(c) /\ fetch'[c].phase = "answered" /\ fetch'[c].data = log[c]
       \/ ~Exists(c) /\ fetch'[c].phase = "failed" /\ fetch'[c].data = fetch[c].data
    /\ cache'[c] = cache[c] /\ log' = log

Loses(c) ==
    /\ fetch[c].phase \in {"asked", "answered"} /\ fetch'[c].phase = "failed"
    /\ fetch'[c].data = fetch[c].data /\ fetch'[c].clears = fetch[c].clears
    /\ c \in excused'
    /\ cache'[c] = cache[c]

Lands(c) ==
    /\ Past(c)
    /\ fetch'[c] = NoFetch
    /\ cache'[c] = IF fetch[c].phase = "answered" THEN fetch[c].data ELSE cache[c]

QueryMoves(c) ==
    /\ Keeps(c) \/ Asks(c) \/ Joins(c) \/ Serves(c) \/ Loses(c) \/ Lands(c)
    /\ c \in excused /\ ~Serves(c) => c \in excused'

(* What is stored of c. *)
LiveAfter(c) == isStreaming' /\ server'[stream'.turn].conv = c

Grows(c) ==
    /\ Exists(c) \/ \A n \in Turns : server[n].conv # c
    /\ LiveAfter(c) \/ c \in excused'
    /\ \E m \in Message :
         /\ log'[c] = Append(IF log[c] = None THEN <<>> ELSE log[c], m)
         /\ StoredAfter(m.turn) /\ server'[m.turn].conv = c

LogMoves(c) == log'[c] = log[c] \/ log'[c] = None \/ Grows(c)

(* Where the user is, and whether the page streams c. *)
ViewMoves(c) ==
    /\ selected' = c => selected = c \/ fetch'[c].phase # "none"
    /\ Live(c) => \/ LiveAfter(c)
                  \/ c \in excused'
                  \/ fetch'[c].phase = "asked"
                  \/ fetch'[c].phase = "none" /\ selected' # c

ListsMove ==
    /\ \A c \in Conversations : QueryMoves(c) /\ LogMoves(c) /\ ViewMoves(c)
    /\ \A n \in Turns, c \in Conversations :
         StoredAfter(n) /\ ~Stored(n) /\ server'[n].conv = c /\ log'[c] # None =>
             HasQuestion(log'[c], n)

-----------------------------------------------------------------------------
(* What the lists hold after any such step *)

ListsOK == FromTurns /\ QuestionsLogged /\ AnswersAreNewer /\ ClearsOwn /\ Views

LEMMA ListTypes ==
  ASSUME ClientTypeOK, NEW c \in Conversations
  PROVE  /\ log[c] \in Lists \cup {None} /\ cache[c] \in Lists \cup {None}
         /\ fetch[c] \in Query /\ fetch[c].data \in Lists
  BY DEF ClientTypeOK, Query

(* A list is a function on the numbers up to its length. *)
LEMMA Entries ==
  ASSUME NEW l \in Lists
  PROVE  \A i \in DOMAIN l : l[i] \in Message /\ l[i].turn \in Turns
<1>1. \A i \in DOMAIN l : l[i] \in Message
  BY DEF Lists
<1>2. \A m \in Message : m.turn \in Turns
  BY DEF Message
<1>3. QED
  BY <1>1, <1>2

LEMMA AppendEntries ==
  ASSUME NEW l \in Lists, NEW m \in Message
  PROVE  /\ Append(l, m) \in Lists
         /\ \A i \in DOMAIN l : i \in DOMAIN Append(l, m) /\ Append(l, m)[i] = l[i]
         /\ \A i \in DOMAIN Append(l, m) :
               i \in DOMAIN l \/ Append(l, m)[i] = m
         /\ \E i \in DOMAIN Append(l, m) : Append(l, m)[i] = m
<1>1. /\ Append(l, m) \in Lists /\ Len(l) \in Nat
      /\ DOMAIN l = 1 .. Len(l) /\ DOMAIN Append(l, m) = 1 .. Len(l) + 1
      /\ \A i \in 1 .. Len(l) + 1 :
            Append(l, m)[i] = IF i \in 1 .. Len(l) THEN l[i] ELSE m
  BY DEF Lists
<1>2. QED
  BY <1>1

(* A turn that has stored something is known, and stays where it is. *)
LEMMA StoredStays ==
  ASSUME ChatClientAssumption, IInv, TurnsMove, NEW n \in Turns, Stored(n)
  PROVE  /\ n \in Begun /\ StoredAfter(n)
         /\ server[n].conv \in Conversations /\ server'[n].conv = server[n].conv
<1>1. n \in Begun /\ server[n].conv \in Conversations
  BY TurnNumbers DEF IInv, TurnsInOrder, Stored
<1>2. QED
  BY <1>1, TurnsOKKept DEF TurnsGoOn, ChatClientAssumption

FromAfter(l, c) ==
    l # None => \A i \in DOMAIN l : StoredAfter(l[i].turn) /\ server'[l[i].turn].conv = c

LEMMA FromStays ==
  ASSUME ChatClientAssumption, IInv, TurnsMove,
         NEW c \in Conversations, NEW l \in Lists \cup {None}, From(l, c)
  PROVE  FromAfter(l, c)
<1> SUFFICES ASSUME l # None, NEW i \in DOMAIN l
             PROVE  StoredAfter(l[i].turn) /\ server'[l[i].turn].conv = c
  BY DEF FromAfter
<1>1. l[i].turn \in Turns
  BY Entries
<1>2. Stored(l[i].turn) /\ server[l[i].turn].conv = c
  BY DEF From
<1>3. QED
  BY <1>1, <1>2, StoredStays

LEMMA FromKept ==
  ASSUME ChatClientAssumption, IInv, TurnsMove, ListsMove
  PROVE  FromTurns'
<1>1. ASSUME NEW c \in Conversations
      PROVE  FromAfter(log'[c], c) /\ FromAfter(cache'[c], c) /\ FromAfter(fetch'[c].data, c)
  <2>1. /\ log[c] \in Lists \cup {None} /\ cache[c] \in Lists \cup {None}
        /\ fetch[c].data \in Lists
    BY ListTypes DEF IInv
  <2>2. FromAfter(log[c], c) /\ FromAfter(cache[c], c) /\ FromAfter(fetch[c].data, c)
    BY <2>1, FromStays DEF IInv, FromTurns
  <2>3. FromAfter(<<>>, c) /\ FromAfter(None, c)
    BY DEF FromAfter
  <2>4. FromAfter(log'[c], c)
    <3>1. ASSUME NEW m \in Message, StoredAfter(m.turn), server'[m.turn].conv = c,
                 log'[c] = Append(IF log[c] = None THEN <<>> ELSE log[c], m)
          PROVE  FromAfter(log'[c], c)
      <4> DEFINE l == IF log[c] = None THEN <<>> ELSE log[c]
      <4>1. l \in Lists /\ log'[c] = Append(l, m)
        BY <2>1, <3>1, EmptyIsAList
      <4>2. \A i \in DOMAIN l : StoredAfter(l[i].turn) /\ server'[l[i].turn].conv = c
        BY <2>2 DEF FromAfter
      <4> HIDE DEF l
      <4>3. \A i \in DOMAIN Append(l, m) :
              \/ i \in DOMAIN l /\ Append(l, m)[i] = l[i]
              \/ Append(l, m)[i] = m
        BY <4>1, AppendEntries
      <4>4. QED
        BY <3>1, <4>1, <4>2, <4>3 DEF FromAfter
    <3>2. QED
      BY <2>2, <2>3, <3>1 DEF ListsMove, LogMoves, Grows
  <2>5. cache'[c] \in {cache[c], fetch[c].data}
    BY DEF ListsMove, QueryMoves, Keeps, Asks, Joins, Serves, Loses, Lands
  <2>6. fetch'[c].data \in {fetch[c].data, log[c], <<>>}
    BY DEF ListsMove, QueryMoves, Keeps, Asks, Joins, Serves, Loses, Lands, NoFetch
  <2>7. QED
    BY <2>2, <2>3, <2>4, <2>5, <2>6
<1>2. QED
  BY <1>1 DEF FromTurns, From, FromAfter, Stored, StoredAfter

LEMMA ShowsStays ==
  ASSUME NEW l \in Lists, NEW m \in Message, NEW n \in Turns,
         HasQuestion(l, n), Append(l, m) # None
  PROVE  HasQuestion(Append(l, m), n)
  BY AppendEntries DEF HasQuestion

LEMMA LoggedKept ==
  ASSUME ChatClientAssumption, IInv, TurnsMove, ListsMove
  PROVE  QuestionsLogged'
<1>1. ASSUME NEW n \in Turns, NEW c \in Conversations,
             StoredAfter(n), server'[n].conv = c, log'[c] # None
      PROVE  HasQuestion(log'[c], n)
  <2>1. CASE ~Stored(n)
    BY <1>1, <2>1 DEF ListsMove
  <2>2. CASE Stored(n)
    <3>1. server[n].conv = c /\ log[c] \in Lists \cup {None}
      BY <1>1, <2>2, StoredStays, ListTypes DEF IInv
    <3>2. Exists(c) => HasQuestion(log[c], n)
      BY <2>2, <3>1 DEF IInv, QuestionsLogged
    <3>3. CASE log'[c] = log[c]
      BY <1>1, <3>2, <3>3 DEF Exists
    <3>4. CASE Grows(c)
      <4>1. Exists(c) /\ log[c] \in Lists
        BY <3>1, <3>4 DEF Grows, Exists
      <4>2. PICK m \in Message : log'[c] = Append(log[c], m)
        BY <3>4, <4>1 DEF Grows, Exists
      <4>3. QED
        BY <1>1, <3>2, <4>1, <4>2, ShowsStays
    <3>5. QED
      BY <1>1, <3>3, <3>4 DEF ListsMove, LogMoves
  <2>3. QED
    BY <2>1, <2>2
<1>2. QED
  BY <1>1 DEF QuestionsLogged, Exists, Stored, StoredAfter, HasQuestion

(* A question that is in a list of c is stored in c. *)
LEMMA ShownIsStored ==
  ASSUME IInv, NEW c \in Conversations, NEW n \in Turns,
         NEW l \in {log[c], cache[c], fetch[c].data}, HasQuestion(l, n)
  PROVE  Stored(n) /\ server[n].conv = c
  BY DEF IInv, FromTurns, From, HasQuestion

LEMMA NewerKept ==
  ASSUME ChatClientAssumption, IInv, ListsMove
  PROVE  AnswersAreNewer'
<1>1. ASSUME NEW c \in Conversations, fetch'[c].phase = "answered"
      PROVE  /\ fetch'[c].data # None
             /\ \A n \in Turns : HasQuestion(cache'[c], n) => HasQuestion(fetch'[c].data, n)
  <2>1. CASE \/ Keeps(c) \/ Joins(c)
    <3>1. /\ fetch[c].phase = "answered" /\ fetch'[c].data = fetch[c].data
          /\ cache'[c] = cache[c]
      BY <1>1, <2>1 DEF Keeps, Joins
    <3>2. QED
      BY <3>1 DEF IInv, AnswersAreNewer
  <2>2. CASE Serves(c)
    <3>1. Exists(c) /\ fetch'[c].data = log[c] /\ cache'[c] = cache[c]
      BY <1>1, <2>2 DEF Serves
    <3>2. \A n \in Turns : HasQuestion(cache[c], n) => HasQuestion(log[c], n)
      BY <3>1, ShownIsStored DEF IInv, QuestionsLogged
    <3>3. QED
      BY <3>1, <3>2 DEF Exists
  <2>3. CASE Asks(c) \/ Loses(c) \/ Lands(c)
    BY <1>1, <2>3 DEF Asks, Loses, Lands, NoFetch
  <2>4. QED
    BY <2>1, <2>2, <2>3 DEF ListsMove, QueryMoves
<1>2. QED
  BY <1>1 DEF AnswersAreNewer, HasQuestion

LEMMA ClearsKept ==
  ASSUME ChatClientAssumption, IInv, TurnsMove, ListsMove
  PROVE  ClearsOwn'
<1>1. ASSUME NEW c \in Conversations, NEW n \in fetch'[c].clears
      PROVE  server'[n].conv = c /\ ~(isStreaming' /\ stream'.turn = n)
  <2>1. CASE n \in fetch[c].clears
    <3>1. n \in Turns /\ server[n].conv = c /\ ~Current(n)
      BY <2>1, ListTypes DEF IInv, Query, ClearsOwn
    <3>2. n \in Begun /\ server'[n].conv = c
      BY <3>1, TurnNumbers, TurnsOKKept DEF IInv, TurnsInOrder, TurnsGoOn,
         ChatClientAssumption
    <3>3. CASE Sends
      <4>1. n # turns'
        BY <3>2, <3>3, TurnNumbers DEF Sends, Begun, IInv
      <4>2. QED
        BY <3>2, <3>3, <4>1 DEF Sends
    <3>4. CASE ~Sends
      BY <3>1, <3>2, <3>4 DEF TurnsMove, Hears, Tokens, Finishes, Rests, Advances, locals,
         Current
    <3>5. QED
      BY <3>3, <3>4
  <2>2. CASE n \notin fetch[c].clears
    <3>1. Waits(c)
      BY <2>2 DEF ListsMove, QueryMoves, Keeps, Asks, Joins, Serves, Loses, Lands, NoFetch
    <3>2. /\ ~isStreaming' /\ n = stream.turn
          /\ isStreaming /\ server[stream.turn].conv = c
      BY <1>1, <2>2, <3>1 DEF Waits
    <3>3. n \in Begun /\ server[n].conv # None
      BY <3>2, TurnNumbers DEF IInv, TurnsInOrder, ChatClientAssumption
    <3>4. QED
      BY <3>2, <3>3, TurnsOKKept DEF TurnsGoOn
  <2>3. QED
    BY <2>1, <2>2
<1>2. QED
  BY <1>1 DEF ClearsOwn, Current

LEMMA ViewKept ==
  ASSUME ChatClientAssumption, IInv, TurnsMove, ListsMove, NEW c \in Conversations,
         log'[c] # None, ~LiveAfter(c), c \notin excused'
  PROVE  /\ fetch'[c].phase = "answered" => fetch'[c].data = log'[c]
         /\ fetch'[c].phase # "failed"
         /\ selected' = c /\ fetch'[c].phase = "none" => cache'[c] = log'[c]
<1>1. log'[c] = log[c] /\ Exists(c)
  BY DEF ListsMove, LogMoves, Grows, Exists
<1>2. ViewMoves(c) /\ QueryMoves(c)
  BY DEF ListsMove
<1>3. CASE Live(c)
  BY <1>2, <1>3 DEF ViewMoves
<1>4. CASE Serves(c)
  BY <1>1, <1>4 DEF Serves
<1>5. CASE ~Live(c) /\ ~Serves(c)
  <2>1. c \notin excused
    BY <1>2, <1>5 DEF QueryMoves
  <2>2. /\ fetch[c].phase = "answered" => fetch[c].data = log[c]
        /\ fetch[c].phase # "failed"
        /\ selected = c /\ fetch[c].phase = "none" => cache[c] = log[c]
    BY <1>1, <1>5, <2>1 DEF IInv, Views, ViewOf
  <2>3. CASE Lands(c)
    BY <1>1, <2>2, <2>3 DEF Lands, Past, NoFetch
  <2>4. CASE Keeps(c)
    BY <1>1, <1>2, <2>2, <2>4 DEF Keeps, ViewMoves
  <2>5. CASE Asks(c) \/ Joins(c) \/ Loses(c)
    BY <1>1, <2>2, <2>5 DEF Asks, Joins, Loses, Past
  <2>6. QED
    BY <1>2, <1>5, <2>3, <2>4, <2>5 DEF QueryMoves
<1>6. QED
  BY <1>3, <1>4, <1>5

LEMMA ListsOKKept ==
  ASSUME ChatClientAssumption, IInv, TurnsMove, ListsMove
  PROVE  ListsOK'
<1>1. Views'
  BY ViewKept DEF Views, ViewOf, Exists, Live, LiveAfter
<1>2. QED
  BY <1>1, FromKept, LoggedKept, NewerKept, ClearsKept DEF ListsOK

-----------------------------------------------------------------------------
(* The kinds of steps, as far as the bubble sees them *)

(* It stays, or the list that the user sees now ends with its question, or a
   request takes it that its own turn has waited for, or its turn ends and the
   user is elsewhere or no question was stored.                             *)
BubbleKept == bubble' = bubble

BubbleSettled ==
    \E c \in Conversations : selected' = c /\ HasQuestion(cache'[c], turns)

BubbleCleared ==
    \E c \in Conversations :
        /\ Lands(c) /\ turns \in fetch[c].clears
        /\ UNCHANGED <<server, log, isStreaming, stream, excused>>

BubbleGivenUp ==
    /\ Finishes
    /\ \/ server'[turns].left
       \/ server[turns].phase = "refused"
       \/ selected' # server[turns].conv

BubbleMoves ==
    \/ disturbed'
    \/ Sends /\ bubble' = server'[turns'].text
    \/ /\ ~Sends /\ ~disturbed
       /\ turns \in Turns => server'[turns].text = server[turns].text
       /\ isStreaming \/ selected' \in {selected, None}
       /\ BubbleKept \/ BubbleSettled \/ BubbleCleared \/ BubbleGivenUp

InSightAfter(n) ==
    \/ bubble' = server'[n].text
    \/ server'[n].conv # None /\ HasQuestion(cache'[server'[n].conv], n)

(* No list forgets a question. *)
LEMMA ShownStays ==
  ASSUME ChatClientAssumption, IInv, TurnsMove, ListsMove,
         NEW n \in Turns, server[n].conv # None, HasQuestion(cache[server[n].conv], n)
  PROVE  /\ server'[n].conv = server[n].conv
         /\ HasQuestion(cache'[server[n].conv], n)
<1> DEFINE c == server[n].conv
<1>1. c \in Conversations /\ n \in Begun
  <2>1. c \in Conversations
    BY DEF IInv, ClientTypeOK, ServerTurn, Ids
  <2>2. QED
    BY <2>1, TurnNumbers DEF IInv, TurnsInOrder
<1>2. server'[n].conv = c
  BY <1>1, TurnsOKKept DEF TurnsGoOn
<1> HIDE DEF c
<1>3. HasQuestion(cache[c], n)
  BY DEF c
<1>4. HasQuestion(cache'[c], n)
  <2>1. CASE Lands(c) /\ fetch[c].phase = "answered"
    <3>1. cache'[c] = fetch[c].data /\ HasQuestion(fetch[c].data, n)
      BY <1>1, <1>3, <2>1 DEF Lands, IInv, AnswersAreNewer
    <3>2. QED
      BY <3>1
  <2>2. CASE cache'[c] = cache[c]
    BY <1>3, <2>2
  <2>3. QED
    BY <1>1, <2>1, <2>2 DEF ListsMove, QueryMoves, Keeps, Asks, Joins, Serves, Loses, Lands
<1>5. QED
  BY <1>2, <1>4 DEF c

LEMMA SettledIsInSight ==
  ASSUME ChatClientAssumption, IInv, TurnsMove, ListsMove, BubbleSettled, turns \in Turns
  PROVE  InSightAfter(turns)
<1>1. PICK c \in Conversations : HasQuestion(cache'[c], turns)
  BY DEF BubbleSettled
<1>2. server'[turns].conv = c
  BY <1>1, FromKept DEF FromTurns, From, HasQuestion
<1>3. QED
  BY <1>1, <1>2 DEF InSightAfter, ChatClientAssumption

LEMMA SightStays ==
  ASSUME ChatClientAssumption, IInv, TurnsMove, ListsMove, turns \in Turns, InSight(turns),
         server'[turns].text = server[turns].text, BubbleKept \/ BubbleSettled
  PROVE  InSightAfter(turns)
<1>1. CASE BubbleSettled
  BY <1>1, SettledIsInSight
<1>2. CASE BubbleKept /\ bubble = server[turns].text
  BY <1>2 DEF BubbleKept, InSightAfter
<1>3. CASE server[turns].conv # None /\ HasQuestion(cache[server[turns].conv], turns)
  BY <1>3, ShownStays DEF InSightAfter
<1>4. QED
  BY <1>1, <1>2, <1>3 DEF InSight

LEMMA WhileStreamingKept ==
  ASSUME ChatClientAssumption, IInv, TurnsMove, ListsMove, BubbleMoves,
         isStreaming', ~disturbed'
  PROVE  InSightAfter(stream'.turn)
<1>1. CASE Sends
  BY <1>1 DEF BubbleMoves, Sends, InSightAfter
<1>2. CASE ~Sends
  <2>1. /\ isStreaming /\ ~Finishes /\ stream'.turn = stream.turn
    BY <1>2 DEF TurnsMove, Hears, Tokens, Finishes, Rests, Advances, locals
  <2>2. stream.turn = turns /\ turns \in Turns
    BY <2>1 DEF IInv, TurnsInOrder
  <2>3. InSight(turns)
    BY <1>2, <2>1, <2>2 DEF BubbleMoves, IInv, WhileStreaming
  <2>4. ~BubbleCleared
    BY <2>1, <2>2 DEF BubbleCleared, IInv, ClearsOwn, Current
  <2>5. QED
    BY <1>2, <2>1, <2>2, <2>3, <2>4, SightStays DEF BubbleMoves, BubbleGivenUp
<1>3. QED
  BY <1>1, <1>2

SightAfter(c) ==
    InSightAfter(turns) \/ (c \in excused' /\ fetch'[c].phase = "none")

LEMMA ClearedIsSeen ==
  ASSUME ChatClientAssumption, IInv, TurnsMove, ListsMove, BubbleCleared,
         NEW c \in Conversations, turns \in Turns, Stored(turns),
         server[turns].conv = c, Exists(c), ~isStreaming
  PROVE  SightAfter(c)
<1>1. /\ Lands(c) /\ turns \in fetch[c].clears
      /\ UNCHANGED <<server, log, isStreaming, stream, excused>>
  BY DEF BubbleCleared, IInv, ClearsOwn
<1>2. CASE c \in excused
  BY <1>1, <1>2 DEF SightAfter, Lands, NoFetch
<1>3. CASE c \notin excused
  <2>1. fetch[c].phase = "answered" /\ fetch[c].data = log[c]
    BY <1>1, <1>3 DEF Lands, Past, IInv, Views, ViewOf, Live
  <2>2. cache'[c] = log[c] /\ HasQuestion(log[c], turns) /\ server'[turns].conv = c
    BY <1>1, <2>1 DEF Lands, IInv, QuestionsLogged
  <2>3. QED
    BY <2>2 DEF SightAfter, InSightAfter, ChatClientAssumption
<1>4. QED
  BY <1>2, <1>3

LEMMA AfterwardsKept ==
  ASSUME ChatClientAssumption, IInv, TurnsMove, ListsMove, BubbleMoves,
         ~isStreaming', ~disturbed', turns' \in Turns, StoredAfter(turns'),
         ~server'[turns'].left, NEW c \in Conversations,
         c = server'[turns'].conv, selected' = c, log'[c] # None
  PROVE  turns' = turns /\ SightAfter(c)
<1>1. ~Sends /\ turns' = turns /\ turns \in Begun /\ turns \in Turns
  BY TurnNumbers DEF TurnsMove, Sends, Hears, Tokens, Finishes, Rests, Advances, locals, IInv
<1>2. ~server[turns].left /\ server'[turns].text = server[turns].text /\ ~disturbed
  BY <1>1, TurnsOKKept DEF TurnsGoOn, BubbleMoves
<1>3. Stored(turns)
  <2>1. ASSUME ~Stored(turns)
        PROVE  FALSE
    <3>1. Advances(turns) /\ server[turns].phase = "sent"
      BY <1>1, <2>1 DEF TurnsMove, Hears, Tokens, Finishes, Rests, Advances, locals,
         Stored, StoredAfter
    <3>2. ~Current(turns)
      BY <3>1 DEF Advances, locals, Current
    <3>3. QED
      BY <1>1, <1>2, <3>1, <3>2 DEF IInv, LeftBehind
  <2>2. QED
    BY <2>1
<1>4. server[turns].conv = c
  BY <1>1, <1>3, StoredStays
<1>5. CASE isStreaming
  <2>1. stream.turn = turns /\ InSight(turns)
    BY <1>2, <1>5 DEF IInv, TurnsInOrder, WhileStreaming
  <2>2. ~BubbleCleared /\ ~BubbleGivenUp
    BY <1>1, <1>2, <1>3, <1>4, <1>5 DEF BubbleCleared, BubbleGivenUp, Stored
  <2>3. QED
    BY <1>1, <1>2, <2>1, <2>2, SightStays DEF BubbleMoves, SightAfter
<1>6. CASE ~isStreaming
  <2>1. ~Finishes /\ selected = c
    BY <1>1, <1>2, <1>6 DEF Finishes, BubbleMoves, ChatClientAssumption
  <2>2. Exists(c)
    BY <1>1, <1>4 DEF ListsMove, LogMoves, Grows, Exists
  <2>3. CASE BubbleCleared
    BY <1>1, <1>3, <1>4, <1>6, <2>2, <2>3, ClearedIsSeen
  <2>4. CASE BubbleKept \/ BubbleSettled
    <3>1. CASE InSight(turns)
      BY <1>1, <1>2, <2>4, <3>1, SightStays DEF SightAfter
    <3>2. CASE c \in excused /\ fetch[c].phase = "none"
      <4>1. Keeps(c) /\ c \in excused'
        BY <1>6, <3>2 DEF ListsMove, QueryMoves, Asks, Joins, Serves, Loses, Lands, Past
      <4>2. QED
        BY <1>1, <3>2, <4>1 DEF Keeps, SightAfter
    <3>3. QED
      BY <1>1, <1>2, <1>3, <1>4, <1>6, <2>1, <2>2, <3>1, <3>2 DEF IInv, Afterwards
  <2>5. QED
    BY <1>1, <1>2, <2>1, <2>3, <2>4 DEF BubbleMoves, BubbleGivenUp
<1>7. QED
  BY <1>1, <1>5, <1>6

BubbleOK == WhileStreaming /\ Afterwards

LEMMA BubbleOKKept ==
  ASSUME ChatClientAssumption, IInv, TurnsMove, ListsMove, BubbleMoves
  PROVE  BubbleOK'
<1>1. WhileStreaming'
  BY WhileStreamingKept DEF WhileStreaming, InSight, InSightAfter
<1>2. Afterwards'
  <2>1. ASSUME ~isStreaming', ~disturbed', turns' \in Turns, StoredAfter(turns'),
               ~server'[turns'].left, selected' = server'[turns'].conv,
               log'[selected'] # None
        PROVE  /\ turns' = turns
               /\ SightAfter(server'[turns'].conv)
    <3>1. server'[turns'].conv \in Conversations
      BY <2>1, TurnsOKKept DEF TurnsOK, TurnsInOrder, Stored, StoredAfter
    <3>2. QED
      BY <2>1, <3>1, AfterwardsKept
  <2>2. QED
    BY <2>1 DEF Afterwards, Stored, StoredAfter, Exists, SightAfter, InSight, InSightAfter
<1>3. QED
  BY <1>1, <1>2 DEF BubbleOK

-----------------------------------------------------------------------------
(* Every step is of these kinds. *)

StepOK == ClientTypeOK' /\ TurnsMove /\ ListsMove /\ BubbleMoves

(* A turn that is streamed before and after the step stays in its conversation. *)
LEMMA LiveStays ==
  ASSUME ChatClientAssumption, IInv, TurnsMove, isStreaming', ~Sends,
         NEW c \in Conversations, Live(c)
  PROVE  LiveAfter(c)
<1>1. stream'.turn = stream.turn /\ isStreaming
  BY DEF TurnsMove, Hears, Tokens, Finishes, Rests, Advances, locals, Live
<1>2. stream.turn \in Begun /\ server[stream.turn].conv = c
  BY <1>1, TurnNumbers DEF IInv, TurnsInOrder, Live
<1>3. QED
  BY <1>1, <1>2, TurnsOKKept DEF TurnsGoOn, LiveAfter, ChatClientAssumption

(* Nothing is stored or deleted. *)
LEMMA LogsRest ==
  ASSUME UNCHANGED <<log, server>>
  PROVE  /\ \A c \in Conversations : LogMoves(c)
         /\ \A n \in Turns : StoredAfter(n) => Stored(n)
  BY DEF LogMoves, StoredAfter, Stored

(* Nothing is asked for or answered. *)
LEMMA QueriesRest ==
  ASSUME UNCHANGED <<fetch, cache>>, excused \subseteq excused'
  PROVE  \A c \in Conversations : QueryMoves(c)
  BY DEF QueryMoves, Keeps

LEMMA LastShows ==
  ASSUME NEW l \in Lists, l # None, l # <<>>, Last(l).role = "user"
  PROVE  HasQuestion(l, Last(l).turn)
<1>1. Len(l) \in DOMAIN l /\ Last(l) = l[Len(l)]
  BY DEF Lists, Last
<1>2. QED
  BY <1>1 DEF HasQuestion

(* The list that takes the bubble away, unless mistaken, shows its question. *)
LEMMA SettleShows ==
  ASSUME NEW c, NEW data \in Lists \cup {None}, NEW b,
         Matches(b, Listed(c, data)), ~Mistaken(b, Listed(c, data))
  PROVE  HasQuestion(data, turns)
<1>1. c # None /\ data # None /\ Listed(c, data) = data
  BY DEF Matches, Listed
<1>2. data \in Lists /\ data # <<>> /\ Last(data).role = "user" /\ Last(data).turn = turns
  BY <1>1 DEF Matches, Mistaken
<1>3. QED
  BY <1>1, <1>2, LastShows

LEMMA NothingMatches ==
  ASSUME NEW b
  PROVE  Settle(b, <<>>) = b /\ ~Mistaken(b, <<>>)
  BY DEF Settle, Mistaken, Matches

(* Requests *)

LEMMA ServeOK ==
  ASSUME ChatClientAssumption, IInv, NEW c \in Conversations, Serve(c)
  PROVE  StepOK
<1>1. UNCHANGED <<log, server, page, cache, stops, deleting, counters, disturbed>>
  BY DEF Serve
<1>2. fetch[c] \in Query /\ log[c] \in Lists \cup {None}
  BY ListTypes DEF IInv
<1>3. /\ fetch' \in [Conversations -> Query]
      /\ \A d \in Conversations \ {c} : fetch'[d] = fetch[d]
      /\ fetch'[c].clears = fetch[c].clears
      /\ \/ /\ Exists(c) /\ fetch'[c].phase = "answered" /\ fetch'[c].data = log[c]
            /\ excused' = excused \ {c}
         \/ /\ ~Exists(c) /\ fetch'[c].phase = "failed" /\ fetch'[c].data = fetch[c].data
            /\ excused' = excused
  <2>1. CASE Exists(c)
    <3> DEFINE q == [fetch[c] EXCEPT !.phase = "answered", !.data = log[c]]
    <3>1. /\ q \in Query /\ q.phase = "answered" /\ q.data = log[c]
          /\ q.clears = fetch[c].clears
      BY <1>2, <2>1 DEF Query, Exists
    <3>2. fetch' = [fetch EXCEPT ![c] = q] /\ excused' = excused \ {c}
      BY <2>1 DEF Serve, IInv, ClientTypeOK
    <3> HIDE DEF q
    <3>3. QED
      BY <2>1, <3>1, <3>2, QueryTypes DEF IInv
  <2>2. CASE ~Exists(c)
    <3> DEFINE q == [fetch[c] EXCEPT !.phase = "failed"]
    <3>1. /\ q \in Query /\ q.phase = "failed" /\ q.data = fetch[c].data
          /\ q.clears = fetch[c].clears
      BY <1>2 DEF Query
    <3>2. fetch' = [fetch EXCEPT ![c] = q] /\ excused' = excused
      BY <2>2 DEF Serve, IInv, ClientTypeOK
    <3> HIDE DEF q
    <3>3. QED
      BY <2>2, <3>1, <3>2, QueryTypes DEF IInv
  <2>3. QED
    BY <2>1, <2>2
<1>4. Rests /\ TurnsMove /\ ~Sends
  BY <1>1 DEF Rests, TurnsMove, locals, page, counters, Sends
<1>5. ClientTypeOK'
  BY <1>1, <1>3 DEF IInv, ClientTypeOK, page, counters
<1>6. ListsMove
  <2>1. Serves(c)
    BY <1>1, <1>3 DEF Serve, Serves
  <2>2. \A d \in Conversations : QueryMoves(d)
    BY <1>1, <1>3, <2>1 DEF QueryMoves, Keeps
  <2>3. \A d \in Conversations : ViewMoves(d)
    BY <1>1 DEF ViewMoves, Live, LiveAfter, page
  <2>4. QED
    BY <1>1, <2>2, <2>3, LogsRest DEF ListsMove
<1>7. BubbleMoves
  BY <1>1, <1>4 DEF BubbleMoves, BubbleKept, page
<1>8. QED
  BY <1>4, <1>5, <1>6, <1>7 DEF StepOK

LEMMA LoseOK ==
  ASSUME ChatClientAssumption, IInv, NEW c \in Conversations, Lose(c)
  PROVE  StepOK
<1> DEFINE q == [fetch[c] EXCEPT !.phase = "failed"]
<1>1. /\ UNCHANGED <<log, server, page, cache, stops, deleting, turns, disturbed>>
      /\ fetch[c].phase \in {"asked", "answered"}
      /\ excused' = excused \cup {c}
      /\ events' \in 0 .. MaxEvents
  BY DEF Lose, Event, IInv, ClientTypeOK, ChatClientAssumption
<1>2. fetch[c] \in Query
  BY ListTypes DEF IInv
<1>3. /\ q \in Query /\ q.phase = "failed" /\ q.data = fetch[c].data
      /\ q.clears = fetch[c].clears
  BY <1>2 DEF Query
<1>4. fetch' = [fetch EXCEPT ![c] = q]
  BY DEF Lose, IInv, ClientTypeOK
<1> HIDE DEF q
<1>5. /\ fetch' \in [Conversations -> Query] /\ fetch'[c] = q
      /\ \A d \in Conversations \ {c} : fetch'[d] = fetch[d]
  BY <1>3, <1>4, QueryTypes DEF IInv
<1>6. Rests /\ TurnsMove /\ ~Sends
  BY <1>1 DEF Rests, TurnsMove, locals, page, Sends
<1>7. ClientTypeOK'
  BY <1>1, <1>5 DEF IInv, ClientTypeOK, page
<1>8. ListsMove
  <2>1. Loses(c)
    BY <1>1, <1>3, <1>5 DEF Loses
  <2>2. \A d \in Conversations : QueryMoves(d)
    BY <1>1, <1>5, <2>1 DEF QueryMoves, Keeps
  <2>3. \A d \in Conversations : ViewMoves(d)
    BY <1>1 DEF ViewMoves, Live, LiveAfter, page
  <2>4. QED
    BY <1>1, <2>2, <2>3, LogsRest DEF ListsMove
<1>9. BubbleMoves
  BY <1>1, <1>6 DEF BubbleMoves, BubbleKept, page
<1>10. QED
  BY <1>6, <1>7, <1>8, <1>9 DEF StepOK

LEMMA LandOK ==
  ASSUME ChatClientAssumption, IInv, NEW c \in Conversations, Land(c)
  PROVE  StepOK
<1> DEFINE data  == IF fetch[c].phase = "answered" THEN fetch[c].data ELSE cache[c]
           shown == IF c = selected THEN Listed(c, data) ELSE <<>>
<1>1. /\ UNCHANGED <<log, server, selected, isStreaming, stream, stops, deleting,
                     streamingConversationIdRef, streamingText, counters, excused>>
      /\ Past(c)
      /\ cache' = [cache EXCEPT ![c] = data]
      /\ fetch' = [fetch EXCEPT ![c] = NoFetch]
      /\ bubble' = IF fetch[c].clears # {} THEN None ELSE Settle(bubble, shown)
      /\ disturbed' = (\/ disturbed
                       \/ fetch[c].clears \ {turns} # {}
                       \/ Mistaken(bubble, shown))
  BY DEF Land, Past
<1>2. data \in Lists \cup {None} /\ NoFetch \in Query
  BY ListTypes, EmptyIsAList DEF IInv, NoFetch, Query
<1>3. /\ fetch' \in [Conversations -> Query] /\ fetch'[c] = NoFetch
      /\ \A d \in Conversations \ {c} : fetch'[d] = fetch[d]
  BY <1>1, <1>2, QueryTypes DEF IInv
<1>4. Lands(c)
  BY <1>1, <1>3 DEF Lands, IInv, ClientTypeOK
<1> HIDE DEF data
<1>5. /\ cache' \in [Conversations -> Lists \cup {None}] /\ cache'[c] = data
      /\ \A d \in Conversations \ {c} : cache'[d] = cache[d]
  BY <1>1, <1>2 DEF IInv, ClientTypeOK
<1> HIDE DEF shown
<1>6. Rests /\ TurnsMove /\ ~Sends
  BY <1>1 DEF Rests, TurnsMove, locals, counters, Sends
<1>7. ClientTypeOK'
  <2>1. bubble' \in Texts \cup {None} /\ disturbed' \in BOOLEAN
    BY <1>1 DEF Settle, IInv, ClientTypeOK
  <2>2. QED
    BY <1>1, <1>3, <1>5, <2>1 DEF IInv, ClientTypeOK, counters
<1>8. ListsMove
  <2>1. \A d \in Conversations : QueryMoves(d)
    BY <1>1, <1>3, <1>4, <1>5 DEF QueryMoves, Keeps
  <2>2. \A d \in Conversations : ViewMoves(d)
    BY <1>1 DEF ViewMoves, Live, LiveAfter
  <2>3. QED
    BY <1>1, <2>1, <2>2, LogsRest DEF ListsMove
<1>9. BubbleMoves
  <2>1. SUFFICES ASSUME ~disturbed'
                 PROVE  BubbleKept \/ BubbleSettled \/ BubbleCleared
    BY <1>1, <1>6 DEF BubbleMoves
  <2>2. CASE fetch[c].clears # {}
    <3>1. turns \in fetch[c].clears
      BY <1>1, <2>1, <2>2
    <3>2. QED
      BY <1>1, <1>4, <3>1 DEF BubbleCleared
  <2>3. CASE fetch[c].clears = {} /\ ~Matches(bubble, shown)
    BY <1>1, <2>3 DEF BubbleKept, Settle
  <2>4. CASE Matches(bubble, shown)
    <3>1. shown # <<>> /\ ~Mistaken(bubble, shown)
      BY <1>1, <2>1, <2>4 DEF Matches
    <3>2. c = selected /\ shown = Listed(c, data)
      BY <3>1 DEF shown
    <3>3. HasQuestion(cache'[c], turns)
      BY <1>2, <1>5, <2>4, <3>1, <3>2, SettleShows
    <3>4. QED
      BY <1>1, <3>2, <3>3 DEF BubbleSettled
  <2>5. QED
    BY <2>2, <2>3, <2>4
<1>10. QED
  BY <1>6, <1>7, <1>8, <1>9 DEF StepOK

(* sendMessage *)

LEMMA SendOK ==
  ASSUME ChatClientAssumption, IInv, NEW x \in Texts, Send(x)
  PROVE  StepOK
<1> DEFINE n == turns + 1
           s == [conv |-> selected, text |-> x, left |-> FALSE, phase |-> "sent"]
           shown == Listed(selected, IF selected = None THEN None ELSE cache[selected])
<1>1. /\ ~isStreaming /\ isStreaming' = TRUE
      /\ turns' = n /\ n \in Turns
      /\ streamingText' = FALSE /\ streamingConversationIdRef' = selected
      /\ stream' = [turn |-> n, from |-> selected, active |-> selected, heard |-> FALSE]
      /\ bubble' = Settle(x, shown) /\ disturbed' = Matches(x, shown)
      /\ server' = [server EXCEPT ![n] = s]
      /\ UNCHANGED <<log, selected, queries, stops, deleting, events, excused>>
  BY TurnNumbers DEF Send, IInv, Turns
<1>2. s \in ServerTurn /\ selected \in Ids
  BY DEF IInv, ClientTypeOK, ServerTurn
<1>3. s.conv = selected /\ s.phase = "sent" /\ ~s.left /\ s.text = x
  OBVIOUS
<1> HIDE DEF s, shown
<1>4. /\ server' \in [Turns -> ServerTurn] /\ server'[n] = s
      /\ \A m \in Turns \ {n} : server'[m] = server[m]
  BY <1>1, <1>2, ServerTypes DEF IInv
<1>5. /\ stream' \in Stream /\ stream'.turn = n /\ ~stream'.heard
      /\ stream'.from = selected /\ stream'.active = selected
  <2>1. n \in 0 .. MaxTurns
    BY <1>1, TurnNumbers DEF IInv
  <2> HIDE DEF n
  <2>2. QED
    BY <1>1, <1>2, <2>1 DEF Stream
<1>6. Sends
  BY <1>1, <1>3, <1>4, <1>5 DEF Sends
<1>7. ClientTypeOK'
  <2>1. turns' \in 0 .. MaxTurns /\ bubble' \in Texts \cup {None}
    BY <1>1, TurnNumbers DEF IInv, Settle
  <2>2. QED
    BY <1>1, <1>2, <1>4, <1>5, <2>1 DEF IInv, ClientTypeOK, queries, Matches
<1>8. ListsMove
  <2>1. \A m \in Turns : StoredAfter(m) => Stored(m)
    BY <1>3, <1>4 DEF StoredAfter, Stored
  <2>2. \A c \in Conversations : LogMoves(c) /\ QueryMoves(c) /\ ViewMoves(c)
    BY <1>1, QueriesRest DEF LogMoves, ViewMoves, Live, queries
  <2>3. QED
    BY <2>1, <2>2 DEF ListsMove
<1>9. BubbleMoves
  BY <1>1, <1>3, <1>4, <1>6 DEF BubbleMoves, Settle
<1>10. QED
  BY <1>6, <1>7, <1>8, <1>9 DEF StepOK, TurnsMove

(* A query that mounts has a request under way. *)
LEMMA MountMoves ==
  ASSUME IInv, NEW c \in Conversations, Mount(c), cache' = cache,
         isStreaming \/ disturbed'
  PROVE  /\ fetch' \in [Conversations -> Query] /\ excused' \in SUBSET Conversations
         /\ fetch'[c].phase # "none"
         /\ \A d \in Conversations : QueryMoves(d)
<1> DEFINE q == [fetch[c] EXCEPT !.phase = "asked"]
<1>1. excused' \in SUBSET Conversations /\ excused \subseteq excused'
  BY DEF Mount, IInv, ClientTypeOK
<1>2. CASE fetch[c].phase = "none"
  <2>1. fetch[c] \in Query
    BY ListTypes DEF IInv
  <2>2. q \in Query /\ q.phase = "asked" /\ q.data = fetch[c].data /\ q.clears = fetch[c].clears
    BY <2>1 DEF Query
  <2>3. fetch' = [fetch EXCEPT ![c] = q]
    BY <1>2 DEF Mount, IInv, ClientTypeOK
  <2> HIDE DEF q
  <2>4. /\ fetch' \in [Conversations -> Query] /\ fetch'[c] = q
        /\ \A d \in Conversations \ {c} : fetch'[d] = fetch[d]
    BY <2>2, <2>3, QueryTypes DEF IInv
  <2>5. Asks(c)
    BY <2>2, <2>4 DEF Asks, Waits
  <2>6. QED
    BY <1>1, <2>2, <2>4, <2>5 DEF QueryMoves, Keeps
<1>3. CASE fetch[c].phase # "none"
  BY <1>1, <1>3 DEF Mount, QueryMoves, Keeps, IInv, ClientTypeOK
<1>4. QED
  BY <1>2, <1>3

LEMMA HearConversationOK ==
  ASSUME ChatClientAssumption, IInv, HearConversation
  PROVE  StepOK
<1> DEFINE c == server[stream.turn].conv
           shown == IF stream.from = None THEN Listed(c, cache[c]) ELSE <<>>
<1>1. /\ isStreaming /\ ~stream.heard /\ Stored(stream.turn)
      /\ stream' = [stream EXCEPT !.heard = TRUE, !.active = c]
      /\ streamingConversationIdRef' = c
      /\ \/ stream.from = None /\ selected' = c /\ (Mount(c) \/ UNCHANGED <<fetch, excused>>)
            /\ (selected = c \/ Mount(c))
         \/ stream.from # None /\ UNCHANGED <<selected, fetch, excused>>
      /\ bubble' = Settle(bubble, shown)
      /\ disturbed' = (disturbed \/ Mistaken(bubble, shown))
      /\ UNCHANGED <<log, server, isStreaming, streamingText, cache, stops, deleting,
                     counters>>
  BY DEF HearConversation, Stored
<1>2. c \in Conversations /\ stream \in Stream
  BY <1>1 DEF IInv, TurnsInOrder, ClientTypeOK
<1> HIDE DEF c
<1>3. cache[c] \in Lists \cup {None}
  BY <1>2, ListTypes DEF IInv
<1> HIDE DEF shown
<1>4. /\ stream' \in Stream /\ stream'.heard /\ stream'.active = c
      /\ stream'.turn = stream.turn /\ stream'.from = stream.from
  BY <1>1, <1>2 DEF Stream, Ids
<1>5. Hears /\ TurnsMove /\ ~Sends
  BY <1>1, <1>4 DEF Hears, TurnsMove, Sends, counters, c
<1>6. /\ fetch' \in [Conversations -> Query] /\ excused' \in SUBSET Conversations
      /\ \A d \in Conversations : QueryMoves(d)
      /\ \A d \in Conversations : selected' = d => selected = d \/ fetch'[d].phase # "none"
  <2>1. CASE Mount(c) /\ selected' = c
    BY <1>1, <1>2, <2>1, MountMoves
  <2>2. CASE UNCHANGED <<selected, fetch, excused>> \/ (selected = c /\ selected' = c /\ UNCHANGED <<fetch, excused>>)
    BY <1>1, <2>2, QueriesRest DEF IInv, ClientTypeOK
  <2>3. QED
    BY <1>1, <2>1, <2>2
<1>7. ClientTypeOK'
  <2>1. bubble' \in Texts \cup {None} /\ disturbed' \in BOOLEAN /\ selected' \in Ids /\ c \in Ids
    BY <1>1, <1>2 DEF Settle, IInv, ClientTypeOK, Ids
  <2>2. QED
    BY <1>1, <1>4, <1>6, <2>1 DEF IInv, ClientTypeOK, counters
<1>8. ListsMove
  BY <1>1, <1>5, <1>6, LogsRest, LiveStays DEF ListsMove, ViewMoves
<1>9. BubbleMoves
  <2>1. SUFFICES ASSUME ~disturbed'
                 PROVE  BubbleKept \/ BubbleSettled
    BY <1>1, <1>5 DEF BubbleMoves
  <2>2. CASE ~Matches(bubble, shown)
    BY <1>1, <2>2 DEF BubbleKept, Settle
  <2>3. CASE Matches(bubble, shown)
    <3>1. shown # <<>> /\ ~Mistaken(bubble, shown)
      BY <1>1, <2>1, <2>3 DEF Matches
    <3>2. stream.from = None /\ shown = Listed(c, cache[c])
      BY <3>1 DEF shown
    <3>3. HasQuestion(cache'[c], turns) /\ selected' = c
      BY <1>1, <1>3, <2>3, <3>1, <3>2, SettleShows
    <3>4. QED
      BY <1>2, <3>3 DEF BubbleSettled
  <2>4. QED
    BY <2>2, <2>3
<1>10. QED
  BY <1>5, <1>7, <1>8, <1>9 DEF StepOK

LEMMA HearTokenOK ==
  ASSUME ChatClientAssumption, IInv, HearToken
  PROVE  StepOK
<1>1. /\ isStreaming /\ stream.heard /\ streamingText' = TRUE
      /\ UNCHANGED <<log, server, selected, isStreaming, stream, bubble, queries, stops,
                     streamingConversationIdRef, deleting, counters, history>>
  BY DEF HearToken
<1>2. Tokens /\ TurnsMove /\ ~Sends
  BY <1>1 DEF Tokens, TurnsMove, Sends, counters
<1>3. ClientTypeOK'
  BY <1>1 DEF IInv, ClientTypeOK, queries, counters, history
<1>4. ListsMove
  BY <1>1, <1>2, LogsRest, QueriesRest, LiveStays DEF ListsMove, ViewMoves, queries, history
<1>5. BubbleMoves
  BY <1>1, <1>2 DEF BubbleMoves, BubbleKept, history
<1>6. QED
  BY <1>2, <1>3, <1>4, <1>5 DEF StepOK

(* The finally block *)

LEMMA InvalidateMoves ==
  ASSUME ChatClientAssumption, IInv, NEW c \in Conversations, isStreaming, ~isStreaming',
         server[stream.turn].conv = c, Invalidate(c, stream.turn),
         UNCHANGED <<selected, cache>>
  PROVE  /\ fetch' \in [Conversations -> Query] /\ excused' \in SUBSET Conversations
         /\ disturbed' \in BOOLEAN /\ bubble' \in Texts \cup {None}
         /\ \A d \in Conversations : QueryMoves(d)
         /\ \/ c \in excused'
            \/ fetch'[c].phase = "asked"
            \/ fetch'[c].phase = "none" /\ selected' # c
         /\ disturbed' \/ (~disturbed /\ (BubbleKept \/ selected' # c))
<1> DEFINE n == stream.turn
<1>1. fetch[c] \in Query /\ n \in Turns /\ fetch \in [Conversations -> Query]
      /\ excused \in SUBSET Conversations /\ disturbed \in BOOLEAN
      /\ bubble \in Texts \cup {None}
  BY ListTypes DEF IInv, TurnsInOrder, ClientTypeOK
<1> HIDE DEF n
<1>2. CASE c # selected
  <2>1. /\ bubble' = None /\ UNCHANGED <<fetch, disturbed>>
        /\ excused' = IF Past(c) THEN excused \cup {c} ELSE excused
    BY <1>2 DEF Invalidate
  <2>2. \A d \in Conversations : QueryMoves(d)
    BY <2>1, QueriesRest
  <2>3. c \in excused' \/ fetch'[c].phase \in {"asked", "none"}
    BY <1>1, <2>1 DEF Past, Query
  <2>4. QED
    BY <1>1, <1>2, <2>1, <2>2, <2>3
<1>3. CASE c = selected /\ fetch[c].phase # "none" /\ cache[c] = None
  <2> DEFINE q == [fetch[c] EXCEPT !.clears = @ \cup {n}]
  <2>1. /\ fetch' = [fetch EXCEPT ![c].clears = @ \cup {n}]
        /\ UNCHANGED <<bubble, disturbed>>
        /\ excused' = IF Past(c) THEN excused \cup {c} ELSE excused
    BY <1>3 DEF Invalidate, n
  <2>2. fetch' = [fetch EXCEPT ![c] = q]
    BY <1>1, <2>1
  <2>3. /\ q \in Query /\ q.phase = fetch[c].phase /\ q.data = fetch[c].data
        /\ q.clears = fetch[c].clears \cup {n}
    BY <1>1 DEF Query
  <2> HIDE DEF q
  <2>4. /\ fetch' \in [Conversations -> Query] /\ fetch'[c] = q
        /\ \A d \in Conversations \ {c} : fetch'[d] = fetch[d]
    BY <2>2, <2>3, QueryTypes DEF IInv
  <2>5. Joins(c)
    BY <1>3, <2>1, <2>3, <2>4 DEF Joins, Waits, n
  <2>6. \A d \in Conversations : QueryMoves(d)
    BY <2>1, <2>4, <2>5 DEF QueryMoves, Keeps
  <2>7. c \in excused' \/ fetch'[c].phase = "asked"
    BY <1>1, <1>3, <2>1, <2>3, <2>4 DEF Past, Query
  <2>8. QED
    BY <1>1, <2>1, <2>4, <2>6, <2>7 DEF BubbleKept
<1>4. CASE c = selected /\ ~(fetch[c].phase # "none" /\ cache[c] = None)
  <2> DEFINE q == [phase |-> "asked", data |-> <<>>, clears |-> {n}]
  <2>1. /\ fetch' = [fetch EXCEPT ![c] = q]
        /\ bubble' = IF fetch[c].clears # {} THEN None ELSE bubble
        /\ disturbed' = (disturbed \/ fetch[c].clears # {})
        /\ excused' = excused
    BY <1>4 DEF Invalidate, n
  <2>2. /\ q \in Query /\ q.phase = "asked" /\ q.data = <<>> /\ q.clears = {n}
    BY <1>1, EmptyIsAList DEF Query
  <2> HIDE DEF q
  <2>3. /\ fetch' \in [Conversations -> Query] /\ fetch'[c] = q
        /\ \A d \in Conversations \ {c} : fetch'[d] = fetch[d]
    BY <2>1, <2>2, QueryTypes DEF IInv
  <2>4. Asks(c)
    BY <2>2, <2>3 DEF Asks, Waits, n
  <2>5. \A d \in Conversations : QueryMoves(d)
    BY <2>1, <2>3, <2>4 DEF QueryMoves, Keeps
  <2>6. disturbed' \/ (~disturbed /\ BubbleKept)
    BY <2>1 DEF BubbleKept
  <2>7. disturbed' \in BOOLEAN /\ bubble' \in Texts \cup {None}
    BY <1>1, <2>1
  <2>8. QED
    BY <1>1, <2>1, <2>2, <2>3, <2>5, <2>6, <2>7
<1>5. QED
  BY <1>2, <1>3, <1>4

LEMMA FinishOK ==
  ASSUME ChatClientAssumption, IInv, Finish, Finishes,
         UNCHANGED <<log, deleting>>, events' \in 0 .. MaxEvents,
         server' \in [Turns -> ServerTurn],
         stops' \in SUBSET (Turns \X Conversations),
         \/ server'[stream.turn].left
         \/ server[stream.turn].phase = "refused"
         \/ stream.heard
  PROVE  StepOK
<1> DEFINE c == server[stream.turn].conv
<1>1. /\ isStreaming /\ isStreaming' = FALSE /\ streamingText' = FALSE
      /\ streamingConversationIdRef' = None
      /\ stream' = [stream EXCEPT !.heard = FALSE]
      /\ UNCHANGED <<selected, cache, turns>>
  BY DEF Finish, Finishes
<1>2. stream.turn = turns /\ turns \in Turns
  BY <1>1 DEF IInv, TurnsInOrder
<1>3. c \in Ids /\ stream \in Stream
  BY <1>2 DEF IInv, ClientTypeOK, ServerTurn
<1>4. stream' \in Stream
  BY <1>1, <1>3 DEF Stream
<1>5. /\ stream.active # None => stream.active = c
      /\ stream.heard => stream.active = c /\ c \in Conversations
  BY <1>1, <1>2 DEF IInv, StreamKnows, TurnsInOrder
<1> HIDE DEF c
<1>6. /\ fetch' \in [Conversations -> Query] /\ excused' \in SUBSET Conversations
      /\ disturbed' \in BOOLEAN /\ bubble' \in Texts \cup {None}
      /\ \A d \in Conversations : QueryMoves(d)
      /\ c \in Conversations => \/ c \in excused'
                                \/ fetch'[c].phase = "asked"
                                \/ fetch'[c].phase = "none" /\ selected' # c
      /\ disturbed' \/ (~disturbed /\ (BubbleKept \/ BubbleGivenUp))
  <2>1. CASE stream.active # None
    <3>1. c \in Conversations /\ Invalidate(c, stream.turn)
      BY <1>3, <1>5, <2>1 DEF Finish, Ids
    <3>2. selected' # c => BubbleGivenUp
      BY <1>1, <1>2 DEF BubbleGivenUp, c
    <3>3. c = server[stream.turn].conv
      BY DEF c
    <3>4. QED
      BY <1>1, <3>1, <3>2, <3>3, InvalidateMoves
  <2>2. CASE stream.active = None
    <3>1. /\ bubble' = None /\ UNCHANGED <<fetch, disturbed>>
          /\ excused' = excused \cup ({c} \ {None})
      BY <2>2 DEF Finish, c
    <3>2. /\ \A d \in Conversations : QueryMoves(d)
          /\ c \in Conversations => c \in excused'
      BY <1>1, <3>1, QueriesRest DEF ChatClientAssumption
    <3>3. BubbleGivenUp
      BY <1>2, <1>5, <2>2 DEF BubbleGivenUp, ChatClientAssumption
    <3>4. excused' \in SUBSET Conversations /\ fetch \in [Conversations -> Query]
          /\ disturbed \in BOOLEAN
      BY <1>3, <3>1 DEF IInv, ClientTypeOK, Ids
    <3>5. QED
      BY <3>1, <3>2, <3>3, <3>4
  <2>3. QED
    BY <2>1, <2>2
<1>7. TurnsMove /\ ~Sends
  BY <1>1 DEF TurnsMove, Sends
<1>8. ClientTypeOK'
  BY <1>1, <1>4, <1>6 DEF IInv, ClientTypeOK, Ids
<1>9. ListsMove
  <2>1. \A d \in Conversations : LogMoves(d)
    BY DEF LogMoves
  <2>2. \A n \in Turns : StoredAfter(n) => Stored(n)
    BY DEF Finishes, StoredAfter, Stored
  <2>3. \A d \in Conversations : ViewMoves(d)
    BY <1>1, <1>6 DEF ViewMoves, Live, c
  <2>4. QED
    BY <1>6, <2>1, <2>2, <2>3 DEF ListsMove
<1>10. BubbleMoves
  BY <1>1, <1>2, <1>6, <1>7 DEF BubbleMoves, Finishes
<1>11. QED
  BY <1>7, <1>8, <1>9, <1>10 DEF StepOK

LEMMA EndOK ==
  ASSUME ChatClientAssumption, IInv, End
  PROVE  StepOK
<1>1. /\ isStreaming /\ Finish
      /\ UNCHANGED <<log, server, stops, deleting, counters>>
      /\ \/ server[stream.turn].phase = "replied" /\ stream.heard
         \/ server[stream.turn].phase = "refused"
  BY DEF End
<1>2. Finishes
  BY <1>1 DEF Finish, Finishes, counters
<1>3. QED
  BY <1>1, <1>2, FinishOK DEF IInv, ClientTypeOK, counters

(* The page hangs up on its turn. *)
LEMMA LeaveServer ==
  ASSUME IInv, isStreaming, server' = [server EXCEPT ![stream.turn].left = TRUE]
  PROVE  /\ server' \in [Turns -> ServerTurn] /\ server'[stream.turn].left
         /\ \A n \in Turns : /\ server'[n].conv = server[n].conv
                             /\ server'[n].phase = server[n].phase
                             /\ server'[n].text = server[n].text
                             /\ n # stream.turn \/ server[n].left =>
                                  server'[n].left = server[n].left
<1> DEFINE n == stream.turn
           s == [server[n] EXCEPT !.left = TRUE]
<1>1. n \in Turns /\ server[n] \in ServerTurn /\ server \in [Turns -> ServerTurn]
  BY DEF IInv, TurnsInOrder, ClientTypeOK
<1>2. /\ s \in ServerTurn /\ s.left = TRUE /\ s.conv = server[n].conv
      /\ s.phase = server[n].phase /\ s.text = server[n].text
  BY <1>1 DEF ServerTurn
<1>3. server' = [server EXCEPT ![n] = s]
  BY <1>1
<1> HIDE DEF s
<1>4. /\ server' \in [Turns -> ServerTurn] /\ server'[n] = s
      /\ \A m \in Turns \ {n} : server'[m] = server[m]
  BY <1>1, <1>2, <1>3, ServerTypes DEF IInv
<1>5. QED
  BY <1>1, <1>2, <1>4

LEMMA BreakOK ==
  ASSUME ChatClientAssumption, IInv, Break
  PROVE  StepOK
<1>1. /\ isStreaming /\ Finish /\ events' \in 0 .. MaxEvents
      /\ server' = [server EXCEPT ![stream.turn].left = TRUE]
      /\ UNCHANGED <<log, stops, deleting, turns>>
  BY DEF Break, Event, IInv, ClientTypeOK, ChatClientAssumption
<1>2. Finishes
  BY <1>1, LeaveServer DEF Finish, Finishes
<1>3. QED
  BY <1>1, <1>2, LeaveServer, FinishOK DEF IInv, ClientTypeOK

LEMMA StopOK ==
  ASSUME ChatClientAssumption, IInv, Stop
  PROVE  StepOK
<1>1. /\ isStreaming /\ Finish
      /\ stops' = stops \cup ({<<stream.turn, streamingConversationIdRef>>}
                                 \ (Turns \X {None}))
      /\ server' = [server EXCEPT ![stream.turn].left = TRUE]
      /\ UNCHANGED <<log, deleting, counters>>
  BY DEF Stop
<1>2. stream.turn \in Turns /\ streamingConversationIdRef \in Ids
  BY <1>1 DEF IInv, TurnsInOrder, ClientTypeOK
<1>3. \A s \in stops' :
         \/ s \in stops
         \/ /\ s = <<stream.turn, streamingConversationIdRef>>
            /\ streamingConversationIdRef # None
  BY <1>1, <1>2
<1>4. stops' \in SUBSET (Turns \X Conversations)
  BY <1>2, <1>3 DEF IInv, ClientTypeOK, Ids
<1>5. Finishes
  <2>1. \A s \in stops' :
           \/ s \in stops
           \/ /\ s[1] = stream.turn /\ s[2] = streamingConversationIdRef
              /\ streamingConversationIdRef # None
    BY <1>3
  <2>2. isStreaming /\ ~isStreaming' /\ turns' = turns
    BY <1>1 DEF Finish, counters
  <2>3. QED
    BY <1>1, <2>1, <2>2, LeaveServer DEF Finishes
<1>6. QED
  BY <1>1, <1>4, <1>5, LeaveServer, FinishOK DEF IInv, ClientTypeOK, counters

(* The sidebar *)

(* The turns and the lists are as they were. *)
LEMMA ClicksRest ==
  ASSUME UNCHANGED <<server, isStreaming, stream, streamingConversationIdRef,
                     streamingText, stops, turns>>
  PROVE  TurnsMove /\ ~Sends
  BY DEF TurnsMove, Rests, Sends, locals

LEMMA SelectOK ==
  ASSUME ChatClientAssumption, IInv, NEW c \in Conversations, Select(c)
  PROVE  StepOK
<1>1. /\ selected' = c /\ bubble' = None /\ disturbed' = TRUE
      /\ IF c # selected THEN Mount(c) ELSE UNCHANGED <<fetch, excused>>
      /\ events' \in 0 .. MaxEvents
      /\ UNCHANGED <<log, server, isStreaming, stream, streamingConversationIdRef,
                     streamingText, cache, stops, deleting, turns>>
  BY DEF Select, Event, IInv, ClientTypeOK, ChatClientAssumption
<1>2. TurnsMove
  BY <1>1, ClicksRest
<1>3. /\ fetch' \in [Conversations -> Query] /\ excused' \in SUBSET Conversations
      /\ c = selected \/ fetch'[c].phase # "none"
      /\ \A d \in Conversations : QueryMoves(d)
  <2>1. CASE c # selected
    BY <1>1, <2>1, MountMoves
  <2>2. CASE c = selected
    BY <1>1, <2>2, QueriesRest DEF IInv, ClientTypeOK
  <2>3. QED
    BY <2>1, <2>2
<1>4. ClientTypeOK'
  BY <1>1, <1>3 DEF IInv, ClientTypeOK, Ids
<1>5. ListsMove
  BY <1>1, <1>3, LogsRest DEF ListsMove, ViewMoves, Live, LiveAfter
<1>6. QED
  BY <1>1, <1>2, <1>4, <1>5 DEF StepOK, BubbleMoves

LEMMA NewChatOK ==
  ASSUME ChatClientAssumption, IInv, NewChat
  PROVE  StepOK
<1>1. /\ selected' = None /\ bubble' = None /\ disturbed' = TRUE
      /\ events' \in 0 .. MaxEvents
      /\ UNCHANGED <<log, server, isStreaming, stream, streamingConversationIdRef,
                     streamingText, queries, stops, deleting, turns, excused>>
  BY DEF NewChat, Event, IInv, ClientTypeOK, ChatClientAssumption
<1>2. TurnsMove
  BY <1>1, ClicksRest
<1>3. ClientTypeOK'
  BY <1>1 DEF IInv, ClientTypeOK, queries, Ids
<1>4. ListsMove
  BY <1>1, LogsRest, QueriesRest DEF ListsMove, ViewMoves, Live, LiveAfter, queries,
     ChatClientAssumption
<1>5. QED
  BY <1>1, <1>2, <1>3, <1>4 DEF StepOK, BubbleMoves

LEMMA ConfirmDeleteOK ==
  ASSUME ChatClientAssumption, IInv, NEW c \in Conversations, ConfirmDelete(c)
  PROVE  StepOK
<1>1. /\ deleting' = [id |-> c, from |-> selected] /\ events' \in 0 .. MaxEvents
      /\ UNCHANGED <<log, server, page, queries, stops, turns, history>>
  BY DEF ConfirmDelete, Event, IInv, ClientTypeOK, ChatClientAssumption
<1>2. TurnsMove /\ ~Sends
  BY <1>1, ClicksRest DEF page
<1>3. ClientTypeOK'
  BY <1>1 DEF IInv, ClientTypeOK, page, queries, history, Ids
<1>4. ListsMove
  BY <1>1, LogsRest, QueriesRest DEF ListsMove, ViewMoves, Live, LiveAfter, queries,
     page, history
<1>5. QED
  BY <1>1, <1>2, <1>3, <1>4 DEF StepOK, BubbleMoves, BubbleKept, page, history

LEMMA DeleteOK ==
  ASSUME ChatClientAssumption, IInv, Delete
  PROVE  StepOK
<1> DEFINE c == deleting.id
<1>1. /\ c \in Conversations
      /\ log' = [log EXCEPT ![c] = None]
      /\ UNCHANGED <<server, page, queries, stops, deleting, counters, history>>
  BY DEF Delete, IInv, ClientTypeOK, Ids
<1> HIDE DEF c
<1>2. log' \in [Conversations -> Lists \cup {None}] /\ log'[c] = None
      /\ \A d \in Conversations \ {c} : log'[d] = log[d]
  BY <1>1 DEF IInv, ClientTypeOK
<1>3. TurnsMove /\ ~Sends
  BY <1>1, ClicksRest DEF page, counters
<1>4. ClientTypeOK'
  BY <1>1, <1>2 DEF IInv, ClientTypeOK, page, queries, history, counters
<1>5. ListsMove
  <2>1. \A d \in Conversations : LogMoves(d)
    BY <1>2 DEF LogMoves
  <2>2. \A d \in Conversations : QueryMoves(d) /\ ViewMoves(d)
    BY <1>1, QueriesRest DEF ViewMoves, Live, LiveAfter, queries, page, history
  <2>3. \A n \in Turns : StoredAfter(n) => Stored(n)
    BY <1>1 DEF StoredAfter, Stored
  <2>4. QED
    BY <2>1, <2>2, <2>3 DEF ListsMove
<1>6. QED
  BY <1>1, <1>3, <1>4, <1>5 DEF StepOK, BubbleMoves, BubbleKept, page, history

LEMMA DeleteAnsweredOK ==
  ASSUME ChatClientAssumption, IInv, DeleteAnswered
  PROVE  StepOK
<1>1. /\ selected' \in {selected, None} /\ events' \in 0 .. MaxEvents
      /\ deleting' = [id |-> None, from |-> None]
      /\ UNCHANGED <<log, server, isStreaming, stream, streamingConversationIdRef,
                     streamingText, bubble, queries, stops, turns, history>>
  BY DEF DeleteAnswered, Event, IInv, ClientTypeOK, ChatClientAssumption
<1>2. TurnsMove /\ ~Sends
  BY <1>1, ClicksRest
<1>3. ClientTypeOK'
  BY <1>1 DEF IInv, ClientTypeOK, queries, history, Ids
<1>4. ListsMove
  BY <1>1, LogsRest, QueriesRest DEF ListsMove, ViewMoves, Live, LiveAfter, queries,
     history, ChatClientAssumption
<1>5. QED
  BY <1>1, <1>2, <1>3, <1>4 DEF StepOK, BubbleMoves, BubbleKept, history

(* The server *)

LEMMA AcceptOK ==
  ASSUME ChatClientAssumption, IInv, NEW n \in Turns, NEW c \in Conversations, Accept(n, c)
  PROVE  StepOK
<1> DEFINE s == [server[n] EXCEPT !.conv = c, !.phase = "stored"]
           m == [role |-> "user", text |-> server[n].text, turn |-> n]
           l == IF log[c] = None THEN <<>> ELSE log[c]
<1>1. /\ server[n].phase = "sent"
      /\ IF server[n].conv = None THEN Fresh(c) ELSE c = server[n].conv /\ Exists(c)
      /\ excused' = IF server[n].left THEN excused \cup {c} ELSE excused
      /\ UNCHANGED <<page, queries, stops, deleting, counters, disturbed>>
  BY DEF Accept
<1>2. /\ server[n] \in ServerTurn /\ server \in [Turns -> ServerTurn]
      /\ log \in [Conversations -> Lists \cup {None}] /\ l \in Lists
  BY EmptyIsAList DEF IInv, ClientTypeOK
<1>3. /\ s \in ServerTurn /\ s.conv = c /\ s.phase = "stored" /\ s.left = server[n].left
      /\ s.text = server[n].text
  BY <1>2 DEF ServerTurn, Ids
<1>4. server' = [server EXCEPT ![n] = s] /\ log' = [log EXCEPT ![c] = Append(l, m)]
  BY <1>2 DEF Accept
<1>5. m \in Message /\ m.turn = n /\ m.role = "user"
  BY <1>1 DEF Message, IInv, TurnsInOrder
<1> HIDE DEF s, m, l
<1>6. /\ server' \in [Turns -> ServerTurn] /\ server'[n] = s
      /\ \A k \in Turns \ {n} : server'[k] = server[k]
  BY <1>3, <1>4, ServerTypes DEF IInv
<1>7. Append(l, m) \in Lists
  BY <1>2, <1>5, AppendEntries
<1>8. /\ log' \in [Conversations -> Lists \cup {None}] /\ log'[c] = Append(l, m)
      /\ \A d \in Conversations \ {c} : log'[d] = log[d]
  BY <1>2, <1>4, <1>7
<1>9. Advances(n) /\ TurnsMove /\ ~Sends
  BY <1>1, <1>3, <1>6 DEF Advances, TurnsMove, Sends, locals, page, counters
<1>10. ClientTypeOK'
  BY <1>1, <1>6, <1>8 DEF IInv, ClientTypeOK, page, queries, counters
<1>11. ListsMove
  <2>1. Grows(c)
    <3>1. Exists(c) \/ \A k \in Turns : server[k].conv # c
      BY <1>1 DEF Fresh
    <3>2. LiveAfter(c) \/ c \in excused'
      BY <1>1, <1>3, <1>6 DEF IInv, LeftBehind, Current, LiveAfter, page
    <3>3. StoredAfter(m.turn) /\ server'[m.turn].conv = c
      BY <1>3, <1>5, <1>6 DEF StoredAfter
    <3>4. log'[c] = Append(IF log[c] = None THEN <<>> ELSE log[c], m)
      BY <1>8 DEF l
    <3>5. QED
      BY <1>5, <3>1, <3>2, <3>3, <3>4 DEF Grows
  <2>2. \A d \in Conversations : LogMoves(d)
    BY <1>8, <2>1 DEF LogMoves
  <2>3. \A d \in Conversations : QueryMoves(d)
    BY <1>1, QueriesRest DEF queries
  <2>4. \A d \in Conversations : ViewMoves(d)
    BY <1>1, <1>9, LiveStays DEF ViewMoves, Live, page
  <2>5. ASSUME log'[c] # None
        PROVE  HasQuestion(log'[c], n)
    BY <1>2, <1>5, <1>8, <2>5, AppendEntries DEF HasQuestion
  <2>6. \A k \in Turns \ {n} : StoredAfter(k) => Stored(k)
    BY <1>6 DEF StoredAfter, Stored
  <2>7. QED
    BY <1>3, <1>6, <2>2, <2>3, <2>4, <2>5, <2>6 DEF ListsMove
<1>12. BubbleMoves
  BY <1>1, <1>3, <1>6, <1>9 DEF BubbleMoves, BubbleKept, page, counters
<1>13. QED
  BY <1>9, <1>10, <1>11, <1>12 DEF StepOK

LEMMA RefuseOK ==
  ASSUME ChatClientAssumption, IInv, NEW n \in Turns, Refuse(n)
  PROVE  StepOK
<1> DEFINE s == [server[n] EXCEPT !.phase = "refused"]
<1>1. /\ server[n].phase = "sent" /\ server' = [server EXCEPT ![n].phase = "refused"]
      /\ UNCHANGED <<log, page, queries, stops, deleting, counters, history>>
  BY DEF Refuse
<1>2. server[n] \in ServerTurn /\ server \in [Turns -> ServerTurn]
  BY DEF IInv, ClientTypeOK
<1>3. /\ s \in ServerTurn /\ s.conv = server[n].conv /\ s.phase = "refused"
      /\ s.left = server[n].left /\ s.text = server[n].text
  BY <1>2 DEF ServerTurn
<1>4. server' = [server EXCEPT ![n] = s]
  BY <1>1, <1>2
<1> HIDE DEF s
<1>5. /\ server' \in [Turns -> ServerTurn] /\ server'[n] = s
      /\ \A k \in Turns \ {n} : server'[k] = server[k]
  BY <1>3, <1>4, ServerTypes DEF IInv
<1>6. Advances(n) /\ TurnsMove /\ ~Sends
  BY <1>1, <1>3, <1>5 DEF Advances, TurnsMove, Sends, locals, page, counters
<1>7. ClientTypeOK'
  BY <1>1, <1>5 DEF IInv, ClientTypeOK, page, queries, counters, history
<1>8. ListsMove
  <2>1. \A k \in Turns : StoredAfter(k) => Stored(k)
    BY <1>3, <1>5 DEF StoredAfter, Stored
  <2>2. \A d \in Conversations : LogMoves(d) /\ QueryMoves(d)
    BY <1>1, QueriesRest DEF LogMoves, queries, history
  <2>3. \A d \in Conversations : ViewMoves(d)
    BY <1>1, <1>6, LiveStays DEF ViewMoves, Live, page
  <2>4. QED
    BY <2>1, <2>2, <2>3 DEF ListsMove
<1>9. BubbleMoves
  BY <1>1, <1>3, <1>5, <1>6 DEF BubbleMoves, BubbleKept, page, counters, history
<1>10. QED
  BY <1>6, <1>7, <1>8, <1>9 DEF StepOK

LEMMA ReplyOK ==
  ASSUME ChatClientAssumption, IInv, NEW n \in Turns, Reply(n)
  PROVE  StepOK
<1> DEFINE s == [server[n] EXCEPT !.phase = "replied"]
           c == server[n].conv
           m == [role |-> "assistant", text |-> server[n].text, turn |-> n]
<1>1. /\ server[n].phase = "stored" /\ server' = [server EXCEPT ![n].phase = "replied"]
      /\ UNCHANGED <<page, queries, stops, deleting, counters, disturbed>>
  BY DEF Reply
<1>2. /\ server[n] \in ServerTurn /\ server \in [Turns -> ServerTurn]
      /\ log \in [Conversations -> Lists \cup {None}] /\ c \in Conversations
  BY <1>1 DEF IInv, ClientTypeOK, TurnsInOrder, Stored
<1>3. /\ s \in ServerTurn /\ s.conv = c /\ s.phase = "replied"
      /\ s.left = server[n].left /\ s.text = server[n].text
  BY <1>2 DEF ServerTurn
<1>4. server' = [server EXCEPT ![n] = s]
  BY <1>1, <1>2
<1>5. /\ \/ UNCHANGED <<log, excused>>
         \/ /\ Exists(c) /\ log' = [log EXCEPT ![c] = Append(log[c], m)]
            /\ excused' = IF server[n].left THEN excused \cup {c} ELSE excused
  BY <1>2 DEF Reply
<1>6. m \in Message /\ m.turn = n
  BY <1>1, <1>2 DEF Message, IInv, TurnsInOrder
<1> HIDE DEF s, m
<1>7. /\ server' \in [Turns -> ServerTurn] /\ server'[n] = s
      /\ \A k \in Turns \ {n} : server'[k] = server[k]
  BY <1>3, <1>4, ServerTypes DEF IInv
<1>8. Advances(n) /\ TurnsMove /\ ~Sends
  BY <1>1, <1>3, <1>7 DEF Advances, TurnsMove, Sends, locals, page, counters
<1>9. /\ excused' \in SUBSET Conversations /\ excused \subseteq excused'
      /\ log' \in [Conversations -> Lists \cup {None}]
      /\ \A d \in Conversations : LogMoves(d)
  <2>1. CASE UNCHANGED <<log, excused>>
    BY <2>1 DEF LogMoves, IInv, ClientTypeOK
  <2>2. CASE ~UNCHANGED <<log, excused>>
    <3>1. /\ Exists(c) /\ log' = [log EXCEPT ![c] = Append(log[c], m)]
          /\ excused' = IF server[n].left THEN excused \cup {c} ELSE excused
      BY <1>5, <2>2
    <3>2. log[c] \in Lists /\ log[c] # None
      BY <1>2, <3>1 DEF Exists
    <3>3. Append(log[c], m) \in Lists
      BY <1>6, <3>2, AppendEntries
    <3>4. /\ log' \in [Conversations -> Lists \cup {None}] /\ log'[c] = Append(log[c], m)
          /\ \A d \in Conversations \ {c} : log'[d] = log[d]
      BY <1>2, <3>1, <3>3
    <3>5. LiveAfter(c) \/ c \in excused'
      BY <1>1, <1>3, <1>7, <3>1 DEF IInv, LeftBehind, Current, LiveAfter, page
    <3>6. Grows(c)
      BY <1>3, <1>6, <1>7, <3>1, <3>2, <3>4, <3>5 DEF Grows, StoredAfter
    <3>7. QED
      BY <1>2, <3>1, <3>4, <3>6 DEF LogMoves, IInv, ClientTypeOK
  <2>3. QED
    BY <2>1, <2>2
<1>10. ClientTypeOK'
  BY <1>1, <1>7, <1>9 DEF IInv, ClientTypeOK, page, queries, counters
<1>11. ListsMove
  <2>1. \A k \in Turns : StoredAfter(k) => Stored(k)
    BY <1>1, <1>7 DEF StoredAfter, Stored
  <2>2. \A d \in Conversations : QueryMoves(d)
    BY <1>1, <1>9, QueriesRest DEF queries
  <2>3. \A d \in Conversations : ViewMoves(d)
    BY <1>1, <1>8, LiveStays DEF ViewMoves, Live, page
  <2>4. QED
    BY <1>9, <2>1, <2>2, <2>3 DEF ListsMove
<1>12. BubbleMoves
  BY <1>1, <1>3, <1>7, <1>8 DEF BubbleMoves, BubbleKept, page, counters
<1>13. QED
  BY <1>8, <1>10, <1>11, <1>12 DEF StepOK

-----------------------------------------------------------------------------
LEMMA StutterOK ==
  ASSUME ChatClientAssumption, IInv, UNCHANGED vars
  PROVE  StepOK
<1>1. UNCHANGED <<log, server, page, queries, stops, deleting, counters, history>>
  BY DEF vars
<1>2. TurnsMove /\ ~Sends
  BY <1>1, ClicksRest DEF page, counters
<1>3. ClientTypeOK'
  BY <1>1 DEF IInv, ClientTypeOK, page, queries, history, counters
<1>4. ListsMove
  BY <1>1, LogsRest, QueriesRest DEF ListsMove, ViewMoves, Live, LiveAfter, queries,
     page, history
<1>5. QED
  BY <1>1, <1>2, <1>3, <1>4 DEF StepOK, BubbleMoves, BubbleKept, page, history, counters

LEMMA NextOK ==
  ASSUME ChatClientAssumption, IInv, [Next]_vars
  PROVE  StepOK
<1>1. CASE \E x \in Texts : Send(x)
  BY <1>1, SendOK
<1>2. CASE HearConversation \/ HearToken \/ End \/ Break \/ Stop
  BY <1>2, HearConversationOK, HearTokenOK, EndOK, BreakOK, StopOK
<1>3. CASE \E c \in Conversations : Select(c) \/ ConfirmDelete(c)
  BY <1>3, SelectOK, ConfirmDeleteOK
<1>4. CASE NewChat \/ Delete \/ DeleteAnswered
  BY <1>4, NewChatOK, DeleteOK, DeleteAnsweredOK
<1>5. CASE \E c \in Conversations : Serve(c) \/ Lose(c) \/ Land(c)
  BY <1>5, ServeOK, LoseOK, LandOK
<1>6. CASE \E n \in Turns : Refuse(n) \/ Reply(n)
  BY <1>6, RefuseOK, ReplyOK
<1>7. CASE \E n \in Turns, c \in Conversations : Accept(n, c)
  BY <1>7, AcceptOK
<1>8. CASE UNCHANGED vars
  BY <1>8, StutterOK
<1>9. QED
  BY <1>1, <1>2, <1>3, <1>4, <1>5, <1>6, <1>7, <1>8 DEF Next

LEMMA IInvKept ==
  ASSUME ChatClientAssumption, IInv, [Next]_vars
  PROVE  IInv'
<1>1. StepOK
  BY NextOK
<1>2. TurnsOK' /\ ListsOK' /\ BubbleOK'
  BY <1>1, TurnsOKKept, ListsOKKept, BubbleOKKept DEF StepOK
<1>3. QED
  BY <1>1, <1>2 DEF StepOK, IInv, TurnsOK, ListsOK, BubbleOK

(* Types, the turns the page and the server agree on, what every list holds
   and what becomes of the bubble: the inductive invariant of the page.     *)
THEOREM PageInvariant == Spec => []IInv
<1>1. Init => IInv
  BY ChatClientAssumption, InitIsOK
<1>2. IInv /\ [Next]_vars => IInv'
  BY ChatClientAssumption, IInvKept
<1>3. QED
  BY <1>1, <1>2, PTL DEF Spec

(* Streamed text is on the screen only under the conversation that the server
   is answering, wherever the user goes while a turn runs.                  *)
THEOREM TextKeepsToItsOwn == Spec => []ShownUnderItsOwn
<1>1. IInv => ShownUnderItsOwn
  BY DEF IInv, StreamKnows, ShownUnderItsOwn, isStreamingHere
<1>2. QED
  BY <1>1, PageInvariant, PTL

(* Stop names the conversation of the turn it stops, and never the one that
   the user has selected meanwhile.                                         *)
THEOREM StopsHitTheirTurn == Spec => []StopHitsItsTurn
<1>1. IInv => StopHitsItsTurn
  BY DEF IInv
<1>2. QED
  BY <1>1, PageInvariant, PTL

(* At rest the list on the screen is what is stored, however requests, answers
   and turns have crossed, but for the conversations that SettledView
   excuses.                                                                 *)
THEOREM ViewSettles == Spec => []SettledView
<1>1. IInv => SettledView
  <2> SUFFICES ASSUME IInv, selected # None, ~isStreaming
               PROVE  \/ fetch[selected].phase # "none"
                      \/ ~Exists(selected)
                      \/ selected \in excused
                      \/ cache[selected] = log[selected]
    BY DEF SettledView
  <2>1. selected \in Conversations
    BY DEF IInv, ClientTypeOK, Ids
  <2>2. QED
    BY <2>1 DEF IInv, Views, ViewOf, Live
<1>2. QED
  BY <1>1, PageInvariant, PTL

(* From the moment a question is stored either the bubble or the list shows
   it, through the end of its turn and the fetches after it.  Where something
   else has taken the bubble away, a click on the sidebar say, the list shows
   it again as soon as the turn has ended and the list is back.             *)
THEOREM QuestionStaysInSight == Spec => []QuestionStays
<1>1. IInv => QuestionStays
  <2> SUFFICES ASSUME IInv, turns > 0, Stored(turns), ~server[turns].left,
                      selected = server[turns].conv, Exists(selected),
                      disturbed => ~isStreaming /\ fetch[selected].phase = "none"
               PROVE  \/ bubble = server[turns].text
                      \/ selected \in excused
                      \/ \E i \in DOMAIN Listed(selected, cache[selected]) :
                            /\ cache[selected][i].role = "user"
                            /\ cache[selected][i].turn = turns
    BY DEF QuestionStays, Stored
  <2>1. turns \in Turns
    BY ChatClientAssumption, TurnNumbers DEF IInv, ClientTypeOK, Turns
  <2>2. selected \in Conversations
    BY <2>1 DEF IInv, TurnsInOrder
  <2>3. ~disturbed => InSight(turns) \/ selected \in excused
    BY <2>1 DEF IInv, WhileStreaming, TurnsInOrder, Afterwards
  <2>4. ASSUME disturbed, selected \notin excused PROVE InSight(turns)
    <3>1. cache[selected] = log[selected]
      BY <2>2, <2>4 DEF IInv, Views, ViewOf, Live
    <3>2. HasQuestion(log[selected], turns)
      BY <2>1, <2>2 DEF IInv, QuestionsLogged
    <3>3. QED
      BY <2>2, <3>1, <3>2, ChatClientAssumption DEF InSight
  <2>5. InSight(turns) \/ selected \in excused
    BY <2>3, <2>4
  <2>6. HasQuestion(cache[selected], turns) =>
           \E i \in DOMAIN Listed(selected, cache[selected]) :
              /\ cache[selected][i].role = "user"
              /\ cache[selected][i].turn = turns
    BY <2>2, ChatClientAssumption DEF HasQuestion, Listed
  <2>7. QED
    BY <2>5, <2>6 DEF InSight
<1>2. QED
  BY <1>1, PageInvariant, PTL

=============================================================================
