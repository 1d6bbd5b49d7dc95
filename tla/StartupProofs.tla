---------------------------- MODULE StartupProofs ----------------------------
(***************************************************************************)
(* Proofs about Startup, for any command lines, any files and any numbers  *)
(* in them: the types, that a tunnel runs as it was told, and that one that *)
(* was told all it needs is refused only for a misread word.               *)
(***************************************************************************)
EXTENDS Startup, SequenceTheorems, TLAPS

-----------------------------------------------------------------------------
(* What is left of a sequence. *)

\* s is what is left of t after its first Len(t) - Len(s) elements.
Rest(s, t) ==
  /\ Len(s) <= Len(t)
  /\ \A i \in DOMAIN s : s[i] = t[Len(t) - Len(s) + i]

\* The length of a sequence without its first two elements.
LEMMA TwoLess ==
  \A n, m \in Nat : n > 1 /\ m = (IF 3 <= n THEN n - 3 + 1 ELSE 0) => m = n - 2
OBVIOUS

\* There is room for two elements before such a rest.
LEMMA TwoLeft == \A n, m \in Nat : m <= n /\ m > 1 => n - m \in Nat /\ (n - m) + 2 <= n
OBVIOUS

\* What is left when one word is read, or two.
LEMMA RestFacts ==
  ASSUME NEW S, NEW s \in Seq(S), NEW t \in Seq(S), Rest(s, t)
  PROVE  /\ s # <<>> => /\ Rest(Tail(s), t) /\ Tail(s) \in Seq(S)
                        /\ Len(Tail(s)) = Len(s) - 1
                        /\ Head(s) = t[Len(t) - Len(s) + 1]
                        /\ Len(s) >= 1
         /\ Len(s) > 1 => LET r == SubSeq(s, 3, Len(s)) IN
                          /\ Rest(r, t) /\ r \in Seq(S) /\ Len(r) = Len(s) - 2
                          /\ s[2] = t[Len(t) - Len(s) + 2]
<1>1. /\ Len(s) \in Nat /\ Len(t) \in Nat /\ DOMAIN s = 1 .. Len(s)
      /\ \A i \in 1 .. Len(s) : s[i] = t[Len(t) - Len(s) + i] /\ s[i] \in S
  BY DEF Rest
<1>2. ASSUME s # <<>>
      PROVE  /\ Rest(Tail(s), t) /\ Tail(s) \in Seq(S) /\ Len(Tail(s)) = Len(s) - 1
             /\ Head(s) = t[Len(t) - Len(s) + 1] /\ Len(s) >= 1
  <2>1. PICK r \in Seq(S) : r = Tail(s)
    BY <1>2, HeadTailProperties
  <2>2. /\ Len(r) = Len(s) - 1 /\ DOMAIN r = 1 .. Len(s) - 1 /\ Len(s) >= 1
        /\ \A i \in 1 .. Len(s) - 1 : r[i] = s[i + 1]
        /\ Head(s) = s[1]
    BY <1>2, <2>1, EmptySeq
  <2>3. \A i \in 1 .. Len(s) - 1 : r[i] = t[Len(t) - Len(r) + i]
    BY <1>1, <2>2
  <2>4. Len(r) <= Len(t)
    BY <1>1, <2>2 DEF Rest
  <2> QED
    BY <1>1, <2>1, <2>2, <2>3, <2>4 DEF Rest
<1>3. ASSUME Len(s) > 1
      PROVE  LET r == SubSeq(s, 3, Len(s)) IN
             /\ Rest(r, t) /\ r \in Seq(S) /\ Len(r) = Len(s) - 2
             /\ s[2] = t[Len(t) - Len(s) + 2]
  <2>1. PICK r : r = SubSeq(s, 3, Len(s))
    OBVIOUS
  <2>2. \A i \in 3 .. Len(s) : s[i] \in S
    BY <1>1
  <2>3. /\ r \in Seq(S) /\ Len(r) = IF 3 <= Len(s) THEN Len(s) - 3 + 1 ELSE 0
        /\ \A i \in 1 .. Len(s) - 3 + 1 : r[i] = s[3 + i - 1]
    BY <1>1, <2>1, <2>2, SubSeqProperties
  <2>4. Len(r) = Len(s) - 2 /\ DOMAIN r = 1 .. Len(s) - 2
    <3>1. Len(s) \in Nat /\ Len(r) \in Nat
      BY <1>1, <2>3, LenProperties
    <3>2. Len(r) = Len(s) - 2
      BY <1>3, <2>3, <3>1, TwoLess
    <3> QED
      BY <2>3, <3>2
  <2>5. \A i \in 1 .. Len(s) - 2 : r[i] = t[Len(t) - Len(r) + i]
    <3>1. TAKE i \in 1 .. Len(s) - 2
    <3>2. r[i] = s[i + 2]
      <4>1. i \in 1 .. Len(s) - 3 + 1 /\ 3 + i - 1 = i + 2
        BY <1>1
      <4> QED
        BY <2>3, <4>1
    <3>3. s[i + 2] = t[Len(t) - Len(s) + (i + 2)]
      BY <1>1
    <3>4. Len(t) - Len(s) + (i + 2) = Len(t) - Len(r) + i
      BY <1>1, <2>4
    <3> QED
      BY <3>2, <3>3, <3>4
  <2>6. Len(r) <= Len(t)
    BY <1>1, <2>4 DEF Rest
  <2>7. s[2] = t[Len(t) - Len(s) + 2]
    BY <1>1, <1>3
  <2> QED
    BY <2>1, <2>3, <2>4, <2>5, <2>6, <2>7 DEF Rest
<1> QED
  BY <1>2, <1>3

\* The rest is a suffix.
LEMMA RestIsSuffix ==
  ASSUME NEW S, NEW s \in Seq(S), NEW t \in Seq(S), Rest(s, t)
  PROVE  IsSuffix(s, t)
<1>1. /\ Len(s) \in Nat /\ Len(t) \in Nat /\ DOMAIN s = 1 .. Len(s) /\ Len(s) <= Len(t)
      /\ \A i \in 1 .. Len(s) : s[i] = t[Len(t) - Len(s) + i] /\ s[i] \in S
      /\ \A i \in 1 .. Len(t) : t[i] \in S
  BY DEF Rest
<1>2. PICK a, b : a = Reverse(s) /\ b = Reverse(t)
  OBVIOUS
<1>3. /\ a \in Seq(S) /\ Len(a) = Len(s)
      /\ \A i \in 1 .. Len(s) : a[i] = s[Len(s) - i + 1]
  <2>1. \A i \in 1 .. Len(s) : (Len(s) - i) + 1 \in 1 .. Len(s)
    BY <1>1
  <2> QED
    BY <1>1, <1>2, <2>1 DEF Reverse
<1>4. /\ b \in Seq(S) /\ Len(b) = Len(t)
      /\ \A i \in 1 .. Len(t) : b[i] = t[Len(t) - i + 1]
  <2>1. \A i \in 1 .. Len(t) : (Len(t) - i) + 1 \in 1 .. Len(t)
    BY <1>1
  <2> QED
    BY <1>1, <1>2, <2>1 DEF Reverse
<1>5. \A i \in 1 .. Len(s) : a[i] = b[i]
  <2>1. TAKE i \in 1 .. Len(s)
  <2>2. (Len(s) - i) + 1 \in 1 .. Len(s) /\ i \in 1 .. Len(t)
    BY <1>1
  <2>3. Len(t) - Len(s) + ((Len(s) - i) + 1) = (Len(t) - i) + 1
    BY <1>1
  <2> QED
    BY <1>1, <1>3, <1>4, <2>2, <2>3
<1>6. SubSeq(a, 1, Len(a)) = SubSeq(b, 1, Len(a))
  <2>1. PICK c, d : c = SubSeq(a, 1, Len(a)) /\ d = SubSeq(b, 1, Len(a))
    OBVIOUS
  <2>2. c = a
    BY <1>3, <2>1, SubSeqFull
  <2>3. /\ \A i \in 1 .. Len(a) : b[i] \in S
        /\ Len(a) \in Int
    BY <1>1, <1>3, <1>4
  <2>4. /\ d \in Seq(S) /\ Len(d) = IF 1 <= Len(a) THEN Len(a) - 1 + 1 ELSE 0
        /\ \A i \in 1 .. Len(a) - 1 + 1 : d[i] = b[1 + i - 1]
    BY <2>1, <2>3, SubSeqProperties
  <2>5. Len(d) = Len(a) /\ \A i \in 1 .. Len(a) : d[i] = a[i]
    BY <1>1, <1>3, <1>5, <2>4
  <2> QED
    BY <1>3, <2>1, <2>2, <2>4, <2>5, SeqEqual
<1> QED
  BY <1>1, <1>2, <1>3, <1>4, <1>6 DEF IsSuffix, IsPrefix

-----------------------------------------------------------------------------
(* The inductive invariant. *)

\* i is the last element of I up to p, or 0 when there is none.
LastOf(I, i, p) ==
  \/ i = 0 /\ \A j \in I : j > p
  \/ i \in I /\ i <= p /\ \A j \in I : j <= i \/ j > p

\* The places of an option in the command line and of a setting in the file.
PlacesOf(name) == {i \in 1 .. Len(line) : line[i] = name}
LinesOf(key) == {i \in 1 .. Len(file) : IsSetting(file[i], key)}

\* The words that set key for Read, and what they set it to.
IsTaken(word, key) ==
  word.key = key /\ (word.form = "item" \/ (word.form = "bare" /\ wide))
TakenOf(key) == {i \in 1 .. Len(file) : IsTaken(file[i], key)}
Meaning(word) == IF word.form = "bare" THEN word.key ELSE word.value

\* The arguments and the words read so far.
ArgsRead == Len(line) - Len(argv)
WordsRead == Len(file) - Len(words)

ValueAt(i) == IF i \in 1 .. Len(line) - 1 THEN line[i + 1] ELSE NoText
ModeOf(value) == CASE value = "c" -> "client" [] value = "s" -> "server" [] OTHER -> NoText

OptionsType ==
  [mode : {NoText, "client", "server"}, addr : STRING \cup {NoText}, port : Nat,
   localip : BOOLEAN]

\* What is left to read is the rest of what was given.
Progress ==
  /\ stage \in {"options", "file", "settings", "running", "exit"}
  /\ line \in Seq(STRING) /\ argv \in Seq(STRING) /\ Rest(argv, line)
  /\ file \in Seq(Words) /\ words \in Seq(Words) /\ Rest(words, file)
  /\ options \in OptionsType
  /\ stage \in {"file", "settings", "running"} => argv = <<>>
  /\ stage \in {"settings", "running"} => words = <<>>

\* The options have what the last of each kind said so far.
OptionsStand ==
  Careful =>
    /\ \E i \in 0 .. ArgsRead : LastOf(PlacesOf("-m"), i, ArgsRead) /\ options.mode = ModeOf(ValueAt(i))
    /\ \E i \in 0 .. ArgsRead : LastOf(PlacesOf("-h"), i, ArgsRead) /\ options.addr = ValueAt(i)
    /\ \E i \in 0 .. ArgsRead : LastOf(PlacesOf("-p"), i, ArgsRead) /\ options.port = NumberOf(ValueAt(i))
    /\ \E i \in 0 .. ArgsRead : LastOf(PlacesOf("-localip"), i, ArgsRead) /\ (options.localip <=> i # 0)

\* The items have what the last word taken for each said so far.
ItemsStand ==
  \A key \in Settings :
    \E i \in 0 .. WordsRead :
      /\ LastOf(TakenOf(key), i, WordsRead)
      /\ key \in DOMAIN items <=> i # 0
      /\ i # 0 => items[key] = Meaning(file[i])

\* The link is built from the settings, or there is none.
LinkStands ==
  /\ stage # "running" => link = NoLink
  /\ stage = "running" =>
       /\ ~Refuses
       /\ link = [mode |-> Mode, type |-> Type, port |-> LinkPort(Port),
                  addr |-> IF Mode = "client" THEN Addr ELSE NoText]

\* A careful command line ends the process only where main refuses the settings.
ExitStands == stage = "exit" /\ Careful => argv = <<>> /\ words = <<>> /\ Refuses

StartupInv == Progress /\ OptionsStand /\ ItemsStand /\ LinkStands /\ ExitStands

-----------------------------------------------------------------------------
(* The last place of something. *)

\* One place more.
LEMMA LastStep ==
  ASSUME NEW I \in SUBSET Nat, NEW p \in Nat, NEW i \in Nat, LastOf(I, i, p)
  PROVE  /\ p + 1 \notin I => LastOf(I, i, p + 1)
         /\ p + 1 \in I => LastOf(I, p + 1, p + 1)
<1>1. ASSUME NEW j \in I, j > p PROVE j = p + 1 \/ j > p + 1
  BY <1>1
<1>2. CASE i = 0 /\ \A j \in I : j > p
  BY <1>1, <1>2 DEF LastOf
<1>3. CASE i \in I /\ i <= p /\ \A j \in I : j <= i \/ j > p
  BY <1>1, <1>3 DEF LastOf
<1> QED
  BY <1>2, <1>3 DEF LastOf

\* The last place is the greatest.
LEMMA LastIsMax ==
  ASSUME NEW n \in Nat, NEW I \in SUBSET (1 .. n), NEW i \in Nat, LastOf(I, i, n)
  PROVE  i = IF I # {} THEN Max(I) ELSE 0
<1>1. CASE i = 0 /\ \A j \in I : j > n
  <2>1. I = {}
    BY <1>1
  <2> QED
    BY <1>1, <2>1
<1>2. CASE i \in I /\ i <= n /\ \A j \in I : j <= i \/ j > n
  <2>1. \A j \in I : i >= j
    BY <1>2
  <2>2. Max(I) \in I /\ \A j \in I : Max(I) >= j
    BY <1>2, <2>1 DEF Max
  <2>3. Max(I) \in Nat /\ I # {}
    <3>1. \A j \in 1 .. n : j \in Nat
      OBVIOUS
    <3>2. Max(I) \in 1 .. n
      BY <2>2
    <3> QED
      BY <1>2, <3>1, <3>2
  <2>4. Max(I) >= i /\ i >= Max(I)
    BY <1>2, <2>1, <2>2
  <2>5. \A a, b \in Nat : a >= b /\ b >= a => a = b
    OBVIOUS
  <2> QED
    BY <2>3, <2>4, <2>5
<1> QED
  BY <1>1, <1>2 DEF LastOf

\* What the command line gives is what stands behind the last option of that name.
LEMMA GivenIs ==
  ASSUME Progress, NEW name, NEW i \in Nat, LastOf(PlacesOf(name), i, Len(line))
  PROVE  Given(name) = ValueAt(i)
<1>1. Len(line) \in Nat /\ PlacesOf(name) \in SUBSET (1 .. Len(line))
  BY LenProperties DEF Progress, PlacesOf
<1>2. i = IF PlacesOf(name) # {} THEN Max(PlacesOf(name)) ELSE 0
  BY <1>1, LastIsMax
<1>3. i = SelectLastInSeq(line, LAMBDA a : a = name)
  BY <1>2 DEF SelectLastInSeq, PlacesOf
<1> QED
  BY <1>3 DEF Given, ValueAt

\* What the file gives is the value of the last item with that key.
LEMMA WrittenIs ==
  ASSUME Progress, NEW key, NEW i \in Nat, LastOf(LinesOf(key), i, Len(file))
  PROVE  Written(key) = IF i # 0 THEN file[i].value ELSE NoText
<1>1. Len(file) \in Nat /\ LinesOf(key) \in SUBSET (1 .. Len(file))
  BY LenProperties DEF Progress, LinesOf
<1>2. i = IF LinesOf(key) # {} THEN Max(LinesOf(key)) ELSE 0
  BY <1>1, LastIsMax
<1>3. i = SelectLastInSeq(file, LAMBDA w : IsSetting(w, key))
  BY <1>2 DEF SelectLastInSeq, LinesOf
<1> QED
  BY <1>3 DEF Written

-----------------------------------------------------------------------------
(* The options. *)

\* An argument that is none of the three names is passed over.
LEMMA SkipPlaces ==
  ASSUME Progress, argv # <<>>, NEW name, name # Head(argv),
         NEW i \in 0 .. ArgsRead, LastOf(PlacesOf(name), i, ArgsRead)
  PROVE  LastOf(PlacesOf(name), i, ArgsRead + 1)
<1>1. /\ Len(line) \in Nat /\ Len(argv) \in Nat /\ Len(argv) <= Len(line)
      /\ Head(argv) = line[Len(line) - Len(argv) + 1]
  BY RestFacts, LenProperties DEF Progress, Rest
<1>2. ArgsRead \in Nat
  BY <1>1 DEF ArgsRead
<1>3. PlacesOf(name) \in SUBSET Nat /\ ArgsRead + 1 \notin PlacesOf(name)
  BY <1>1 DEF PlacesOf, ArgsRead
<1> QED
  BY <1>2, <1>3, LastStep

\* An even number of arguments does not end behind the first of a pair.
LEMMA PairRoom ==
  \A n, k, p \in Nat :
    p + k = n /\ k >= 1 /\ n % 2 = 0 /\ (p + 1) % 2 = 1 => k > 1 /\ p + 2 <= n
OBVIOUS

\* The number of those read and of those left.
LEMMA ReadAndLeft == \A n, k \in Nat : k <= n => n - k \in Nat /\ (n - k) + k = n
OBVIOUS

\* Of more than one, one is left behind the first.
LEMMA OneLeft == \A n, m \in Nat : n > 1 /\ m = n - 1 => m # 0
OBVIOUS

\* In a careful command line an option is followed by its value.
LEMMA CarefulPair ==
  ASSUME Progress, Careful, argv # <<>>, Head(argv) \in Known \cup {"-f"}
  PROVE  /\ Len(argv) > 1 /\ ArgsRead + 2 <= Len(line)
         /\ Head(argv) = line[ArgsRead + 1] /\ argv[2] = line[ArgsRead + 2]
         /\ argv[2] \notin Known \cup {"-f"}
         /\ Head(argv) = "-p" => argv[2] \in DOMAIN Numbers
         /\ Head(argv) = "-m" => argv[2] \in {"c", "s"}
<1>1. /\ Len(line) \in Nat /\ Len(argv) \in Nat /\ Len(argv) <= Len(line)
      /\ DOMAIN line = 1 .. Len(line) /\ Len(argv) >= 1
      /\ Head(argv) = line[Len(line) - Len(argv) + 1]
  BY RestFacts, LenProperties DEF Progress, Rest
<1>2. PICK p \in Nat : p = ArgsRead /\ p + Len(argv) = Len(line)
  BY <1>1, ReadAndLeft DEF ArgsRead
<1>3. p + 1 \in DOMAIN line /\ Head(argv) = line[p + 1]
  <2>1. p + 1 <= Len(line)
    BY <1>1, <1>2
  <2> QED
    BY <1>1, <1>2, <2>1 DEF ArgsRead
<1>4. (p + 1) % 2 = 1
  BY <1>3 DEF Careful
<1>5. Len(argv) > 1 /\ p + 2 <= Len(line)
  <2>1. Len(line) % 2 = 0
    BY DEF Careful
  <2> QED
    BY <1>1, <1>2, <1>4, <2>1, PairRoom
<1>6. argv[2] = line[p + 2]
  BY <1>1, <1>2, <1>5, RestFacts DEF Progress, ArgsRead
<1>7. p + 2 \in DOMAIN line /\ (p + 2) % 2 # 1 /\ (p + 1) + 1 = p + 2
  BY <1>1, <1>4, <1>5
<1>8. line[p + 2] \notin Known \cup {"-f"}
  BY <1>7 DEF Careful
<1>9. /\ Head(argv) = "-p" => argv[2] \in DOMAIN Numbers
      /\ Head(argv) = "-m" => argv[2] \in {"c", "s"}
  BY <1>3, <1>6, <1>7 DEF Careful
<1> QED
  BY <1>2, <1>3, <1>5, <1>6, <1>8, <1>9

\* The pair is its last place where it is that option, and passed over by the others.
LEMMA PairPlaces ==
  ASSUME Progress, Careful, argv # <<>>, Head(argv) \in Known \cup {"-f"},
         NEW name \in Known,
         NEW i \in 0 .. ArgsRead, LastOf(PlacesOf(name), i, ArgsRead)
  PROVE  /\ name # Head(argv) => LastOf(PlacesOf(name), i, ArgsRead + 2)
         /\ name = Head(argv) =>
              /\ LastOf(PlacesOf(name), ArgsRead + 1, ArgsRead + 2)
              /\ ValueAt(ArgsRead + 1) = argv[2]
<1>1. /\ Len(line) \in Nat /\ ArgsRead \in Nat
  BY LenProperties DEF Progress, Rest, ArgsRead
<1>3. PICK p \in Nat : p = ArgsRead /\ p + 2 <= Len(line)
  BY <1>1, CarefulPair
<1>4. /\ Head(argv) = line[p + 1] /\ argv[2] = line[p + 2]
      /\ line[p + 2] \notin Known
  BY <1>3, CarefulPair
<1>9. p + 2 \notin PlacesOf(name) /\ PlacesOf(name) \in SUBSET Nat
  BY <1>4 DEF PlacesOf
<1>10. ASSUME NEW j \in Nat, LastOf(PlacesOf(name), j, p + 1)
       PROVE  LastOf(PlacesOf(name), j, p + 2)
  <2>1. p + 1 \in Nat /\ (p + 1) + 1 = p + 2
    OBVIOUS
  <2> QED
    BY <1>9, <1>10, <2>1, LastStep
<1>11. ASSUME name # Head(argv) PROVE LastOf(PlacesOf(name), i, p + 2)
  <2>1. p + 1 \notin PlacesOf(name)
    BY <1>4, <1>11 DEF PlacesOf
  <2> QED
    BY <1>3, <1>9, <1>10, <2>1, LastStep
<1>12. ASSUME name = Head(argv) PROVE LastOf(PlacesOf(name), p + 1, p + 2)
  <2>1. p + 1 \in 1 .. Len(line)
    BY <1>1, <1>3
  <2>2. p + 1 \in PlacesOf(name)
    BY <1>4, <1>12, <2>1 DEF PlacesOf
  <2> QED
    BY <1>3, <1>9, <1>10, <2>2, LastStep
<1>13. ValueAt(p + 1) = argv[2]
  <2>1. p + 1 \in 1 .. Len(line) - 1 /\ (p + 1) + 1 = p + 2
    BY <1>1, <1>3
  <2> QED
    BY <1>4, <2>1 DEF ValueAt
<1> QED
  BY <1>3, <1>11, <1>12, <1>13

\* What a step leaves of the places of options and settings.
LEMMA PlacesStay ==
  ASSUME UNCHANGED <<line, file, wide>>
  PROVE  /\ \A name : PlacesOf(name)' = PlacesOf(name)
         /\ \A key : TakenOf(key)' = TakenOf(key)
         /\ \A i : ValueAt(i)' = ValueAt(i)
         /\ Careful' <=> Careful
BY DEF PlacesOf, TakenOf, IsTaken, ValueAt, Careful

\* The options stand if the last place of each kind gave them.
LEMMA OptionsAre ==
  ASSUME UNCHANGED <<line, file, wide>>, NEW p \in Nat, ArgsRead' = p,
         NEW m \in 0 .. p, LastOf(PlacesOf("-m"), m, p), options'.mode = ModeOf(ValueAt(m)),
         NEW h \in 0 .. p, LastOf(PlacesOf("-h"), h, p), options'.addr = ValueAt(h),
         NEW q \in 0 .. p, LastOf(PlacesOf("-p"), q, p), options'.port = NumberOf(ValueAt(q)),
         NEW l \in 0 .. p, LastOf(PlacesOf("-localip"), l, p), options'.localip <=> l # 0
  PROVE  OptionsStand'
<1>1. PICK v, w : v = ValueAt(m) /\ w = ValueAt(q)
  OBVIOUS
<1>2. ValueAt(m)' = v /\ ValueAt(h)' = ValueAt(h) /\ ValueAt(q)' = w
  BY <1>1, PlacesStay
<1>3. ModeOf(ValueAt(m))' = ModeOf(v) /\ NumberOf(ValueAt(q))' = NumberOf(w)
  BY <1>2 DEF ModeOf, NumberOf
<1>4. /\ PlacesOf("-m")' = PlacesOf("-m") /\ PlacesOf("-h")' = PlacesOf("-h")
      /\ PlacesOf("-p")' = PlacesOf("-p") /\ PlacesOf("-localip")' = PlacesOf("-localip")
  BY PlacesStay
<1> QED
  BY <1>1, <1>2, <1>3, <1>4 DEF OptionsStand

\* And where those places are.
LEMMA OptionsWere ==
  ASSUME OptionsStand, Careful
  PROVE  \E m, h, q, l \in 0 .. ArgsRead :
           /\ LastOf(PlacesOf("-m"), m, ArgsRead) /\ options.mode = ModeOf(ValueAt(m))
           /\ LastOf(PlacesOf("-h"), h, ArgsRead) /\ options.addr = ValueAt(h)
           /\ LastOf(PlacesOf("-p"), q, ArgsRead) /\ options.port = NumberOf(ValueAt(q))
           /\ LastOf(PlacesOf("-localip"), l, ArgsRead) /\ (options.localip <=> l # 0)
BY DEF OptionsStand

\* The counts that the steps move on.
LEMMA Counts ==
  ASSUME Progress
  PROVE  /\ Len(line) \in Nat /\ Len(argv) \in Nat /\ ArgsRead \in Nat
         /\ Len(file) \in Nat /\ Len(words) \in Nat /\ WordsRead \in Nat
<1>1. /\ Len(line) \in Nat /\ Len(argv) \in Nat /\ Len(argv) <= Len(line)
      /\ Len(file) \in Nat /\ Len(words) \in Nat /\ Len(words) <= Len(file)
  BY LenProperties DEF Progress, Rest
<1>2. \A n, m \in Nat : m <= n => n - m \in Nat
  OBVIOUS
<1> QED
  BY <1>1, <1>2 DEF ArgsRead, WordsRead

\* A word that is none of the options (main): the places stay.
LEMMA Passes ==
  ASSUME Progress, OptionsStand, Careful, argv # <<>>,
         Head(argv) \notin {"-m", "-h", "-p", "-localip"},
         argv' = Tail(argv), UNCHANGED <<line, file, wide, options>>
  PROVE  OptionsStand'
<1>1. PICK p \in Nat : p = ArgsRead
  BY Counts
<1>2. PICK m, h, q, l \in 0 .. p :
        /\ LastOf(PlacesOf("-m"), m, p) /\ options.mode = ModeOf(ValueAt(m))
        /\ LastOf(PlacesOf("-h"), h, p) /\ options.addr = ValueAt(h)
        /\ LastOf(PlacesOf("-p"), q, p) /\ options.port = NumberOf(ValueAt(q))
        /\ LastOf(PlacesOf("-localip"), l, p) /\ (options.localip <=> l # 0)
  BY <1>1, OptionsWere
<1>3. /\ LastOf(PlacesOf("-m"), m, p + 1) /\ LastOf(PlacesOf("-h"), h, p + 1)
      /\ LastOf(PlacesOf("-p"), q, p + 1) /\ LastOf(PlacesOf("-localip"), l, p + 1)
  BY <1>1, <1>2, SkipPlaces
<1>4. ArgsRead' = p + 1
  <2>1. Len(argv') = Len(argv) - 1
    BY RestFacts DEF Progress
  <2>2. \A n, k \in Nat : n - (k - 1) = (n - k) + 1
    OBVIOUS
  <2> QED
    BY <1>1, <2>1, <2>2, Counts DEF ArgsRead
<1>5. p + 1 \in Nat /\ 0 .. p \subseteq 0 .. p + 1
  OBVIOUS
<1> QED
  BY <1>2, <1>3, <1>4, <1>5, OptionsAre

\* The count behind a pair.
LEMMA PairCount ==
  ASSUME Progress, Len(argv') = Len(argv) - 2, UNCHANGED line
  PROVE  ArgsRead' = ArgsRead + 2
<1>1. \A n, k \in Nat : n - (k - 2) = (n - k) + 2
  OBVIOUS
<1>2. Len(line)' = Len(line) /\ Len(line) \in Nat /\ Len(argv) \in Nat
  BY Counts
<1>3. Len(line) - (Len(argv) - 2) = (Len(line) - Len(argv)) + 2
  BY <1>1, <1>2
<1> QED
  BY <1>2, <1>3 DEF ArgsRead

\* -f with its value (main): the places stay.
LEMMA PassesPair ==
  ASSUME Progress, OptionsStand, Careful, argv # <<>>, Head(argv) = "-f",
         Len(argv') = Len(argv) - 2, UNCHANGED <<line, file, wide, options>>
  PROVE  OptionsStand'
<1>1. PICK p \in Nat : p = ArgsRead
  BY Counts
<1>2. PICK m, h, q, l \in 0 .. p :
        /\ LastOf(PlacesOf("-m"), m, p) /\ options.mode = ModeOf(ValueAt(m))
        /\ LastOf(PlacesOf("-h"), h, p) /\ options.addr = ValueAt(h)
        /\ LastOf(PlacesOf("-p"), q, p) /\ options.port = NumberOf(ValueAt(q))
        /\ LastOf(PlacesOf("-localip"), l, p) /\ (options.localip <=> l # 0)
  BY <1>1, OptionsWere
<1>3. /\ LastOf(PlacesOf("-m"), m, p + 2) /\ LastOf(PlacesOf("-h"), h, p + 2)
      /\ LastOf(PlacesOf("-p"), q, p + 2) /\ LastOf(PlacesOf("-localip"), l, p + 2)
  <2>1. {"-m", "-h", "-p", "-localip"} \subseteq Known
    BY DEF Known
  <2>2. Head(argv) \in Known \cup {"-f"}
    OBVIOUS
  <2> QED
    BY <1>1, <1>2, <2>1, <2>2, PairPlaces
<1>4. ArgsRead' = p + 2
  BY <1>1, PairCount
<1>5. p + 2 \in Nat /\ 0 .. p \subseteq 0 .. p + 2
  OBVIOUS
<1> QED
  BY <1>2, <1>3, <1>4, <1>5, OptionsAre

\* An option with its value (main): its last place is here.
LEMMA Takes ==
  ASSUME Progress, OptionsStand, Careful, argv # <<>>,
         Head(argv) \in Known, argv' = SubSeq(argv, 3, Len(argv)), UNCHANGED <<line, file, wide>>,
         \/ Head(argv) \in Ignored /\ UNCHANGED options
         \/ Head(argv) \notin Ignored /\ Take(Head(argv), argv[2])
  PROVE  OptionsStand'
<1>1. PICK p \in Nat : p = ArgsRead
  BY Counts
<1>2. PICK m, h, q, l \in 0 .. p :
        /\ LastOf(PlacesOf("-m"), m, p) /\ options.mode = ModeOf(ValueAt(m))
        /\ LastOf(PlacesOf("-h"), h, p) /\ options.addr = ValueAt(h)
        /\ LastOf(PlacesOf("-p"), q, p) /\ options.port = NumberOf(ValueAt(q))
        /\ LastOf(PlacesOf("-localip"), l, p) /\ (options.localip <=> l # 0)
  BY <1>1, OptionsWere
<1>3. PICK name, value : name = Head(argv) /\ value = argv[2]
  OBVIOUS
<1>4. /\ name # "-m" => LastOf(PlacesOf("-m"), m, p + 2)
      /\ name # "-h" => LastOf(PlacesOf("-h"), h, p + 2)
      /\ name # "-p" => LastOf(PlacesOf("-p"), q, p + 2)
      /\ name # "-localip" => LastOf(PlacesOf("-localip"), l, p + 2)
      /\ name = "-m" => LastOf(PlacesOf("-m"), p + 1, p + 2) /\ ValueAt(p + 1) = value
      /\ name = "-h" => LastOf(PlacesOf("-h"), p + 1, p + 2) /\ ValueAt(p + 1) = value
      /\ name = "-p" => LastOf(PlacesOf("-p"), p + 1, p + 2) /\ ValueAt(p + 1) = value
      /\ name = "-localip" => LastOf(PlacesOf("-localip"), p + 1, p + 2)
  <2>1. {"-m", "-h", "-p", "-localip"} \subseteq Known
    BY DEF Known
  <2> QED
    BY <1>1, <1>2, <1>3, <2>1, PairPlaces
<1>5. Len(argv) > 1
  BY CarefulPair
<1>6. ArgsRead' = p + 2
  <2>1. Len(argv') = Len(argv) - 2
    BY <1>5, RestFacts DEF Progress
  <2> QED
    BY <1>1, <2>1, PairCount
<1>7. p + 2 \in Nat /\ 0 .. p \subseteq 0 .. p + 2 /\ p + 1 \in 0 .. p + 2 /\ p + 1 # 0
  OBVIOUS
<1>8. /\ options \in OptionsType
      /\ name = "-p" => value \in DOMAIN Numbers
      /\ name = "-m" => value \in {"c", "s"}
  BY <1>3, CarefulPair DEF Progress
<1>9. CASE name \in Ignored
  <2>1. name \notin {"-m", "-h", "-p", "-localip"} /\ options' = options
    BY <1>3, <1>9 DEF Ignored
  <2> QED
    BY <1>2, <1>4, <1>6, <1>7, <2>1, OptionsAre
<1>10. CASE name = "-m" /\ name \notin Ignored
  <2>1. options'.mode = ModeOf(value)
    BY <1>3, <1>8, <1>10 DEF Take, ModeOf, OptionsType
  <2>2. /\ options'.addr = options.addr /\ options'.port = options.port
        /\ options'.localip = options.localip
    BY <1>3, <1>8, <1>10, <2>1 DEF Take, OptionsType
  <2> QED
    BY <1>2, <1>4, <1>6, <1>7, <1>10, <2>1, <2>2, OptionsAre
<1>11. CASE name = "-h" /\ name \notin Ignored
  <2>1. /\ options'.addr = value /\ options'.mode = options.mode
        /\ options'.port = options.port /\ options'.localip = options.localip
    BY <1>3, <1>8, <1>11 DEF Take, OptionsType
  <2> QED
    BY <1>2, <1>4, <1>6, <1>7, <1>11, <2>1, OptionsAre
<1>12. CASE name = "-p" /\ name \notin Ignored
  <2>1. /\ options'.port = NumberOf(value) /\ options'.mode = options.mode
        /\ options'.addr = options.addr /\ options'.localip = options.localip
    BY <1>3, <1>8, <1>12 DEF Take, NumberOf, OptionsType
  <2> QED
    BY <1>2, <1>4, <1>6, <1>7, <1>12, <2>1, OptionsAre
<1>13. CASE name = "-localip" /\ name \notin Ignored
  <2>1. /\ options'.port = options.port /\ options'.mode = options.mode
        /\ options'.addr = options.addr /\ options'.localip
    BY <1>3, <1>8, <1>13 DEF Take, OptionsType
  <2> QED
    BY <1>2, <1>4, <1>6, <1>7, <1>13, <2>1, OptionsAre
<1> QED
  BY <1>3, <1>9, <1>10, <1>11, <1>12, <1>13 DEF Known

\* A step that leaves the command line and the options.
LEMMA OptionsStay ==
  ASSUME OptionsStand, UNCHANGED <<line, file, wide, argv, options>>
  PROVE  OptionsStand'
<1>1. ArgsRead' = ArgsRead
  BY DEF ArgsRead
<1>2. /\ \A i : ModeOf(ValueAt(i))' = ModeOf(ValueAt(i))
      /\ \A i : NumberOf(ValueAt(i))' = NumberOf(ValueAt(i))
  BY DEF ValueAt, ModeOf, NumberOf
<1> QED
  BY <1>1, <1>2, PlacesStay DEF OptionsStand

\* A step that leaves the file and the items.
LEMMA ItemsStay ==
  ASSUME ItemsStand, UNCHANGED <<line, file, wide, words, items>>
  PROVE  ItemsStand'
<1>1. WordsRead' = WordsRead
  BY DEF WordsRead
<1> QED
  BY <1>1, PlacesStay DEF ItemsStand

\* One round of the loop, taken apart.
LEMMA Rounds ==
  ASSUME ReadOption, Progress
  PROVE  \E rest \in Seq(STRING) :
           /\ rest # <<>> /\ Rest(rest, line)
           /\ rest = IF Head(argv) = "-f" /\ Len(argv) > 1 THEN Tail(argv) ELSE argv
           /\ \/ /\ \/ argv = <<"-f">>
                    \/ Head(rest) \in Known \ {"-logfile"} /\ Len(rest) = 1
                 /\ stage' = "exit" /\ UNCHANGED <<argv, options>>
              \/ /\ Head(rest) \in Known /\ Len(rest) > 1
                 /\ argv' = SubSeq(rest, 3, Len(rest))
                 /\ \/ Head(rest) \in Ignored /\ UNCHANGED <<stage, options>>
                    \/ Head(rest) \notin Ignored /\ Take(Head(rest), rest[2])
              \/ argv' = Tail(rest) /\ UNCHANGED <<stage, options>>
<1>1. PICK rest : rest = IF Head(argv) = "-f" /\ Len(argv) > 1 THEN Tail(argv) ELSE argv
  OBVIOUS
<1>2. argv \in Seq(STRING) /\ line \in Seq(STRING) /\ argv # <<>> /\ Rest(argv, line)
  BY DEF ReadOption, Progress
<1>3. rest \in Seq(STRING) /\ rest # <<>> /\ Rest(rest, line)
  <2>1. CASE rest = argv
    BY <1>2, <2>1
  <2>2. CASE rest = Tail(argv) /\ Len(argv) > 1
    <3>1. rest \in Seq(STRING) /\ Rest(rest, line) /\ Len(rest) = Len(argv) - 1
      BY <1>2, <2>2, RestFacts
    <3>2. Len(rest) # 0
      BY <1>2, <2>2, <3>1, LenProperties, OneLeft
    <3> QED
      BY <3>1, <3>2, EmptySeq
  <2> QED
    BY <1>1, <2>1, <2>2
<1>4. \/ /\ \/ argv = <<"-f">>
            \/ Head(rest) \in Known \ {"-logfile"} /\ Len(rest) = 1
         /\ stage' = "exit" /\ UNCHANGED <<argv, options>>
      \/ /\ Head(rest) \in Known /\ Len(rest) > 1
         /\ argv' = SubSeq(rest, 3, Len(rest))
         /\ \/ Head(rest) \in Ignored /\ UNCHANGED <<stage, options>>
            \/ Head(rest) \notin Ignored /\ Take(Head(rest), rest[2])
      \/ argv' = Tail(rest) /\ UNCHANGED <<stage, options>>
  BY <1>1 DEF ReadOption, Exit
<1> QED
  BY <1>1, <1>3, <1>4

\* One round with a careful command line.
LEMMA CarefulRound ==
  ASSUME ReadOption, Progress, OptionsStand, Careful
  PROVE  OptionsStand' /\ stage' = "options"
<1>1. /\ stage = "options" /\ argv # <<>> /\ argv \in Seq(STRING)
      /\ UNCHANGED <<line, file, wide>>
  BY DEF ReadOption, Progress
<1>2. "-f" \notin Known
  BY DEF Known, Ignored
<1>3. CASE Head(argv) \in Known
  <2>1. Len(argv) > 1
    BY <1>1, <1>3, CarefulPair
  <2>2. Len(argv) # 1 /\ argv # <<"-f">>
    <3>1. Len(<<"-f">>) = 1
      OBVIOUS
    <3>2. Len(argv) \in Nat /\ \A n \in Nat : n > 1 => n # 1
      BY <1>1, LenProperties
    <3>3. Len(argv) # 1
      BY <2>1, <3>2
    <3> QED
      BY <3>1, <3>3
  <2>3. /\ argv' = SubSeq(argv, 3, Len(argv))
        /\ \/ Head(argv) \in Ignored /\ UNCHANGED <<stage, options>>
           \/ Head(argv) \notin Ignored /\ Take(Head(argv), argv[2])
    BY <1>2, <1>3, <2>1, <2>2 DEF ReadOption
  <2>4. Head(argv) = "-m" => argv[2] \in {"c", "s"}
    BY <1>1, <1>3, CarefulPair
  <2>5. stage' = stage
    BY <2>3, <2>4 DEF Take
  <2> QED
    BY <1>1, <1>3, <2>3, <2>5, Takes
<1>4. CASE Head(argv) = "-f"
  <2>1. Len(argv) > 1 /\ argv[2] \notin Known
    BY <1>1, <1>4, CarefulPair
  <2>2. PICK rest \in Seq(STRING) :
          rest = Tail(argv) /\ Len(rest) = Len(argv) - 1 /\ Head(rest) = argv[2]
    <3>1. PICK rest \in Seq(STRING) : rest = Tail(argv)
      BY <1>1, HeadTailProperties
    <3>2. Len(rest) = Len(argv) - 1 /\ \A i \in 1 .. Len(argv) - 1 : rest[i] = argv[i + 1]
      BY <1>1, <3>1
    <3>3. Len(argv) \in Nat /\ Len(rest) # 0 /\ 1 \in 1 .. Len(argv) - 1 /\ 1 + 1 = 2
      BY <1>1, <2>1, <3>2, OneLeft, LenProperties
    <3>4. Head(rest) = rest[1] /\ rest[1] = argv[1 + 1]
      BY <3>2, <3>3, EmptySeq
    <3> QED
      BY <3>1, <3>2, <3>3, <3>4
  <2>3. argv # <<"-f">>
    BY <2>1
  <2>4. argv' = Tail(rest) /\ UNCHANGED <<stage, options>>
    BY <1>4, <2>1, <2>2, <2>3 DEF ReadOption
  <2>5. Len(argv') = Len(argv) - 2
    <3>1. Len(argv) \in Nat /\ Len(rest) # 0
      BY <1>1, <2>1, <2>2, OneLeft, LenProperties
    <3>2. Len(Tail(rest)) = Len(rest) - 1
      <4>1. Len(<<>>) = 0
        OBVIOUS
      <4>2. rest # <<>>
        BY <3>1, <4>1
      <4> QED
        BY <2>2, <4>2, HeadTailProperties
    <3>3. \A n \in Nat : (n - 1) - 1 = n - 2
      OBVIOUS
    <3> QED
      BY <2>2, <2>4, <3>1, <3>2, <3>3
  <2> QED
    BY <1>1, <1>4, <2>4, <2>5, PassesPair
<1>5. CASE Head(argv) \notin Known \cup {"-f"}
  <2>1. argv # <<"-f">>
    BY <1>5
  <2>2. argv' = Tail(argv) /\ UNCHANGED <<stage, options>>
    BY <1>5, <2>1 DEF ReadOption
  <2>3. Head(argv) \notin {"-m", "-h", "-p", "-localip"}
    BY <1>5 DEF Known
  <2> QED
    BY <1>1, <2>2, <2>3, Passes
<1> QED
  BY <1>3, <1>4, <1>5

\* One round of the loop over the arguments.
LEMMA ReadOptionStep ==
  ASSUME StartupInv, ReadOption
  PROVE  StartupInv'
<1> USE StartupAssumption
<1>1. /\ stage = "options" /\ UNCHANGED <<line, words, file, items, wide, found, link>>
      /\ Progress /\ OptionsStand /\ ItemsStand /\ link = NoLink
  BY DEF ReadOption, StartupInv, LinkStands
<1>2. PICK rest \in Seq(STRING) :
        /\ rest # <<>> /\ Rest(rest, line)
        /\ \/ stage' = "exit" /\ UNCHANGED <<argv, options>>
           \/ /\ Len(rest) > 1 /\ argv' = SubSeq(rest, 3, Len(rest))
              /\ \/ UNCHANGED <<stage, options>>
                 \/ Take(Head(rest), rest[2])
           \/ argv' = Tail(rest) /\ UNCHANGED <<stage, options>>
  BY <1>1, Rounds
<1>3. options \in OptionsType /\ argv \in Seq(STRING) /\ line \in Seq(STRING) /\ Rest(argv, line)
  BY <1>1 DEF Progress
<1>4. stage' \in {"options", "exit"}
  BY <1>1, <1>2 DEF Take, Exit
<1>5. /\ Rest(argv', line) /\ argv' \in Seq(STRING)
  BY <1>2, <1>3, RestFacts
<1>6. options' \in OptionsType
  <2>1. CASE options' = options
    BY <1>3, <2>1
  <2>2. CASE Len(rest) > 1 /\ Take(Head(rest), rest[2])
    <3>1. PICK value \in STRING : value = rest[2]
      <4>1. 2 \in 1 .. Len(rest)
        BY <2>2, LenProperties
      <4>2. rest \in Seq(STRING)
        BY <1>2
      <4>3. rest[2] \in STRING
        BY <4>1, <4>2
      <4> QED
        BY <4>3
    <3>2. CASE \E mode \in {"client", "server"} : options' = [options EXCEPT !.mode = mode]
      BY <1>3, <3>2 DEF OptionsType
    <3>3. CASE options' = [options EXCEPT !.addr = value]
      BY <1>3, <3>1, <3>3 DEF OptionsType
    <3>4. CASE options' = [options EXCEPT !.localip = TRUE]
      BY <1>3, <3>4 DEF OptionsType
    <3>5. CASE value \in DOMAIN Numbers /\ options' = [options EXCEPT !.port = Numbers[value]]
      BY <1>3, <3>5 DEF OptionsType, StartupAssumption
    <3>6. CASE options' = [options EXCEPT !.port = options.port]
      BY <1>3, <3>6 DEF OptionsType
    <3> QED
      BY <2>1, <2>2, <3>1, <3>2, <3>3, <3>4, <3>5, <3>6 DEF Take
  <2> QED
    BY <1>2, <2>1, <2>2
<1>7. Progress'
  BY <1>1, <1>4, <1>5, <1>6 DEF Progress
<1>8. OptionsStand' /\ ExitStands'
  <2>1. CASE ~Careful
    BY <1>1, <2>1, PlacesStay DEF OptionsStand, ExitStands
  <2>2. CASE Careful
    BY <1>1, <2>2, CarefulRound DEF ExitStands
  <2> QED
    BY <2>1, <2>2
<1>9. ItemsStand' /\ LinkStands'
  BY <1>1, <1>4, ItemsStay DEF LinkStands
<1> QED
  BY <1>7, <1>8, <1>9 DEF StartupInv

-----------------------------------------------------------------------------
(* The file. *)

\* A word is the last for the keys it is taken for, and passed over by the others.
LEMMA ItemPlaces ==
  ASSUME Progress, words # <<>>, NEW key, NEW i \in 0 .. WordsRead,
         LastOf(TakenOf(key), i, WordsRead)
  PROVE  /\ ~IsTaken(Head(words), key) => LastOf(TakenOf(key), i, WordsRead + 1)
         /\ IsTaken(Head(words), key) => LastOf(TakenOf(key), WordsRead + 1, WordsRead + 1)
         /\ Head(words) = file[WordsRead + 1]
<1>1. /\ Len(file) \in Nat /\ Len(words) \in Nat /\ Len(words) <= Len(file)
      /\ Head(words) = file[Len(file) - Len(words) + 1] /\ Len(words) >= 1
  BY RestFacts, LenProperties DEF Progress, Rest
<1>2. PICK p \in Nat : p = WordsRead /\ p + 1 \in 1 .. Len(file)
  <2>1. \A n, m \in Nat : m <= n /\ m >= 1 => n - m \in Nat /\ (n - m) + 1 \in 1 .. n
    OBVIOUS
  <2> QED
    BY <1>1, <2>1 DEF WordsRead
<1>3. TakenOf(key) \in SUBSET Nat /\ Head(words) = file[p + 1]
  BY <1>1, <1>2 DEF TakenOf, WordsRead
<1>4. p + 1 \in TakenOf(key) <=> IsTaken(Head(words), key)
  BY <1>2, <1>3 DEF TakenOf
<1>5. /\ p + 1 \notin TakenOf(key) => LastOf(TakenOf(key), i, p + 1)
      /\ p + 1 \in TakenOf(key) => LastOf(TakenOf(key), p + 1, p + 1)
  <2>1. i \in Nat /\ LastOf(TakenOf(key), i, p)
    BY <1>2
  <2> QED
    BY <1>2, <1>3, <2>1, LastStep
<1> QED
  BY <1>2, <1>3, <1>4, <1>5

\* A word of the file (Config::Read).
LEMMA ReadWordStep ==
  ASSUME StartupInv, ReadWord
  PROVE  StartupInv'
<1>1. /\ stage = "file" /\ words # <<>> /\ words' = Tail(words)
      /\ UNCHANGED <<stage, argv, line, options, file, wide, found, link>>
      /\ Progress /\ OptionsStand /\ ItemsStand /\ link = NoLink
  BY DEF ReadWord, StartupInv, LinkStands
<1>2. Rest(words', file) /\ words' \in Seq(Words) /\ Len(words') = Len(words) - 1
  BY <1>1, RestFacts DEF Progress
<1>3. Progress'
  BY <1>1, <1>2 DEF Progress
<1>4. OptionsStand'
  BY <1>1, OptionsStay
<1>5. PICK p \in Nat : p = WordsRead /\ WordsRead' = p + 1
  <2>1. \A n, k \in Nat : n - (k - 1) = (n - k) + 1
    OBVIOUS
  <2>2. Len(file)' = Len(file) /\ Len(file) \in Nat /\ Len(words) \in Nat /\ WordsRead \in Nat
    BY <1>1, Counts
  <2>3. Len(file) - (Len(words) - 1) = WordsRead + 1
    BY <2>1, <2>2 DEF WordsRead
  <2> QED
    BY <1>2, <2>2, <2>3 DEF WordsRead
<1>6. ASSUME NEW key \in Settings
      PROVE  \E i \in 0 .. p + 1 :
               /\ LastOf(TakenOf(key), i, p + 1)
               /\ key \in DOMAIN items' <=> i # 0
               /\ i # 0 => items'[key] = Meaning(file[i])
  <2>1. PICK i \in 0 .. p : /\ LastOf(TakenOf(key), i, p)
                            /\ key \in DOMAIN items <=> i # 0
                            /\ i # 0 => items[key] = Meaning(file[i])
    BY <1>1, <1>5, <1>6 DEF ItemsStand
  <2>2. PICK word : word = Head(words)
    OBVIOUS
  <2>3. /\ ~IsTaken(word, key) => LastOf(TakenOf(key), i, p + 1)
        /\ IsTaken(word, key) => LastOf(TakenOf(key), p + 1, p + 1)
        /\ word = file[p + 1]
    BY <1>1, <1>5, <2>1, <2>2, ItemPlaces
  <2>4. i \in 0 .. p + 1 /\ p + 1 \in 0 .. p + 1 /\ p + 1 # 0
    OBVIOUS
  <2>5. CASE IsTaken(word, key)
    <3>1. key \in DOMAIN items' /\ items'[key] = Meaning(word)
      BY <1>1, <2>2, <2>5 DEF ReadWord, Set, IsTaken, Meaning
    <3> QED
      BY <2>3, <2>4, <2>5, <3>1
  <2>6. CASE ~IsTaken(word, key)
    <3>1. /\ key \in DOMAIN items' <=> key \in DOMAIN items
          /\ key \in DOMAIN items => items'[key] = items[key]
      BY <1>1, <2>2, <2>6 DEF ReadWord, Set, IsTaken
    <3> QED
      BY <2>1, <2>3, <2>4, <2>6, <3>1
  <2> QED
    BY <2>5, <2>6
<1>7. ItemsStand'
  <2>1. /\ WordsRead' = p + 1 /\ file' = file
        /\ \A key : TakenOf(key)' = TakenOf(key)
        /\ \A i : Meaning(file[i])' = Meaning(file[i])
    BY <1>1, <1>5, PlacesStay DEF Meaning
  <2> QED
    BY <1>6, <2>1 DEF ItemsStand
<1>8. LinkStands' /\ ExitStands'
  BY <1>1 DEF LinkStands, ExitStands
<1> QED
  BY <1>3, <1>4, <1>7, <1>8 DEF StartupInv

\* The end of the options, and of the file.
LEMMA StageStep ==
  ASSUME StartupInv, OptionsRead \/ FileRead
  PROVE  StartupInv'
<1>1. /\ UNCHANGED <<argv, line, options, words, file, items, wide, found, link>>
      /\ Progress /\ OptionsStand /\ ItemsStand /\ link = NoLink
      /\ \/ stage = "options" /\ argv = <<>> /\ stage' = "file"
         \/ stage = "file" /\ words = <<>> /\ stage' = "settings"
  BY DEF OptionsRead, FileRead, StartupInv, LinkStands
<1>2. Progress'
  BY <1>1 DEF Progress, Rest
<1>3. OptionsStand' /\ ItemsStand' /\ LinkStands' /\ ExitStands'
  BY <1>1, OptionsStay, ItemsStay DEF LinkStands, ExitStands
<1> QED
  BY <1>2, <1>3 DEF StartupInv

\* What the settings come to is a matter of the options and the items.
LEMMA SettingsStay ==
  ASSUME UNCHANGED <<options, items, found>>
  PROVE  /\ Mode' = Mode /\ Type' = Type /\ Addr' = Addr
         /\ LinkPort(Port)' = LinkPort(Port) /\ (Refuses' <=> Refuses)
<1>1. /\ Mode' = Mode /\ Type' = Type /\ Addr' = Addr /\ Port' = Port
      /\ Refuses' <=> Refuses
  BY DEF Mode, Type, Addr, Port, Refuses, ValueString, ValueInt, HasLocalIP,
         PortThrows, IntThrows
<1>2. LinkPort(Port)' = LinkPort(Port)
  BY <1>1 DEF LinkPort
<1> QED
  BY <1>1, <1>2

\* The settings are put together: the link is built, or the process ends.
LEMMA StartStep ==
  ASSUME StartupInv, Start
  PROVE  StartupInv'
<1>1. /\ UNCHANGED <<argv, line, options, words, file, items, wide, found>>
      /\ Progress /\ OptionsStand /\ ItemsStand /\ link = NoLink /\ stage = "settings"
      /\ \/ Refuses /\ stage' = "exit" /\ UNCHANGED link
         \/ /\ ~Refuses /\ stage' = "running"
            /\ link' = [mode |-> Mode, type |-> Type, port |-> LinkPort(Port),
                        addr |-> IF Mode = "client" THEN Addr ELSE NoText]
  BY DEF Start, Exit, StartupInv, LinkStands
<1>2. Progress'
  BY <1>1 DEF Progress, Rest
<1>3. OptionsStand' /\ ItemsStand'
  BY <1>1, OptionsStay, ItemsStay
<1>4. /\ Mode' = Mode /\ Type' = Type /\ Addr' = Addr
      /\ LinkPort(Port)' = LinkPort(Port) /\ (Refuses' <=> Refuses)
  BY <1>1, SettingsStay
<1>5. LinkStands' /\ ExitStands'
  <2>1. CASE Refuses /\ stage' = "exit" /\ UNCHANGED link
    <3>1. argv = <<>> /\ words = <<>>
      BY <1>1 DEF Progress
    <3> QED
      BY <1>1, <1>4, <2>1, <3>1 DEF LinkStands, ExitStands
  <2>2. CASE /\ ~Refuses /\ stage' = "running"
             /\ link' = [mode |-> Mode, type |-> Type, port |-> LinkPort(Port),
                         addr |-> IF Mode = "client" THEN Addr ELSE NoText]
    BY <1>4, <2>2 DEF LinkStands, ExitStands
  <2> QED
    BY <1>1, <2>1, <2>2
<1> QED
  BY <1>2, <1>3, <1>5 DEF StartupInv

\* The missing text is none of the words main compares with.
LEMMA NoTextIs == NoText \notin {"c", "s", "client", "server", "UDP", "DTLS", "TCP", "TLS"}
BY Zenon DEF NoText

\* At the start nothing is read.
LEMMA NothingRead == \A n \in Nat : n <= n /\ n - n = 0 /\ \A i \in 1 .. n : 0 + i = i
OBVIOUS

\* The invariant holds at the start.
LEMMA StartupInit == Init => StartupInv
<1> SUFFICES ASSUME Init PROVE StartupInv
  OBVIOUS
<1> USE StartupAssumption DEF StartupAssumption
<1>1. /\ stage = "options" /\ argv = line /\ words = file /\ options = NoOptions
      /\ items = <<>> /\ link = NoLink
      /\ line \in Seq(STRING) /\ file \in Seq(Words)
  BY DEF Init
<1>3. Len(line) \in Nat /\ Len(file) \in Nat /\ DOMAIN line = 1 .. Len(line)
      /\ DOMAIN file = 1 .. Len(file)
  BY <1>1, LenProperties
<1>4. Rest(argv, line) /\ Rest(words, file) /\ ArgsRead = 0 /\ WordsRead = 0
  BY <1>1, <1>3, NothingRead DEF Rest, ArgsRead, WordsRead
<1>5. Progress
  BY <1>1, <1>4 DEF Progress, NoOptions, OptionsType
<1>6. /\ \A name : LastOf(PlacesOf(name), 0, 0)
      /\ \A key : LastOf(TakenOf(key), 0, 0)
  BY DEF LastOf, PlacesOf, TakenOf
<1>7. ValueAt(0) = NoText /\ ModeOf(NoText) = NoText /\ NumberOf(NoText) = 0
  <2>1. 0 \notin 1 .. Len(line) - 1
    OBVIOUS
  <2> QED
    BY <2>1, NoTextIs DEF ValueAt, ModeOf, NumberOf
<1>8. OptionsStand
  BY <1>1, <1>4, <1>6, <1>7 DEF OptionsStand, NoOptions
<1>9. ItemsStand
  BY <1>1, <1>4, <1>6 DEF ItemsStand
<1>10. LinkStands /\ ExitStands
  BY <1>1 DEF LinkStands, ExitStands
<1> QED
  BY <1>5, <1>8, <1>9, <1>10 DEF StartupInv

\* What main has read is what stands in its mind, whatever it was called with.
THEOREM StartupInvariant == Spec => []StartupInv
<1>1. StartupInv /\ [Next]_vars => StartupInv'
  <2> SUFFICES ASSUME StartupInv, [Next]_vars PROVE StartupInv'
    OBVIOUS
  <2>1. CASE UNCHANGED vars
    <3>1. /\ UNCHANGED <<stage, argv, line, options, words, file, items, wide, found, link>>
          /\ Progress /\ OptionsStand /\ ItemsStand /\ LinkStands /\ ExitStands
      BY <2>1 DEF vars, StartupInv
    <3>2. Progress'
      BY <3>1 DEF Progress, Rest
    <3>3. OptionsStand' /\ ItemsStand'
      BY <3>1, OptionsStay, ItemsStay
    <3>4. LinkStands' /\ ExitStands'
      <4>1. Careful' <=> Careful
        BY <3>1, PlacesStay
      <4> QED
        BY <3>1, <4>1, SettingsStay DEF LinkStands, ExitStands
    <3> QED
      BY <3>2, <3>3, <3>4 DEF StartupInv
  <2> QED
    BY <2>1, ReadOptionStep, ReadWordStep, StageStep, StartStep DEF Next
<1> QED
  BY <1>1, StartupInit, PTL DEF Spec

-----------------------------------------------------------------------------
(* The properties. *)

\* The values that main makes of the options and the items.
LEMMA Values ==
  ASSUME Progress
  PROVE  Mode \in {NoText, "client", "server"} /\ (~PortThrows => Port \in Nat)
<1> USE StartupAssumption DEF StartupAssumption
<1>1. options \in OptionsType
  BY DEF Progress
<1>2. Mode \in {NoText, "client", "server"}
  BY <1>1 DEF Mode, OptionsType
<1>3. CASE options.port # 0
  BY <1>1, <1>2, <1>3 DEF Port, OptionsType
<1>4. CASE options.port = 0
  BY <1>2, <1>4 DEF Port, PortThrows, IntThrows, ValueInt
<1> QED
  BY <1>3, <1>4

\* A port cut to 16 bits.
LEMMA FitsIs == \A port \in Ports : port <= 65535
<1>1. PICK n \in Nat : n = 65535
  BY SMT
<1>2. Ports = 0 .. n
  BY SMT, <1>1 DEF Ports
<1>3. \A m \in 0 .. n : m <= n
  BY SMT
<1>4. \A m \in Ports : m <= n
  BY SMT, <1>2, <1>3
<1> QED
  BY SMT, <1>1, <1>4

\* The numbers of 16 bits are ports.
LEMMA PortsAre == ASSUME NEW port \in Nat, port <= 65535 PROVE port \in Ports
<1>1. PICK n \in Nat : n = 65535
  BY SMT
<1>2. Ports = 0 .. n
  BY SMT, <1>1 DEF Ports
<1>3. port <= n
  BY SMT, <1>1
<1>4. port \in 0 .. n
  BY SMT, <1>3
<1> QED
  BY SMT, <1>2, <1>4

\* What is cut to 16 bits is a port.
LEMMA CutFits == \A port \in Nat : LinkPort(port) \in Ports
<1> TAKE port \in Nat
<1>1. PICK cut \in Nat : cut = port % 65536 /\ cut <= 65535
  BY SMT
<1>2. cut \in Ports
  BY SMT, <1>1, PortsAre
<1> QED
  BY SMT, <1>1, <1>2 DEF LinkPort

\* A port is not changed by the cut.
LEMMA CutKeeps ==
  ASSUME NEW port \in Nat, port \in Ports
  PROVE  LinkPort(port) = port
<1>1. port <= 65535
  BY SMT, FitsIs
<1>2. port % 65536 = port
  BY SMT, <1>1
<1> QED
  BY SMT, <1>2 DEF LinkPort

\* 0 is a port to the types of the code.
LEMMA ZeroFits == 0 \in Ports
BY SMT DEF Ports

\* Every reachable state is well typed: what is left to read is the end of what
\* was given, and the link has a mode, a type and a port of 16 bits.
THEOREM StartupTypeCorrect == Spec => []TypeOK
<1>1. StartupInv => TypeOK
  <2> SUFFICES ASSUME StartupInv PROVE TypeOK
    OBVIOUS
  <2>1. /\ stage \in {"options", "file", "settings", "running", "exit"}
        /\ options.mode \in {NoText, "client", "server"} /\ options.port \in Nat
    BY DEF StartupInv, Progress, OptionsType
  <2>2. IsSuffix(argv, line) /\ IsSuffix(words, file)
    BY RestIsSuffix DEF StartupInv, Progress
  <2>3. /\ {link.mode} \subseteq {NoText, "client", "server"}
        /\ link.type \in Built \cup {NoText} /\ link.port \in Ports
    <3>1. CASE link = NoLink
      BY <3>1, ZeroFits DEF NoLink
    <3>2. CASE stage = "running"
      <4>1. ~Refuses /\ link.mode = Mode /\ link.type = Type /\ link.port = LinkPort(Port)
        BY <3>2 DEF StartupInv, LinkStands
      <4>2. Type \in Built /\ ~PortThrows
        BY <4>1 DEF Refuses
      <4>3. Mode \in {NoText, "client", "server"} /\ Port \in Nat
        BY <4>2, Values DEF StartupInv
      <4>4. LinkPort(Port) \in Ports
        BY <4>3, CutFits
      <4>5. link.mode \in {NoText, "client", "server"}
        BY <4>1, <4>3
      <4>6. link.type \in Built \cup {NoText}
        BY <4>1, <4>2
      <4> QED
        BY <4>1, <4>4, <4>5, <4>6
    <3> QED
      BY <3>1, <3>2 DEF StartupInv, LinkStands
  <2> QED
    BY <2>1, <2>2, <2>3 DEF TypeOK
<1> QED
  BY <1>1, StartupInvariant, PTL

\* The last setting is what Read has, unless a stray word comes after it.
LEMMA WrittenStands ==
  ASSUME Progress, ItemsStand, words = <<>>, NEW key \in Settings, ~Misread(key)
  PROVE  /\ key \in DOMAIN items => items[key] = Written(key)
         /\ key \notin DOMAIN items => Written(key) = NoText
<1>1. /\ Len(file) \in Nat /\ WordsRead = Len(file) /\ DOMAIN file = 1 .. Len(file)
  <2>1. Len(words) = 0 /\ \A n \in Nat : n - 0 = n
    OBVIOUS
  <2> QED
    BY <2>1, Counts DEF WordsRead, Progress
<1>2. PICK i \in 0 .. Len(file) :
        /\ LastOf(TakenOf(key), i, Len(file))
        /\ key \in DOMAIN items <=> i # 0
        /\ i # 0 => items[key] = Meaning(file[i])
  BY <1>1 DEF ItemsStand
<1>3. \A j \in LinesOf(key) : j \in TakenOf(key)
  BY DEF LinesOf, TakenOf, IsSetting, IsTaken
<1>4. \A j \in 1 .. Len(file) : IsSetting(file[j], key) => j \in LinesOf(key)
  BY DEF LinesOf
<1>5. CASE i = 0
  <2>1. \A j \in TakenOf(key) : j > Len(file)
    BY <1>2, <1>5 DEF LastOf, TakenOf
  <2>2. LastOf(LinesOf(key), i, Len(file))
    BY <1>3, <1>5, <2>1 DEF LastOf
  <2> QED
    BY <1>2, <1>5, <2>2, WrittenIs
<1>6. CASE i # 0
  <2>1. i \in TakenOf(key) /\ \A j \in TakenOf(key) : j <= i \/ j > Len(file)
    BY <1>2, <1>6 DEF LastOf
  <2>2. \A j \in i + 1 .. Len(file) : ~IsSetting(file[j], key)
    <3>1. TAKE j \in i + 1 .. Len(file)
    <3>2. j \in 1 .. Len(file) /\ ~(j <= i) /\ ~(j > Len(file))
      BY <1>1, <1>2, <1>6, <3>1
    <3> QED
      BY <1>3, <1>4, <2>1, <3>2
  <2>3. ~IsStray(file[i], key)
    BY <1>1, <2>1, <2>2 DEF Misread, TakenOf
  <2>4. IsTaken(file[i], key)
    BY <2>1 DEF TakenOf
  <2>5. IsSetting(file[i], key) /\ file[i].form = "item"
    <3>1. file[i] \in Words
      BY <1>1, <2>1 DEF TakenOf, Progress
    <3> QED
      BY <2>3, <2>4, <3>1 DEF IsTaken, IsStray, IsSetting, Words
  <2>6. i \in LinesOf(key)
    BY <2>1, <2>5 DEF LinesOf, TakenOf
  <2>7. LastOf(LinesOf(key), i, Len(file))
    BY <1>2, <1>3, <2>1, <2>6 DEF LastOf
  <2>8. Written(key) = file[i].value
    BY <1>2, <1>6, <2>7, WrittenIs
  <2>9. Meaning(file[i]) = file[i].value
    BY <2>5 DEF Meaning
  <2> QED
    BY <1>2, <1>6, <2>8, <2>9
<1> QED
  BY <1>5, <1>6

\* Behind the options, main has what a careful command line gives.
LEMMA OptionsGiven ==
  ASSUME Progress, OptionsStand, Careful, argv = <<>>
  PROVE  /\ options.mode = ModeOf(Given("-m")) /\ options.addr = Given("-h")
         /\ options.port = NumberOf(Given("-p"))
         /\ \A i \in DOMAIN line : line[i] = "-localip" => options.localip
<1>1. Len(line) \in Nat /\ ArgsRead = Len(line) /\ DOMAIN line = 1 .. Len(line)
  <2>1. Len(argv) = 0 /\ \A n \in Nat : n - 0 = n
    OBVIOUS
  <2> QED
    BY <2>1, Counts DEF ArgsRead, Progress
<1>2. PICK m, h, q, l \in 0 .. Len(line) :
        /\ LastOf(PlacesOf("-m"), m, Len(line)) /\ options.mode = ModeOf(ValueAt(m))
        /\ LastOf(PlacesOf("-h"), h, Len(line)) /\ options.addr = ValueAt(h)
        /\ LastOf(PlacesOf("-p"), q, Len(line)) /\ options.port = NumberOf(ValueAt(q))
        /\ LastOf(PlacesOf("-localip"), l, Len(line)) /\ (options.localip <=> l # 0)
  BY <1>1, OptionsWere
<1>3. Given("-m") = ValueAt(m) /\ Given("-h") = ValueAt(h) /\ Given("-p") = ValueAt(q)
  BY <1>2, GivenIs
<1>4. ASSUME NEW i \in 1 .. Len(line), line[i] = "-localip" PROVE options.localip
  <2>1. i \in PlacesOf("-localip") /\ ~(i > Len(line))
    BY <1>1, <1>4 DEF PlacesOf
  <2>2. l # 0
    BY <1>2, <2>1 DEF LastOf, PlacesOf
  <2> QED
    BY <1>2, <2>2
<1> QED
  BY <1>1, <1>2, <1>3, <1>4

\* What a careful command line gives with -m is a mode, or it gives none.
LEMMA GivenMode ==
  ASSUME Progress, OptionsStand, Careful, argv = <<>>
  PROVE  Given("-m") \in {NoText, "c", "s"}
<1>1. Len(line) \in Nat /\ DOMAIN line = 1 .. Len(line)
  BY Counts DEF Progress
<1>2. PICK m \in 0 .. Len(line) : LastOf(PlacesOf("-m"), m, Len(line))
  <2>1. ArgsRead = Len(line)
    <3>1. Len(argv) = 0 /\ \A n \in Nat : n - 0 = n
      OBVIOUS
    <3> QED
      BY <1>1, <3>1 DEF ArgsRead
  <2> QED
    BY <2>1, OptionsWere
<1>3. Given("-m") = ValueAt(m)
  BY <1>2, GivenIs
<1>4. CASE m \in 1 .. Len(line) - 1
  <2>1. m \in PlacesOf("-m")
    BY <1>2, <1>4 DEF LastOf
  <2> QED
    BY <1>1, <1>3, <1>4, <2>1 DEF ValueAt, PlacesOf, Careful
<1>5. CASE m \notin 1 .. Len(line) - 1
  BY <1>3, <1>5 DEF ValueAt
<1> QED
  BY <1>4, <1>5

\* A tunnel that runs does what it was told: options before the file, the last of
\* several before the others, and in the file nothing but a stray word behind the
\* last setting of a key overrules it.
THEOREM RunsAsToldHolds == Spec => []RunsAsTold
<1>1. StartupInv => RunsAsTold
  <2> SUFFICES ASSUME StartupInv, stage = "running", Careful
               PROVE  RunsAsTold
    BY DEF RunsAsTold
  <2>1. /\ Progress /\ OptionsStand /\ ItemsStand /\ ~Refuses /\ argv = <<>> /\ words = <<>>
        /\ link.mode = Mode /\ link.port = LinkPort(Port) /\ link.type = Type
        /\ link.mode = "client" => link.addr = Addr
    BY DEF StartupInv, LinkStands, Progress
  <2>2. /\ options.mode = ModeOf(Given("-m")) /\ options.addr = Given("-h")
        /\ options.port = NumberOf(Given("-p")) /\ Given("-m") \in {NoText, "c", "s"}
    BY <2>1, OptionsGiven, GivenMode
  <2>3. link.mode = ToldMode \/ (Given("-m") = NoText /\ Misread("mode"))
    <3>1. CASE Given("-m") # NoText
      BY <2>1, <2>2, <3>1, NoTextIs DEF Mode, ModeOf, ToldMode
    <3>2. CASE Given("-m") = NoText /\ ~Misread("mode")
      <4>1. ValueString("mode") = Written("mode")
        BY <2>1, <3>2, WrittenStands DEF ValueString, Settings
      <4> QED
        BY <2>1, <2>2, <3>2, <4>1, NoTextIs DEF Mode, ModeOf, ToldMode, Refuses
    <3> QED
      BY <3>1, <3>2
  <2>4. link.mode = "client" =>
          link.addr = ToldAddr \/ (Given("-h") = NoText /\ Misread("tunnelserveraddr"))
    <3>1. CASE Given("-h") # NoText
      BY <2>1, <2>2, <3>1 DEF Addr, ToldAddr
    <3>2. CASE Given("-h") = NoText /\ ~Misread("tunnelserveraddr")
      <4>1. ValueString("tunnelserveraddr") = Written("tunnelserveraddr")
        BY <2>1, <3>2, WrittenStands DEF ValueString, Settings
      <4> QED
        BY <2>1, <2>2, <3>2, <4>1 DEF Addr, ToldAddr
    <3> QED
      BY <3>1, <3>2
  <2>5. \/ ToldPort \in Ports => link.port = ToldPort /\ ToldPort # 0
        \/ NumberOf(Given("-p")) = 0 /\ Misread("tunnelserverport")
    <3>1. ~PortThrows /\ Port # 0 /\ Port \in Nat
      BY <2>1, Values DEF Refuses
    <3>2. CASE NumberOf(Given("-p")) # 0
      <4>1. Port = ToldPort
        BY <2>2, <3>2 DEF Port, ToldPort
      <4> QED
        BY <2>1, <3>1, <4>1, CutKeeps
    <3>3. CASE NumberOf(Given("-p")) = 0 /\ ~Misread("tunnelserverport")
      <4>1. /\ "tunnelserverport" \in DOMAIN items =>
                  items["tunnelserverport"] = Written("tunnelserverport")
            /\ "tunnelserverport" \notin DOMAIN items => Written("tunnelserverport") = NoText
        BY <2>1, <3>3, WrittenStands DEF Settings
      <4>2. Port = NumberOf(Written("tunnelserverport"))
        BY <2>2, <3>1, <3>3, <4>1, StartupAssumption
           DEF Port, PortThrows, IntThrows, ValueInt, NumberOf, StartupAssumption
      <4>3. Port = ToldPort
        BY <3>3, <4>2 DEF ToldPort
      <4> QED
        BY <2>1, <3>1, <4>3, CutKeeps
    <3> QED
      BY <3>2, <3>3
  <2>6. \/ /\ Written("type") = "udp" => link.type = "UDP"
           /\ Written("type") = "dtls" => link.type = "DTLS"
        \/ Misread("type")
    <3> SUFFICES ASSUME ~Misread("type")
                 PROVE  /\ Written("type") = "udp" => link.type = "UDP"
                        /\ Written("type") = "dtls" => link.type = "DTLS"
      OBVIOUS
    <3>1. ValueString("type") = Written("type")
      BY <2>1, WrittenStands DEF ValueString, Settings
    <3> QED
      BY <2>1, <3>1 DEF Type, TypeNames
  <2> QED
    BY <2>3, <2>4, <2>5, <2>6 DEF RunsAsTold
<1> QED
  BY <1>1, StartupInvariant, PTL

\* A tunnel that was told all it needs runs, unless a word of the file is misread.
THEOREM RefusesOnlyIncompleteHolds == Spec => []RefusesOnlyIncomplete
<1>1. StartupInv => RefusesOnlyIncomplete
  <2> SUFFICES ASSUME StartupInv, stage = "exit", Careful, Complete,
                      \A key \in Settings : ~Misread(key)
               PROVE  FALSE
    BY DEF RefusesOnlyIncomplete
  <2>1. Progress /\ OptionsStand /\ ItemsStand /\ Refuses /\ argv = <<>> /\ words = <<>>
    BY DEF StartupInv, ExitStands
  <2>2. /\ options.mode = ModeOf(Given("-m")) /\ options.addr = Given("-h")
        /\ options.port = NumberOf(Given("-p")) /\ Given("-m") \in {NoText, "c", "s"}
        /\ \A i \in DOMAIN line : line[i] = "-localip" => options.localip
    BY <2>1, OptionsGiven, GivenMode
  <2>3. \A key \in Settings : /\ key \in DOMAIN items => items[key] = Written(key)
                              /\ key \notin DOMAIN items => Written(key) = NoText
    BY <2>1, WrittenStands
  <2>4. /\ ValueString("mode") = Written("mode") /\ ValueString("type") = Written("type")
        /\ ValueString("tunnelserveraddr") = Written("tunnelserveraddr")
        /\ ValueString("localip") = Written("localip")
    BY <2>3 DEF ValueString, Settings
  <2>5. Mode = ToldMode /\ Mode # NoText
    <3>1. Mode = ToldMode
      BY <2>2, <2>4, NoTextIs DEF Mode, ModeOf, ToldMode, Complete
    <3> QED
      BY <3>1, NoTextIs DEF Complete
  <2>6. Type \in Built /\ Type # NoText
    <3>1. Type \in Built
      BY <2>4 DEF Type, TypeNames, Built, Complete
    <3> QED
      BY <3>1, NoTextIs DEF Built
  <2>7. ~(Mode = "client" /\ Addr = NoText)
    <3>1. Addr = ToldAddr
      BY <2>2, <2>4 DEF Addr, ToldAddr
    <3> QED
      BY <2>5, <3>1 DEF Complete
  <2>8. HasLocalIP
    BY <2>2, <2>4 DEF HasLocalIP, Complete
  <2>9. ~PortThrows /\ Port # 0
    <3>1. CASE NumberOf(Given("-p")) # 0
      BY <2>2, <3>1 DEF PortThrows, Port
    <3>2. CASE NumberOf(Given("-p")) = 0
      <4>1. /\ "tunnelserverport" \in DOMAIN items =>
                  items["tunnelserverport"] = Written("tunnelserverport")
            /\ "tunnelserverport" \notin DOMAIN items => Written("tunnelserverport") = NoText
        BY <2>3 DEF Settings
      <4>2. /\ Written("tunnelserverport") \in IntTexts
            /\ NumberOf(Written("tunnelserverport")) # 0
        BY <3>2 DEF Complete, ToldPort
      <4>3. /\ "tunnelserverport" \in DOMAIN items
            /\ items["tunnelserverport"] \in IntTexts
            /\ Numbers[items["tunnelserverport"]] # 0
        BY <4>1, <4>2, StartupAssumption DEF NumberOf, StartupAssumption
      <4> QED
        BY <2>2, <3>2, <4>3 DEF PortThrows, IntThrows, Port, ValueInt
    <3> QED
      BY <3>1, <3>2
  <2> QED
    BY <2>1, <2>5, <2>6, <2>7, <2>8, <2>9 DEF Refuses
<1> QED
  BY <1>1, StartupInvariant, PTL
=============================================================================
