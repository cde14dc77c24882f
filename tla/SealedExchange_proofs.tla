------------------------ MODULE SealedExchange_proofs ------------------------
(***************************************************************************)
(* Theorems about CommandLine, Envelopes and SealedExchange, for any       *)
(* command lines, devices and answers: a line is read as what it says as a *)
(* whole, what is sealed is opened by whom it is meant for, whatever order *)
(* the wraps come in, and so a message is shown and answered as it was     *)
(* typed.                                                                  *)
(***************************************************************************)
EXTENDS SealedExchange, NaturalsInduction, WellFoundedInduction, SequenceTheorems,
        FiniteSetTheorems, TLAPS

-----------------------------------------------------------------------------
(* Natural numbers *)

\* A set of natural numbers that is not empty has a least element.
LEMMA Least ==
  ASSUME NEW T, T \subseteq Nat, T # {}
  PROVE  \E x \in T : \A y \in T : x <= y
<1> DEFINE Below == OpToRel(<, Nat)
<1>1. PICK x \in T : \A y \in T : ~(<<y, x>> \in Below)
  BY NatLessThanWellFounded, WFMin
<1>2. \A y, z \in Nat : y < z => <<y, z>> \in Below
  <2> SUFFICES ASSUME NEW y \in Nat, NEW z \in Nat, y < z PROVE <<y, z>> \in Below
    OBVIOUS
  <2>1. <<y, z>> \in Nat \X Nat /\ <<y, z>>[1] < <<y, z>>[2]
    OBVIOUS
  <2> QED  BY <2>1, Zenon DEF OpToRel
<1> HIDE DEF Below
<1>3. \A y \in T : x <= y
  <2> SUFFICES ASSUME NEW y \in T PROVE x <= y
    OBVIOUS
  <2>1. y \in Nat /\ x \in Nat /\ ~(y < x)
    BY <1>1, <1>2
  <2> QED  BY <2>1
<1> QED  BY <1>3

\* A set that holds 0 and the next of each number it holds has all numbers.
LEMMA AllNumbers ==
  ASSUME NEW S, 0 \in S, \A n \in Nat : n \in S => n + 1 \in S
  PROVE  \A n \in Nat : n \in S
<1> SUFFICES ASSUME Nat \ S # {} PROVE FALSE
  OBVIOUS
<1>1. PICK x \in Nat \ S : \A y \in Nat \ S : x <= y
  BY Least
<1>2. x # 0 /\ x - 1 \in Nat
  BY <1>1
<1>3. x - 1 \in S
  BY <1>1, <1>2
<1>4. x \in S
  BY <1>2, <1>3
<1> QED  BY <1>1, <1>4

\* The first and the last place of a set of places.
LEMMA MinMax ==
  ASSUME NEW n \in Nat, NEW T, T \subseteq 1..n, T # {}
  PROVE  /\ Min(T) \in T /\ \A i \in T : Min(T) <= i
         /\ Max(T) \in T /\ \A i \in T : i <= Max(T)
<1>0. T \subseteq Nat /\ \A i \in T : i \in Nat /\ i <= n /\ n - i \in Nat
  <2>1. \A i \in T : i \in 1..n
    OBVIOUS
  <2>2. \A i \in 1..n : i \in Nat /\ i <= n /\ n - i \in Nat
    OBVIOUS
  <2> QED  BY <2>1, <2>2
<1>1. \E x \in T : \A y \in T : x <= y
  BY <1>0, Least
<1>2. \E x \in T : \A y \in T : x >= y
  <2> DEFINE U == {n - i : i \in T}
  <2>1. U \subseteq Nat /\ U # {}
    BY <1>0
  <2> HIDE DEF U
  <2>2. PICK u \in U : \A v \in U : u <= v
    BY <2>1, Least
  <2>3. PICK x \in T : u = n - x
    BY <2>2 DEF U
  <2>4. \A y \in T : n - y \in U
    BY DEF U
  <2>5. \A y \in T : x >= y
    <3> SUFFICES ASSUME NEW y \in T PROVE x >= y
      OBVIOUS
    <3>1. n - x <= n - y /\ x \in Nat /\ y \in Nat
      BY <1>0, <2>2, <2>3, <2>4
    <3> QED  BY <3>1
  <2> QED  BY <2>5
<1>3. Min(T) \in T /\ \A y \in T : Min(T) <= y
  BY <1>1 DEF Min
<1>4. Max(T) \in T /\ \A y \in T : Max(T) >= y
  BY <1>2 DEF Max
<1> QED  BY <1>0, <1>3, <1>4

-----------------------------------------------------------------------------
(* The loop of parseArgs *)

\* What ReadArg looks ahead to.
NextOf(argv, i) == IF i < Len(argv) THEN argv[i + 1] ELSE [kind |-> "none"]

\* g holds what has been read after each of the first n arguments.
Reading(argv, n, g) ==
    g = [i \in 0..n |-> IF i = 0 THEN Nothing
                        ELSE ReadArg(g[i - 1], argv[i], NextOf(argv, i))]

\* The loop can be run on any number of arguments.
LEMMA ReadingExists ==
  ASSUME NEW argv PROVE \A n \in Nat : \E g : Reading(argv, n, g)
<1> DEFINE S == {n \in Nat : \E g : Reading(argv, n, g)}
<1>1. 0 \in S
  <2> DEFINE g == [i \in 0..0 |-> Nothing]
  <2>1. Reading(argv, 0, g)
    BY DEF Reading
  <2> QED  BY <2>1
<1>2. ASSUME NEW n \in Nat, n \in S PROVE n + 1 \in S
  <2>1. PICK g : Reading(argv, n, g)
    BY <1>2
  <2> DEFINE h == [i \in 0..(n + 1) |->
                     IF i = n + 1 THEN ReadArg(g[n], argv[n + 1], NextOf(argv, n + 1)) ELSE g[i]]
  <2>2. \A i \in 0..n : h[i] = g[i]
    OBVIOUS
  <2>3. \A i \in 0..n : g[i] = IF i = 0 THEN Nothing
                               ELSE ReadArg(g[i - 1], argv[i], NextOf(argv, i))
    BY <2>1 DEF Reading
  <2>4. \A i \in 0..(n + 1) : h[i] = IF i = 0 THEN Nothing
                                     ELSE ReadArg(h[i - 1], argv[i], NextOf(argv, i))
    <3> SUFFICES ASSUME NEW i \in 0..(n + 1)
                 PROVE  h[i] = IF i = 0 THEN Nothing
                               ELSE ReadArg(h[i - 1], argv[i], NextOf(argv, i))
      OBVIOUS
    <3>1. CASE i = n + 1
      <4>1. h[n] = g[n] /\ n \in 0..n /\ i - 1 = n /\ i # 0
        BY <2>2, <3>1
      <4>2. h[i] = ReadArg(g[n], argv[n + 1], NextOf(argv, n + 1))
        BY <3>1
      <4> QED  BY <3>1, <4>1, <4>2
    <3>2. CASE i \in 0..n
      <4>1. h[i] = g[i]
        BY <2>2, <3>2
      <4>2. i # 0 => i - 1 \in 0..n /\ h[i - 1] = g[i - 1]
        BY <2>2, <3>2
      <4> HIDE DEF h
      <4> QED  BY <2>3, <3>2, <4>1, <4>2
    <3> QED  BY <3>1, <3>2
  <2>5. h = [i \in 0..(n + 1) |-> h[i]]
    OBVIOUS
  <2> HIDE DEF h
  <2>6. Reading(argv, n + 1, h)
    BY <2>4, <2>5 DEF Reading
  <2> QED  BY <2>6
<1> HIDE DEF S
<1>3. \A n \in Nat : n \in S
  BY <1>1, <1>2, AllNumbers
<1> QED  BY <1>3 DEF S

\* ParseArgs is what the loop has read at the end of the line.
LEMMA ParseArgsReads ==
  ASSUME NEW argv, Len(argv) \in Nat
  PROVE  \E g : /\ ParseArgs(argv) = g[Len(argv)]
                /\ g[0] = Nothing
                /\ \A i \in 1..Len(argv) :
                      g[i] = ReadArg(g[i - 1], argv[i], NextOf(argv, i))
<1> DEFINE g == CHOOSE r : Reading(argv, Len(argv), r)
<1>1. Reading(argv, Len(argv), g)
  BY ReadingExists
<1>2. ParseArgs(argv) = g[Len(argv)]
  BY Zenon DEF ParseArgs, Reading, NextOf
<1> HIDE DEF g
<1>3. \A i \in 0..Len(argv) : g[i] = IF i = 0 THEN Nothing
                                     ELSE ReadArg(g[i - 1], argv[i], NextOf(argv, i))
  BY <1>1 DEF Reading
<1>4. g[0] = Nothing /\ \A i \in 1..Len(argv) :
                           g[i] = ReadArg(g[i - 1], argv[i], NextOf(argv, i))
  BY <1>3
<1> QED  BY <1>2, <1>4

-----------------------------------------------------------------------------
(* What has been read after k arguments *)

\* A flag that stands alone, or takes the next argument, at place i.
FlagAt(argv, i) == i \in Flags(argv) /\ argv[i].kind = "flag"

\* Each flag that has been mentioned has what its last mention so far gives it.
FlagsRead(argv, k, flags) ==
    /\ flags = [name \in DOMAIN flags |-> flags[name]]
    /\ \A name \in DOMAIN flags : \E i \in Mentions(argv, name) :
          /\ i <= k /\ flags[name] = GivenAt(argv, i)
          /\ \A j \in Mentions(argv, name) : j <= k => j <= i
    /\ \A i \in Flags(argv) : i <= k => argv[i].name \in DOMAIN flags

\* The command begins with the first text that can be one.
CommandRead(argv, k, command) ==
    /\ command \in Seq({argv[i].text : i \in DOMAIN argv})
    /\ command = <<>> => \A i \in Commands(argv) : i > k
    /\ command # <<>> => \E i \in Commands(argv) : /\ command[1] = argv[i].text
                                                   /\ \A j \in Commands(argv) : i <= j

Shape(p) ==
    /\ p = [command |-> p.command, flags |-> p.flags, positional |-> p.positional,
            commandDone |-> p.commandDone, taken |-> p.taken, ended |-> p.ended]
    /\ p.ended \in BOOLEAN /\ p.taken \in BOOLEAN /\ p.commandDone \in BOOLEAN

ReadTo(argv, k, p) ==
    /\ Shape(p)
    /\ p.ended <=> \E j \in 1..k : argv[j].kind = "end"
    /\ p.taken <=> FlagAt(argv, k) /\ k < Len(argv) /\ argv[k + 1].kind = "word"
    /\ p.commandDone <=> \E j \in 1..k : FlagAt(argv, j)
    /\ FlagsRead(argv, k, p.flags)
    /\ CommandRead(argv, k, p.command)

\* Nothing has been read of no arguments.
LEMMA NothingRead ==
  ASSUME NEW argv, Len(argv) \in Nat, DOMAIN argv = 1..Len(argv)
  PROVE  ReadTo(argv, 0, Nothing)
<1>1. Flags(argv) \subseteq 1..Len(argv) /\ Commands(argv) \subseteq 1..Len(argv)
  BY DEF Flags, Commands
<1>2. ~FlagAt(argv, 0) /\ 1..0 = {}
  BY <1>1 DEF FlagAt
<1>3. FlagsRead(argv, 0, Nothing.flags)
  <2>1. DOMAIN Nothing.flags = {} /\ Nothing.flags = [name \in DOMAIN Nothing.flags |-> Nothing.flags[name]]
    BY DEF Nothing
  <2>2. \A i \in Flags(argv) : ~(i <= 0)
    BY <1>1
  <2> QED  BY <2>1, <2>2 DEF FlagsRead
<1>4. CommandRead(argv, 0, Nothing.command)
  <2>1. Nothing.command = <<>>
    BY DEF Nothing
  <2>2. \A i \in Commands(argv) : i > 0
    BY <1>1
  <2> QED  BY <2>1, <2>2 DEF CommandRead
<1>5. /\ Nothing = [command |-> Nothing.command, flags |-> Nothing.flags,
                    positional |-> Nothing.positional, commandDone |-> Nothing.commandDone,
                    taken |-> Nothing.taken, ended |-> Nothing.ended]
      /\ Nothing.ended = FALSE /\ Nothing.taken = FALSE /\ Nothing.commandDone = FALSE
  BY DEF Nothing
<1> QED  BY <1>2, <1>3, <1>4, <1>5 DEF ReadTo, Shape

\* A turn of the loop that mentions no flag leaves what is known of the flags.
LEMMA FlagsKept ==
  ASSUME NEW argv, DOMAIN argv = 1..Len(argv), Len(argv) \in Nat, NEW k \in Nat, NEW flags,
         FlagsRead(argv, k, flags), k + 1 \notin Flags(argv)
  PROVE  FlagsRead(argv, k + 1, flags)
<1>1. \A i \in Flags(argv) : i \in Nat
  BY DEF Flags
<1>2. \A i \in Flags(argv) : i <= k + 1 => i <= k
  BY <1>1
<1>3. \A name : Mentions(argv, name) \subseteq Flags(argv)
  BY DEF Mentions
<1>4. ASSUME NEW name \in DOMAIN flags
      PROVE  \E i \in Mentions(argv, name) :
               /\ i <= k + 1 /\ flags[name] = GivenAt(argv, i)
               /\ \A j \in Mentions(argv, name) : j <= k + 1 => j <= i
  <2>1. PICK i \in Mentions(argv, name) :
               /\ i <= k /\ flags[name] = GivenAt(argv, i)
               /\ \A j \in Mentions(argv, name) : j <= k => j <= i
    BY DEF FlagsRead
  <2>2. i <= k + 1
    BY <1>1, <1>3, <2>1
  <2>3. \A j \in Mentions(argv, name) : j <= k + 1 => j <= i
    BY <1>2, <1>3, <2>1
  <2> QED  BY <2>1, <2>2, <2>3
<1> QED  BY <1>2, <1>4 DEF FlagsRead

\* A turn of the loop that mentions a flag gives it what the mention says.
LEMMA FlagsSet ==
  ASSUME NEW argv, DOMAIN argv = 1..Len(argv), Len(argv) \in Nat, NEW k \in Nat, NEW flags,
         FlagsRead(argv, k, flags), k + 1 \in Flags(argv)
  PROVE  FlagsRead(argv, k + 1, SetFlag(flags, argv[k + 1].name, GivenAt(argv, k + 1)))
<1> DEFINE name == argv[k + 1].name
           set == SetFlag(flags, name, GivenAt(argv, k + 1))
<1>1. \A i \in Flags(argv) : i \in Nat
  BY DEF Flags
<1>2. /\ set = [n \in DOMAIN set |-> set[n]]
      /\ DOMAIN set = DOMAIN flags \cup {name}
      /\ set[name] = GivenAt(argv, k + 1)
      /\ \A n \in DOMAIN flags : n # name => set[n] = flags[n]
  BY DEF SetFlag
<1>3. \A n : Mentions(argv, n) \subseteq Flags(argv)
  BY DEF Mentions
<1>4. k + 1 \in Mentions(argv, name)
  BY DEF Mentions
<1>5. \A n : n # name => k + 1 \notin Mentions(argv, n)
  BY DEF Mentions
<1> HIDE DEF name, set
<1>6. ASSUME NEW n \in DOMAIN set
      PROVE  \E i \in Mentions(argv, n) :
               /\ i <= k + 1 /\ set[n] = GivenAt(argv, i)
               /\ \A j \in Mentions(argv, n) : j <= k + 1 => j <= i
  <2>1. CASE n = name
    BY <1>2, <1>4, <2>1
  <2>2. CASE n # name
    <3>1. n \in DOMAIN flags /\ set[n] = flags[n]
      BY <1>2, <2>2
    <3>2. PICK i \in Mentions(argv, n) :
               /\ i <= k /\ flags[n] = GivenAt(argv, i)
               /\ \A j \in Mentions(argv, n) : j <= k => j <= i
      BY <3>1 DEF FlagsRead
    <3>3. i <= k + 1
      BY <1>1, <1>3, <3>2
    <3>4. \A j \in Mentions(argv, n) : j <= k + 1 => j <= k
      BY <1>1, <1>3, <1>5, <2>2
    <3> QED  BY <3>1, <3>2, <3>3, <3>4
  <2> QED  BY <2>1, <2>2
<1>7. \A i \in Flags(argv) : i <= k + 1 => argv[i].name \in DOMAIN set
  <2> SUFFICES ASSUME NEW i \in Flags(argv), i <= k + 1 PROVE argv[i].name \in DOMAIN set
    OBVIOUS
  <2>1. CASE i = k + 1
    BY <1>2, <2>1 DEF name
  <2>2. CASE i <= k
    BY <1>2, <2>2 DEF FlagsRead
  <2> QED  BY <1>1, <2>1, <2>2
<1>8. FlagsRead(argv, k + 1, set)
  BY <1>2, <1>6, <1>7 DEF FlagsRead
<1> QED  BY <1>8 DEF set, name

\* A turn of the loop that reads no command leaves what is known of the command.
LEMMA CommandKept ==
  ASSUME NEW argv, DOMAIN argv = 1..Len(argv), Len(argv) \in Nat, NEW k \in Nat, NEW command,
         CommandRead(argv, k, command), k + 1 \notin Commands(argv)
  PROVE  CommandRead(argv, k + 1, command)
<1>1. \A i \in Commands(argv) : i \in Nat
  BY DEF Commands
<1>2. \A i \in Commands(argv) : i > k => i > k + 1
  BY <1>1
<1> QED  BY <1>2 DEF CommandRead

\* Once the command has begun, what is behind it does not change its beginning.
LEMMA CommandFull ==
  ASSUME NEW argv, NEW k \in Nat, NEW command, CommandRead(argv, k, command), command # <<>>
  PROVE  CommandRead(argv, k + 1, command)
BY DEF CommandRead

\* A turn of the loop that reads a text for the command adds it.
LEMMA CommandGrows ==
  ASSUME NEW argv, DOMAIN argv = 1..Len(argv), Len(argv) \in Nat, NEW k \in Nat, NEW command,
         CommandRead(argv, k, command), k + 1 \in Commands(argv)
  PROVE  CommandRead(argv, k + 1, Append(command, argv[k + 1].text))
<1> DEFINE text == argv[k + 1].text
           Text == {argv[i].text : i \in DOMAIN argv}
           more == Append(command, text)
<1>1. \A i \in Commands(argv) : i \in Nat
  BY DEF Commands
<1>2. command \in Seq(Text) /\ text \in Text
  BY DEF CommandRead, Commands
<1> HIDE DEF text, Text, more
<1>3. /\ more \in Seq(Text) /\ more # <<>>
      /\ command = <<>> => more[1] = text
      /\ command # <<>> => more[1] = command[1]
  <2>1. /\ more \in Seq(Text) /\ Len(more) = Len(command) + 1
        /\ \A i \in 1..Len(command) : more[i] = command[i]
        /\ more[Len(command) + 1] = text
    BY <1>2, AppendProperties DEF more
  <2>2. Len(command) \in Nat /\ (command = <<>> <=> Len(command) = 0)
    BY <1>2, EmptySeq
  <2>3. more # <<>>
    BY <2>1, <2>2
  <2> QED  BY <2>1, <2>2, <2>3
<1>4. \E i \in Commands(argv) : more[1] = argv[i].text /\ \A j \in Commands(argv) : i <= j
  <2>1. CASE command = <<>>
    <3>1. \A j \in Commands(argv) : k + 1 <= j
      <4>1. \A j \in Commands(argv) : j > k
        BY <2>1 DEF CommandRead
      <4> QED  BY <1>1, <4>1
    <3> QED  BY <1>3, <2>1, <3>1 DEF text
  <2>2. CASE command # <<>>
    BY <1>3, <2>2 DEF CommandRead
  <2> QED  BY <2>1, <2>2
<1> QED  BY <1>3, <1>4 DEF CommandRead, Text, more, text

\* One turn of the loop.
LEMMA TurnReads ==
  ASSUME NEW argv, DOMAIN argv = 1..Len(argv), Len(argv) \in Nat,
         NEW k \in Nat, k < Len(argv), NEW p, ReadTo(argv, k, p)
  PROVE  ReadTo(argv, k + 1, ReadArg(p, argv[k + 1], NextOf(argv, k + 1)))
<1> DEFINE arg == argv[k + 1]
           next == NextOf(argv, k + 1)
           q == ReadArg(p, arg, next)
           Live == \A j \in 1..k : argv[j].kind # "end"
           NoFlag == \A j \in 1..k : argv[j].kind # "flag"
<1>1. k + 1 \in DOMAIN argv /\ 1..((k + 1) - 1) = 1..k /\ 1..(k + 1) = 1..k \cup {k + 1}
  OBVIOUS
<1>2. k + 1 \in Flags(argv) <=> arg.kind \in {"flag", "inline"} /\ Live
  BY <1>1 DEF Flags
<1>3. k + 1 \in Commands(argv) <=>
         arg.kind \notin {"empty", "end", "inline", "flag"} /\ Live /\ NoFlag
  BY <1>1 DEF Commands
<1>4. FlagAt(argv, k + 1) <=> arg.kind = "flag" /\ Live
  BY <1>2 DEF FlagAt
<1>5. TakesNext(next) <=> k + 1 < Len(argv) /\ argv[(k + 1) + 1].kind = "word"
  BY DEF TakesNext, NextOf
<1>6. p.ended <=> ~Live
  BY DEF ReadTo
<1>7. p.taken => arg.kind = "word" /\ Live /\ ~NoFlag
  <2>1. p.taken => FlagAt(argv, k) /\ argv[k + 1].kind = "word"
    BY DEF ReadTo
  <2>2. FlagAt(argv, k) => /\ k \in 1..k /\ argv[k].kind = "flag"
                           /\ \A j \in 1..(k - 1) : argv[j].kind # "end"
    BY DEF FlagAt, Flags
  <2>3. \A j \in 1..k : j \in 1..(k - 1) \/ j = k
    OBVIOUS
  <2> QED  BY <2>1, <2>2, <2>3
<1>8. Live => (p.commandDone <=> ~NoFlag)
  <2>1. Live => \A j \in 1..k : argv[j].kind = "flag" => j \in Flags(argv)
    <3> SUFFICES ASSUME Live, NEW j \in 1..k, argv[j].kind = "flag" PROVE j \in Flags(argv)
      OBVIOUS
    <3>1. j \in DOMAIN argv /\ \A l \in 1..(j - 1) : l \in 1..k
      OBVIOUS
    <3> QED  BY <3>1 DEF Flags
  <2> QED  BY <2>1 DEF ReadTo, FlagAt
<1>9. GivenAt(argv, k + 1) = IF arg.kind = "inline" THEN UpToEquals(arg.text)
                             ELSE IF TakesNext(next) THEN next.text ELSE TRUE
  BY <1>5 DEF GivenAt, NextOf
<1>10. /\ Shape(p)
       /\ p = [command |-> p.command, flags |-> p.flags, positional |-> p.positional,
               commandDone |-> p.commandDone, taken |-> p.taken, ended |-> p.ended]
       /\ p.ended \in BOOLEAN /\ p.taken \in BOOLEAN /\ p.commandDone \in BOOLEAN
       /\ FlagsRead(argv, k, p.flags) /\ CommandRead(argv, k, p.command)
       /\ p.commandDone <=> \E j \in 1..k : FlagAt(argv, j)
  BY DEF ReadTo, Shape
<1>11. TakesNext(next) \in BOOLEAN
  BY DEF TakesNext
<1> SUFFICES ReadTo(argv, k + 1, q)
  OBVIOUS
<1> HIDE DEF arg, next, q, Live, NoFlag
\* What is left to show of what the turn leaves.
<1>12. ASSUME NEW r, Shape(r),
              r.ended <=> ~Live \/ arg.kind = "end",
              r.taken <=> FlagAt(argv, k + 1) /\ TakesNext(next),
              r.commandDone <=> p.commandDone \/ FlagAt(argv, k + 1),
              FlagsRead(argv, k + 1, r.flags), CommandRead(argv, k + 1, r.command)
       PROVE  ReadTo(argv, k + 1, r)
  <2>1. r.ended <=> \E j \in 1..(k + 1) : argv[j].kind = "end"
    BY <1>1, <1>12 DEF Live, arg
  <2>2. r.commandDone <=> \E j \in 1..(k + 1) : FlagAt(argv, j)
    BY <1>1, <1>10, <1>12
  <2>3. r.taken <=> FlagAt(argv, k + 1) /\ k + 1 < Len(argv) /\ argv[(k + 1) + 1].kind = "word"
    BY <1>5, <1>12
  <2> QED  BY <1>12, <2>1, <2>2, <2>3 DEF ReadTo
<1>13. CASE p.taken
  <2>1. q = [p EXCEPT !.taken = FALSE]
    BY <1>13 DEF q, ReadArg
  <2>2. /\ q.ended = p.ended /\ q.taken = FALSE /\ q.commandDone = p.commandDone
        /\ q.flags = p.flags /\ q.command = p.command /\ Shape(q)
    BY <1>10, <2>1 DEF Shape
  <2>3. ~FlagAt(argv, k + 1) /\ k + 1 \notin Flags(argv) /\ k + 1 \notin Commands(argv)
        /\ q.ended = FALSE /\ Live /\ arg.kind # "end"
    BY <1>2, <1>3, <1>4, <1>6, <1>7, <1>10, <1>13, <2>2
  <2> QED  BY <2>2, <2>3, <1>10, <1>12, FlagsKept, CommandKept
<1>14. CASE ~p.taken /\ p.ended
  <2>1. q = [p EXCEPT !.positional = Append(@, arg.text)]
    BY <1>14 DEF q, ReadArg
  <2>2. q.ended = p.ended /\ q.taken = FALSE /\ q.commandDone = p.commandDone
        /\ q.flags = p.flags /\ q.command = p.command /\ Shape(q)
    BY <1>10, <1>14, <2>1 DEF Shape
  <2>3. ~FlagAt(argv, k + 1) /\ k + 1 \notin Flags(argv) /\ k + 1 \notin Commands(argv)
    BY <1>2, <1>3, <1>4, <1>6, <1>14
  <2>4. q.ended <=> ~Live \/ arg.kind = "end"
    BY <1>6, <1>14, <2>2
  <2> QED  BY <2>2, <2>3, <2>4, <1>10, <1>12, FlagsKept, CommandKept
<1>15. CASE ~p.taken /\ ~p.ended /\ arg.kind = "empty"
  <2>1. q = p
    BY <1>15 DEF q, ReadArg
  <2>2. q.ended = p.ended /\ q.taken = FALSE /\ q.commandDone = p.commandDone
        /\ q.flags = p.flags /\ q.command = p.command /\ Shape(q)
    BY <1>10, <1>15, <2>1
  <2>3. ~FlagAt(argv, k + 1) /\ k + 1 \notin Flags(argv) /\ k + 1 \notin Commands(argv)
        /\ arg.kind # "end"
    BY <1>2, <1>3, <1>4, <1>15
  <2> QED  BY <2>2, <2>3, <1>6, <1>10, <1>12, FlagsKept, CommandKept
<1>16. CASE ~p.taken /\ ~p.ended /\ arg.kind = "end"
  <2>1. q = [p EXCEPT !.ended = TRUE]
    BY <1>16 DEF q, ReadArg
  <2>2. q.ended = TRUE /\ q.taken = FALSE /\ q.commandDone = p.commandDone
        /\ q.flags = p.flags /\ q.command = p.command /\ Shape(q)
    BY <1>10, <1>16, <2>1 DEF Shape
  <2>3. ~FlagAt(argv, k + 1) /\ k + 1 \notin Flags(argv) /\ k + 1 \notin Commands(argv)
    BY <1>2, <1>3, <1>4, <1>16
  <2> QED  BY <2>2, <2>3, <1>10, <1>12, <1>16, FlagsKept, CommandKept
<1>17. CASE ~p.taken /\ ~p.ended /\ arg.kind = "inline"
  <2>1. q = [p EXCEPT !.flags = SetFlag(@, arg.name, UpToEquals(arg.text))]
    BY <1>17 DEF q, ReadArg
  <2>2. q.ended = p.ended /\ q.taken = FALSE /\ q.commandDone = p.commandDone
        /\ q.flags = SetFlag(p.flags, arg.name, GivenAt(argv, k + 1))
        /\ q.command = p.command /\ Shape(q)
    BY <1>9, <1>10, <1>17, <2>1 DEF Shape
  <2>3. ~FlagAt(argv, k + 1) /\ k + 1 \in Flags(argv) /\ k + 1 \notin Commands(argv)
        /\ arg.kind # "end"
    BY <1>2, <1>3, <1>4, <1>6, <1>17
  <2>4. FlagsRead(argv, k + 1, q.flags)
    BY <1>10, <2>2, <2>3, FlagsSet DEF arg
  <2> QED  BY <2>2, <2>3, <2>4, <1>6, <1>10, <1>12, CommandKept
<1>18. CASE ~p.taken /\ ~p.ended /\ arg.kind = "flag"
  <2> DEFINE value == IF TakesNext(next) THEN next.text ELSE TRUE
  <2>1. q = [p EXCEPT !.flags = SetFlag(@, arg.name, value), !.taken = TakesNext(next),
                      !.commandDone = TRUE]
    BY <1>18 DEF q, ReadArg
  <2>2. value = GivenAt(argv, k + 1)
    BY <1>9, <1>18
  <2> HIDE DEF value
  <2>3. q.ended = p.ended /\ q.taken = TakesNext(next) /\ q.commandDone = TRUE
        /\ q.flags = SetFlag(p.flags, arg.name, GivenAt(argv, k + 1))
        /\ q.command = p.command /\ Shape(q)
    BY <1>10, <1>11, <2>1, <2>2 DEF Shape
  <2>4. FlagAt(argv, k + 1) /\ k + 1 \in Flags(argv) /\ k + 1 \notin Commands(argv)
        /\ arg.kind # "end"
    BY <1>2, <1>3, <1>4, <1>6, <1>18
  <2>5. FlagsRead(argv, k + 1, q.flags)
    BY <1>10, <2>3, <2>4, FlagsSet DEF arg
  <2> QED  BY <2>3, <2>4, <2>5, <1>5, <1>6, <1>10, <1>12, CommandKept
<1>19. CASE ~p.taken /\ ~p.ended /\ arg.kind \notin {"empty", "end", "inline", "flag"}
  <2>1. q = IF ~p.commandDone /\ Len(p.command) < 2
            THEN [p EXCEPT !.command = Append(@, arg.text)]
            ELSE [p EXCEPT !.positional = Append(@, arg.text)]
    BY <1>19 DEF q, ReadArg
  <2>2. q.ended = p.ended /\ q.taken = FALSE /\ q.commandDone = p.commandDone
        /\ q.flags = p.flags /\ Shape(q)
    BY <1>10, <1>19, <2>1 DEF Shape
  <2>3. ~FlagAt(argv, k + 1) /\ k + 1 \notin Flags(argv) /\ arg.kind # "end"
        /\ (k + 1 \in Commands(argv) <=> ~p.commandDone)
    BY <1>2, <1>3, <1>4, <1>6, <1>8, <1>19
  <2>4. CommandRead(argv, k + 1, q.command)
    <3>1. CASE ~p.commandDone /\ Len(p.command) < 2
      <4>1. q.command = Append(p.command, arg.text)
        BY <1>10, <2>1, <3>1
      <4> QED  BY <1>10, <2>3, <3>1, <4>1, CommandGrows DEF arg
    <3>2. CASE ~p.commandDone /\ ~(Len(p.command) < 2)
      <4>1. q.command = p.command /\ p.command # <<>>
        <5>1. Len(<<>>) = 0
          OBVIOUS
        <5> QED  BY <1>10, <2>1, <3>2, <5>1
      <4> QED  BY <1>10, <4>1, CommandFull
    <3>3. CASE p.commandDone
      <4>1. q.command = p.command
        BY <1>10, <2>1, <3>3
      <4> QED  BY <1>10, <2>3, <3>3, <4>1, CommandKept
    <3> QED  BY <3>1, <3>2, <3>3
  <2> QED  BY <2>2, <2>3, <2>4, <1>6, <1>10, <1>12, FlagsKept
<1> QED  BY <1>13, <1>14, <1>15, <1>16, <1>17, <1>18, <1>19

\* What ParseArgs leaves has read the whole line.
LEMMA LineRead ==
  ASSUME NEW argv, DOMAIN argv = 1..Len(argv), Len(argv) \in Nat
  PROVE  ReadTo(argv, Len(argv), ParseArgs(argv))
<1>1. PICK g : /\ ParseArgs(argv) = g[Len(argv)] /\ g[0] = Nothing
               /\ \A i \in 1..Len(argv) : g[i] = ReadArg(g[i - 1], argv[i], NextOf(argv, i))
  BY ParseArgsReads
<1> DEFINE S == {k \in Nat : k > Len(argv) \/ ReadTo(argv, k, g[k])}
<1>2. 0 \in S
  BY <1>1, NothingRead
<1>3. ASSUME NEW k \in Nat, k \in S PROVE k + 1 \in S
  <2>1. CASE k >= Len(argv)
    BY <2>1
  <2>2. CASE k < Len(argv)
    <3>1. ReadTo(argv, k, g[k])
      BY <1>3, <2>2
    <3>2. g[k + 1] = ReadArg(g[k], argv[k + 1], NextOf(argv, k + 1))
      <4>1. k + 1 \in 1..Len(argv) /\ (k + 1) - 1 = k
        BY <2>2
      <4> QED  BY <1>1, <4>1
    <3>3. ReadTo(argv, k + 1, g[k + 1])
      BY <2>2, <3>1, <3>2, TurnReads
    <3> QED  BY <3>3
  <2> QED  BY <2>1, <2>2
<1> HIDE DEF S
<1>4. \A k \in Nat : k \in S
  BY <1>2, <1>3, AllNumbers
<1>5. Len(argv) \in S
  BY <1>4
<1>6. ReadTo(argv, Len(argv), g[Len(argv)])
  BY <1>5 DEF S
<1> QED  BY <1>1, <1>6

-----------------------------------------------------------------------------
(* The reading of a line is what it says *)

\* parseArgs: on a line of any length, each flag that is mentioned before "--" has what
\* its last mention gives it, and no other flag is there.
THEOREM FlagsAreSaid ==
  ASSUME NEW S, NEW argv \in Seq(S) PROVE ParseArgs(argv).flags = SaidFlags(argv)
<1> DEFINE flags == ParseArgs(argv).flags
           n == Len(argv)
           said == {argv[i].name : i \in Flags(argv)}
<1>1. DOMAIN argv = 1..n /\ n \in Nat
  OBVIOUS
<1>2. FlagsRead(argv, n, flags)
  BY <1>1, LineRead DEF ReadTo
<1>3. Flags(argv) \subseteq 1..n /\ \A name : Mentions(argv, name) \subseteq Flags(argv)
  BY <1>1 DEF Flags, Mentions
<1>4. \A i \in Flags(argv) : i \in Nat /\ i <= n
  BY <1>1, <1>3
<1> HIDE DEF flags
<1>5. DOMAIN flags = said
  <2>1. \A name \in DOMAIN flags : \E i \in Mentions(argv, name) : TRUE
    BY <1>2 DEF FlagsRead
  <2>2. \A name \in DOMAIN flags : name \in said
    BY <2>1 DEF Mentions
  <2>3. \A i \in Flags(argv) : argv[i].name \in DOMAIN flags
    BY <1>2, <1>4 DEF FlagsRead
  <2> QED  BY <2>2, <2>3
<1>6. ASSUME NEW name \in DOMAIN flags
      PROVE  flags[name] = GivenAt(argv, Max(Mentions(argv, name)))
  <2>1. PICK i \in Mentions(argv, name) :
               /\ flags[name] = GivenAt(argv, i)
               /\ \A j \in Mentions(argv, name) : j <= n => j <= i
    BY <1>2 DEF FlagsRead
  <2>2. Mentions(argv, name) \subseteq 1..n /\ Mentions(argv, name) # {}
    BY <1>3, <2>1
  <2> DEFINE last == Max(Mentions(argv, name))
  <2>3. last \in Mentions(argv, name) /\ \A j \in Mentions(argv, name) : j <= last
    BY <1>1, <2>2, MinMax
  <2> HIDE DEF last
  <2>4. last <= i /\ i <= last /\ last \in Nat /\ i \in Nat
    BY <1>3, <1>4, <2>1, <2>3
  <2>5. last = i
    BY <2>4
  <2> QED  BY <2>1, <2>5 DEF last
<1>7. flags = [name \in DOMAIN flags |-> flags[name]]
  BY <1>2 DEF FlagsRead
<1>8. flags = [name \in said |-> GivenAt(argv, Max(Mentions(argv, name)))]
  BY <1>5, <1>6, <1>7
<1> QED  BY <1>8 DEF flags, SaidFlags

\* runCli, of the commands that send: from a line of any length it sends what the line
\* says, and nothing when the line says nothing that can be sent.
THEOREM LineIsSaid ==
  ASSUME NEW S, NEW argv \in Seq(S) PROVE RunCli(argv) = SaidInput(argv)
<1> DEFINE command == ParseArgs(argv).command
           n == Len(argv)
           first == Min(Commands(argv))
<1>1. DOMAIN argv = 1..n /\ n \in Nat
  OBVIOUS
<1>2. CommandRead(argv, n, command)
  BY <1>1, LineRead DEF ReadTo
<1>3. ParseArgs(argv).flags = SaidFlags(argv)
  BY FlagsAreSaid
<1>4. Commands(argv) \subseteq 1..n
  BY <1>1 DEF Commands
<1>5. \A i \in Commands(argv) : i \in Nat /\ i <= n
  BY <1>1, <1>4
<1> HIDE DEF command
<1>6. CASE command = <<>>
  <2>1. Commands(argv) = {}
    <3>1. \A i \in Commands(argv) : i > n
      BY <1>2, <1>6 DEF CommandRead
    <3> QED  BY <1>1, <1>5, <3>1
  <2>2. RunCli(argv) = None
    BY <1>6 DEF RunCli, command
  <2> QED  BY <2>1, <2>2 DEF SaidInput
<1>7. CASE command # <<>>
  <2>1. PICK i \in Commands(argv) : command[1] = argv[i].text /\ \A j \in Commands(argv) : i <= j
    BY <1>2, <1>7 DEF CommandRead
  <2>2. first \in Commands(argv) /\ \A j \in Commands(argv) : first <= j
    BY <1>1, <1>4, <2>1, MinMax
  <2> HIDE DEF first
  <2>3. first <= i /\ i <= first /\ first \in Nat /\ i \in Nat
    BY <1>5, <2>1, <2>2
  <2>4. first = i
    BY <2>3
  <2>5. command[1] = argv[first].text /\ Commands(argv) # {}
    BY <2>1, <2>4
  <2>6. RunCli(argv) = IF argv[first].text \in DOMAIN ModeOf
                       THEN SendInput(ModeOf[argv[first].text], SaidFlags(argv)) ELSE None
    BY <1>3, <1>7, <2>5 DEF RunCli, command
  <2>7. SaidInput(argv) = IF argv[first].text \in DOMAIN ModeOf
                          THEN SendInput(ModeOf[argv[first].text], SaidFlags(argv)) ELSE None
    BY <2>5 DEF SaidInput, first
  <2> QED  BY <2>6, <2>7
<1> QED  BY <1>6, <1>7

-----------------------------------------------------------------------------
(* Putting wraps in order *)

\* The wraps of a set, one at each place, in the order of their devices.
InOrder(places, wraps, sorted) ==
    /\ sorted \in Surjection(places, wraps)
    /\ \A i, j \in places : i < j => sorted[i].deviceId <= sorted[j].deviceId

\* Wraps can be put in order, however many there are.
LEMMA OrderExists ==
  ASSUME NEW W, \A wrap \in W : wrap.deviceId \in Nat
  PROVE  \A n \in Nat : \A wraps \in [1..n -> W] :
            \E sorted : InOrder(1..n, Range(wraps), sorted)
<1> DEFINE S == {n \in Nat : \A wraps \in [1..n -> W] :
                               \E sorted : InOrder(1..n, Range(wraps), sorted)}
<1>1. 0 \in S
  <2> SUFFICES ASSUME NEW wraps \in [1..0 -> W] PROVE InOrder(1..0, Range(wraps), wraps)
    OBVIOUS
  <2>1. 1..0 = {}
    OBVIOUS
  <2> QED  BY <2>1 DEF InOrder, Surjection, Range
<1>2. ASSUME NEW n \in Nat, n \in S PROVE n + 1 \in S
  <2> SUFFICES ASSUME NEW wraps \in [1..(n + 1) -> W]
               PROVE  \E sorted : InOrder(1..(n + 1), Range(wraps), sorted)
    OBVIOUS
  <2> DEFINE keys == {wraps[i].deviceId : i \in 1..(n + 1)}
  <2>1. keys \subseteq Nat /\ keys # {}
    <3>1. \A i \in 1..(n + 1) : wraps[i].deviceId \in Nat
      OBVIOUS
    <3>2. wraps[n + 1].deviceId \in keys
      OBVIOUS
    <3> QED  BY <3>1, <3>2
  <2>2. PICK least \in keys : \A key \in keys : least <= key
    <3> HIDE DEF keys
    <3> QED  BY <2>1, Least
  <2>3. PICK m \in 1..(n + 1) : \A i \in 1..(n + 1) : wraps[m].deviceId <= wraps[i].deviceId
    BY <2>2
  <2> HIDE DEF keys
\* The first of the others takes the place of the least, and the others are put in order.
  <2> DEFINE others == [i \in 1..n |-> IF i = m THEN wraps[n + 1] ELSE wraps[i]]
  <2>4. others \in [1..n -> W]
    OBVIOUS
  <2>5. PICK rest : InOrder(1..n, Range(others), rest)
    BY <1>2, <2>4
  <2> DEFINE sorted == [i \in 1..(n + 1) |-> IF i = 1 THEN wraps[m] ELSE rest[i - 1]]
  <2>6. \A i \in 1..n : others[i] \in Range(wraps)
    BY DEF Range
  <2>7. \A i \in 1..(n + 1) : wraps[i] = wraps[m] \/ \E j \in 1..n : wraps[i] = others[j]
    <3> SUFFICES ASSUME NEW i \in 1..(n + 1), i # m PROVE \E j \in 1..n : wraps[i] = others[j]
      OBVIOUS
    <3>1. CASE i \in 1..n
      <4>1. others[i] = wraps[i]
        BY <3>1
      <4> QED  BY <3>1, <4>1
    <3>2. CASE i = n + 1
      <4>1. m \in 1..n /\ others[m] = wraps[n + 1]
        BY <3>2
      <4> QED  BY <3>2, <4>1
    <3> QED  BY <3>1, <3>2
  <2>8. DOMAIN others = 1..n
    OBVIOUS
  <2> HIDE DEF others
  <2>9. /\ \A i \in 1..n : rest[i] \in Range(wraps)
        /\ \A i \in 1..n : \E j \in 1..n : others[i] = rest[j]
    <3>1. \A i \in 1..n : rest[i] \in Range(others)
      BY <2>5 DEF InOrder, Surjection
    <3>2. \A i \in 1..n : others[i] \in Range(others)
      BY <2>8 DEF Range
    <3>3. Range(others) \subseteq Range(wraps)
      BY <2>6, <2>8 DEF Range
    <3> QED  BY <2>5, <3>1, <3>2, <3>3 DEF InOrder, Surjection
  <2>10. \A i \in 1..(n + 1) : sorted[i] \in Range(wraps)
    <3> SUFFICES ASSUME NEW i \in 1..(n + 1) PROVE sorted[i] \in Range(wraps)
      OBVIOUS
    <3>1. CASE i = 1
      BY <3>1 DEF Range
    <3>2. CASE i # 1
      <4>1. i - 1 \in 1..n
        BY <3>2
      <4> QED  BY <2>9, <3>2, <4>1
    <3> QED  BY <3>1, <3>2
  <2>11. \A wrap \in Range(wraps) : \E i \in 1..(n + 1) : sorted[i] = wrap
    <3> SUFFICES ASSUME NEW wrap \in Range(wraps) PROVE \E i \in 1..(n + 1) : sorted[i] = wrap
      OBVIOUS
    <3>1. PICK j \in 1..(n + 1) : wrap = wraps[j]
      BY DEF Range
    <3>2. CASE wrap = wraps[m]
      <4>1. \A i \in 1..(n + 1) : i = 1 => sorted[i] = wraps[m]
        OBVIOUS
      <4>2. 1 \in 1..(n + 1)
        OBVIOUS
      <4> QED  BY <3>2, <4>1, <4>2
    <3>3. CASE wrap # wraps[m]
      <4>0. PICK l \in 1..n : wrap = others[l]
        BY <2>7, <3>1, <3>3
      <4>1. PICK k \in 1..n : wrap = rest[k]
        BY <2>9, <4>0
      <4>2. k + 1 \in 1..(n + 1) /\ k + 1 # 1 /\ (k + 1) - 1 = k
        OBVIOUS
      <4>3. sorted[k + 1] = wrap
        BY <4>1, <4>2
      <4> QED  BY <4>2, <4>3
    <3> QED  BY <3>2, <3>3
  <2>12. \A wrap \in Range(wraps) : wrap \in W /\ wraps[m].deviceId <= wrap.deviceId
    BY <2>3 DEF Range
  <2>13. ASSUME NEW i \in 1..(n + 1), NEW j \in 1..(n + 1), i < j
         PROVE  sorted[i].deviceId <= sorted[j].deviceId
    <3>1. CASE i = 1
      <4>1. sorted[i] = wraps[m]
        BY <3>1
      <4> QED  BY <2>10, <2>12, <4>1
    <3>2. CASE i # 1
      <4>1. i - 1 \in 1..n /\ j - 1 \in 1..n /\ i - 1 < j - 1 /\ j # 1
        BY <2>13, <3>2
      <4>2. sorted[i] = rest[i - 1] /\ sorted[j] = rest[j - 1]
        BY <3>2, <4>1
      <4> QED  BY <2>5, <4>1, <4>2 DEF InOrder
    <3> QED  BY <3>1, <3>2
  <2>14. sorted \in [1..(n + 1) -> Range(wraps)]
    <3>1. sorted = [i \in 1..(n + 1) |-> sorted[i]]
      OBVIOUS
    <3> HIDE DEF sorted
    <3> QED  BY <2>10, <3>1
  <2> HIDE DEF sorted
  <2>15. InOrder(1..(n + 1), Range(wraps), sorted)
    BY <2>11, <2>13, <2>14 DEF InOrder, Surjection
  <2> QED  BY <2>15
<1> HIDE DEF S
<1>3. \A n \in Nat : n \in S
  BY <1>1, <1>2, AllNumbers
<1> QED  BY <1>3 DEF S

\* The order does not depend on the one the wraps come in, so that it is the same
\* when they are put in order again.
LEMMA ByDeviceOrders ==
  ASSUME NEW n \in Nat, NEW wraps, wraps \in [1..n -> Range(wraps)],
         \A i \in 1..n : wraps[i].deviceId \in Nat
  PROVE  /\ ByDevice(wraps) \in Surjection(1..n, Range(wraps))
         /\ DOMAIN ByDevice(wraps) = 1..n
         /\ Range(ByDevice(wraps)) = Range(wraps)
         /\ ByDevice(ByDevice(wraps)) = ByDevice(wraps)
<1> DEFINE Ordered(places, those) ==
             CHOOSE sorted \in Surjection(places, those) :
               \A i, j \in places : i < j => sorted[i].deviceId <= sorted[j].deviceId
           W == Range(wraps)
           s == ByDevice(wraps)
<1>1. \A w : ByDevice(w) = Ordered(DOMAIN w, Range(w))
  BY DEF ByDevice
<1>2. wraps \in [1..n -> W] /\ \A wrap \in W : wrap.deviceId \in Nat
  BY DEF Range
<1>3. PICK sorted : InOrder(1..n, W, sorted)
  BY <1>2, OrderExists
<1>4. s \in Surjection(1..n, W)
  BY <1>3 DEF InOrder, ByDevice
<1>5. DOMAIN s = 1..n
  BY <1>4 DEF Surjection
<1>6. Range(s) = W
  BY <1>4, <1>5 DEF Surjection, Range
<1> HIDE DEF Ordered, W, s
<1>7. ByDevice(s) = s
  <2>1. ByDevice(s) = Ordered(DOMAIN s, Range(s))
    BY <1>1
  <2>2. s = Ordered(DOMAIN wraps, Range(wraps))
    BY <1>1 DEF s
  <2> QED  BY <1>5, <1>6, <2>1, <2>2 DEF W
<1> QED  BY <1>4, <1>5, <1>6, <1>7 DEF s, W

-----------------------------------------------------------------------------
(* Boxes *)

\* A box is opened with what it was closed with.
LEMMA EncryptedOpens ==
  ASSUME NEW key, NEW nonce, NEW plaintext, NEW aad
  PROVE  Decrypt(key, nonce, Encrypt(key, nonce, plaintext, aad), aad) = plaintext
BY DEF Encrypt, Decrypt

\* Both ends derive the same wrapping key.
LEMMA WrapKeysAgree ==
  ASSUME NEW private, NEW public, NEW aad
  PROVE  DeriveWrapKey(private, public, aad) = DeriveWrapKey(public, private, aad)
<1>1. {private, public} = {public, private}
  OBVIOUS
<1> QED  BY <1>1, Zenon DEF DeriveWrapKey, DeriveSharedSecret

\* A wrapped key is unwrapped by the device it is wrapped for.
LEMMA WrappedOpens ==
  ASSUME NEW key, NEW device, NEW aad, NEW draw
  PROVE  LET wrap == WrapContentKey(key, device, aad, draw)
         IN  /\ wrap.deviceId = device.deviceId
             /\ UnwrapContentKey(wrap, device.publicKey, aad) = key
<1> DEFINE wrap == WrapContentKey(key, device, aad, draw)
           ephemeral == <<"ephemeral", draw, device.deviceId>>
           nonce == <<"wrap nonce", draw, device.deviceId>>
<1>1. /\ wrap.deviceId = device.deviceId
      /\ wrap.ephemeralPublicKey = ephemeral /\ wrap.wrapNonce = nonce
      /\ wrap.wrappedKey = Encrypt(DeriveWrapKey(ephemeral, device.publicKey, aad), nonce, key, aad)
  BY DEF WrapContentKey
<1> HIDE DEF wrap, ephemeral, nonce
<1>2. UnwrapContentKey(wrap, device.publicKey, aad) = key
  BY <1>1, WrapKeysAgree, EncryptedOpens DEF UnwrapContentKey
<1> QED  BY <1>1, <1>2 DEF wrap

\* What is sealed for a list of devices is opened with the wrap of any of them.
LEMMA SealedOpens ==
  ASSUME NEW plaintext, NEW aad, NEW devices, NEW draw, devices # <<>>, NEW i \in DOMAIN devices
  PROVE  LET sealed == SealContentForDevices(plaintext, aad, devices, draw)
             wrap == sealed.keyWraps[i]
         IN  /\ OpenContent(sealed, wrap, devices[i].publicKey, aad) = plaintext
             /\ wrap.deviceId = devices[i].deviceId
<1> DEFINE sealed == SealContentForDevices(plaintext, aad, devices, draw)
           wrap == sealed.keyWraps[i]
           key == <<"content", draw>>
           nonce == <<"nonce", draw>>
<1>1. /\ sealed.ciphertext = Encrypt(key, nonce, plaintext, aad)
      /\ sealed.contentNonce = nonce
      /\ sealed.contentAadHash = Hash(aad)
      /\ wrap = WrapContentKey(key, devices[i], aad, draw)
  BY DEF SealContentForDevices
<1> HIDE DEF sealed, wrap, key, nonce
<1>2. UnwrapContentKey(wrap, devices[i].publicKey, aad) = key /\ wrap.deviceId = devices[i].deviceId
  <2>1. \A device : LET w == WrapContentKey(key, device, aad, draw)
                    IN  /\ w.deviceId = device.deviceId
                        /\ UnwrapContentKey(w, device.publicKey, aad) = key
    BY WrappedOpens
  <2> QED  BY <1>1, <2>1
<1>3. OpenContent(sealed, wrap, devices[i].publicKey, aad) = plaintext
  BY <1>1, <1>2, EncryptedOpens DEF OpenContent
<1> QED  BY <1>2, <1>3 DEF sealed, wrap

-----------------------------------------------------------------------------
(* Messages *)

\* The input a line is read as.
Input(typed) == RunCli(typed)

IsList(devices) == \E n \in Nat \ {0} : devices \in [1..n -> Device]

\* An envelope that the CLI has made for a message.
IsEnvelope(m, typed, e) ==
    /\ typed \in Line /\ Input(typed) # None
    /\ \E devices : IsList(devices) /\ e = Envelope(m, Input(typed), devices)

\* What a phone shows of a message, until it is answered and afterwards.
Shows(m, typed) == LocalMessage(m, Metadata(m, Input(typed)), Plaintext(m, Input(typed)))
IsLocal(m, typed, local) ==
    /\ typed \in Line /\ Input(typed) # None
    /\ local \in {Shows(m, typed), [Shows(m, typed) EXCEPT !.answered = TRUE]}

\* The signature of an envelope covers what is signed of it, not the signature itself.
LEMMA SigningTextOf ==
  ASSUME NEW e, NEW f, e.metadata = f.metadata, e.ciphertext = f.ciphertext,
         e.contentNonce = f.contentNonce, e.contentAadHash = f.contentAadHash,
         NormalizeKeyWraps(e.keyWraps) = NormalizeKeyWraps(f.keyWraps)
  PROVE  MessageSigningText(e) = MessageSigningText(f)
BY DEF MessageSigningText

\* Opening a box depends on its content, its nonce and its hash only.
LEMMA ContentOf ==
  ASSUME NEW e, NEW f, e.ciphertext = f.ciphertext, e.contentNonce = f.contentNonce,
         e.contentAadHash = f.contentAadHash, NEW wrap, NEW private, NEW aad
  PROVE  OpenContent(e, wrap, private, aad) = OpenContent(f, wrap, private, aad)
BY DEF OpenContent

\* The envelope of a message has a wrap for each device, which opens it, and is signed.
LEMMA EnvelopeParts ==
  ASSUME NEW m, NEW input, NEW devices, IsList(devices), NEW e, e = Envelope(m, input, devices)
  PROVE  /\ e.metadata = Metadata(m, input)
         /\ DOMAIN e.keyWraps = DOMAIN devices
         /\ e.keyWraps \in [DOMAIN devices -> Range(e.keyWraps)]
         /\ \A i \in DOMAIN devices :
               /\ e.keyWraps[i].deviceId = devices[i]
               /\ OpenContent(e, e.keyWraps[i], EncryptionKey(devices[i]),
                              MessageContentAad(Metadata(m, input))) = Plaintext(m, input)
         /\ e.senderSignature = Sign(SigningKey(SenderId), MessageSigningText(e))
<1>0. PICK n \in Nat \ {0} : devices \in [1..n -> Device]
  BY DEF IsList
<1> DEFINE keys == [i \in DOMAIN devices |-> [deviceId |-> devices[i],
                                              publicKey |-> EncryptionKey(devices[i])]]
           text == Plaintext(m, input)
           aad == MessageContentAad(Metadata(m, input))
           draw == <<"message", m>>
           sealed == SealContentForDevices(text, aad, keys, draw)
           unsigned == [metadata |-> Metadata(m, input), ciphertext |-> sealed.ciphertext,
                        contentNonce |-> sealed.contentNonce,
                        contentAadHash |-> sealed.contentAadHash, keyWraps |-> sealed.keyWraps,
                        senderSignature |-> None]
           signature == Sign(SigningKey(SenderId), MessageSigningText(unsigned))
<1>1. e = [unsigned EXCEPT !.senderSignature = signature]
  BY DEF Envelope
<1>2. DOMAIN keys = 1..n /\ keys # <<>>
  <2>1. DOMAIN keys = 1..n /\ 1 \in 1..n
    BY <1>0
  <2>2. DOMAIN <<>> = {}
    OBVIOUS
  <2> HIDE DEF keys
  <2> QED  BY <2>1, <2>2
<1>3. \A i \in 1..n : keys[i].deviceId = devices[i] /\ keys[i].publicKey = EncryptionKey(devices[i])
  BY <1>0
<1>4. sealed.keyWraps = [i \in DOMAIN keys |-> WrapContentKey(<<"content", draw>>, keys[i], aad, draw)]
  <2> HIDE DEF keys, text, aad, draw
  <2> QED  BY <1>2 DEF SealContentForDevices
<1> HIDE DEF keys
<1>5. DOMAIN sealed.keyWraps = 1..n /\ sealed.keyWraps = [i \in 1..n |-> sealed.keyWraps[i]]
  <2> HIDE DEF sealed
  <2> QED  BY <1>2, <1>4
<1>6. \A i \in 1..n : /\ OpenContent(sealed, sealed.keyWraps[i], EncryptionKey(devices[i]), aad) = text
                      /\ sealed.keyWraps[i].deviceId = devices[i]
  <2> HIDE DEF text, aad, draw
  <2>1. \A i \in DOMAIN keys : /\ OpenContent(sealed, sealed.keyWraps[i], keys[i].publicKey, aad) = text
                               /\ sealed.keyWraps[i].deviceId = keys[i].deviceId
    BY <1>2, SealedOpens
  <2> HIDE DEF sealed
  <2> QED  BY <1>2, <1>3, <2>1
<1> HIDE DEF sealed, text
<1>7. /\ e.metadata = Metadata(m, input) /\ e.ciphertext = sealed.ciphertext
      /\ e.contentNonce = sealed.contentNonce /\ e.contentAadHash = sealed.contentAadHash
      /\ e.keyWraps = sealed.keyWraps /\ e.senderSignature = signature
  <2> HIDE DEF signature
  <2> QED  BY <1>1
<1>8. MessageSigningText(e) = MessageSigningText(unsigned)
  <2>1. /\ unsigned.metadata = Metadata(m, input) /\ unsigned.ciphertext = sealed.ciphertext
        /\ unsigned.contentNonce = sealed.contentNonce
        /\ unsigned.contentAadHash = sealed.contentAadHash
        /\ unsigned.keyWraps = sealed.keyWraps
    OBVIOUS
  <2> HIDE DEF unsigned
  <2> QED  BY <1>7, <2>1, SigningTextOf
<1> HIDE DEF unsigned
<1>9. \A i \in 1..n : /\ e.keyWraps[i].deviceId = devices[i]
                      /\ OpenContent(e, e.keyWraps[i], EncryptionKey(devices[i]), aad) = text
  BY <1>6, <1>7, ContentOf
<1>10. e.senderSignature = Sign(SigningKey(SenderId), MessageSigningText(e))
  BY <1>7, <1>8
<1>11. e.keyWraps \in [1..n -> Range(e.keyWraps)]
  <2>1. \A i \in 1..n : e.keyWraps[i] \in Range(e.keyWraps)
    BY <1>5, <1>7 DEF Range
  <2> QED  BY <1>5, <1>7, <2>1
<1> QED  BY <1>0, <1>5, <1>7, <1>9, <1>10, <1>11 DEF text

\* The wrap a device finds for itself is one of the wraps, and is for it.
LEMMA OwnWrapFound ==
  ASSUME NEW n \in Nat, NEW wraps, DOMAIN wraps = 1..n, Len(wraps) = n,
         NEW d, NEW i \in 1..n, wraps[i].deviceId = d
  PROVE  \E j \in 1..n : OwnWrap(d, wraps) = wraps[j] /\ wraps[j].deviceId = d
<1> DEFINE Own == {j \in 1..n : wraps[j].deviceId = d}
<1>1. Own # {} /\ Own \subseteq 1..n
  OBVIOUS
<1>2. OwnWrap(d, wraps) = wraps[Min(Own)]
  BY <1>1 DEF OwnWrap, SelectInSeq
<1> HIDE DEF Own
<1>3. Min(Own) \in Own
  BY <1>1, MinMax
<1> QED  BY <1>2, <1>3 DEF Own

\* The length of a function on 1..n.
LEMMA LenOf ==
  ASSUME NEW n \in Nat, NEW S, NEW f \in [1..n -> S] PROVE Len(f) = n /\ (n # 0 => f # <<>>)
<1>1. f \in Seq(S)
  BY SeqDef
<1>2. Len(f) \in Nat /\ DOMAIN f = 1..Len(f)
  BY <1>1, LenProperties
<1>3. DOMAIN f = 1..n
  OBVIOUS
<1>4. Len(f) = n
  BY <1>2, <1>3
<1> QED  BY <1>4

\* A device that gets wraps of an envelope, its own among them, sees the message, or
\* nothing when the signature does not hold of the wraps it gets.
LEMMA PendingOpens ==
  ASSUME NEW m \in Message, NEW typed, NEW e, IsEnvelope(m, typed, e), NEW d, NEW k \in Nat \ {0},
         NEW wraps \in [1..k -> Range(e.keyWraps)], NEW i \in 1..k, wraps[i].deviceId = d
  PROVE  LET p == Pending(d, m, e, wraps)
         IN  Decrypted(d, p) = IF NormalizeKeyWraps(wraps) = NormalizeKeyWraps(e.keyWraps)
                                  \/ MessageSignatureHolds(p, SigningKey(SenderId))
                               THEN Shows(m, typed) ELSE None
<1> DEFINE p == Pending(d, m, e, wraps)
           input == Input(typed)
           text == Plaintext(m, input)
           aad == MessageContentAad(Metadata(m, input))
           key == SigningKey(SenderId)
<1>0. PICK devices : IsList(devices) /\ e = Envelope(m, input, devices)
  BY DEF IsEnvelope
<1>1. PICK n \in Nat \ {0} : devices \in [1..n -> Device]
  BY <1>0 DEF IsList
<1>2. /\ e.metadata = Metadata(m, input)
      /\ DOMAIN e.keyWraps = 1..n
      /\ \A j \in 1..n : /\ e.keyWraps[j].deviceId = devices[j]
                         /\ OpenContent(e, e.keyWraps[j], EncryptionKey(devices[j]), aad) = text
      /\ e.senderSignature = Sign(key, MessageSigningText(e))
  <2> HIDE DEF input
  <2>1. /\ e.metadata = Metadata(m, input)
        /\ DOMAIN e.keyWraps = DOMAIN devices /\ e.keyWraps \in [DOMAIN devices -> Range(e.keyWraps)]
        /\ e.senderSignature = Sign(SigningKey(SenderId), MessageSigningText(e))
    BY <1>0, EnvelopeParts
  <2>2. \A j \in DOMAIN devices :
            /\ e.keyWraps[j].deviceId = devices[j]
            /\ OpenContent(e, e.keyWraps[j], EncryptionKey(devices[j]),
                           MessageContentAad(Metadata(m, input))) = Plaintext(m, input)
    BY <1>0, EnvelopeParts
  <2>3. DOMAIN devices = 1..n
    BY <1>1
  <2> HIDE DEF text, aad
  <2> QED  BY <2>1, <2>2, <2>3 DEF text, aad, key
<1>3. /\ p.messageId = m /\ p.metadata = e.metadata /\ p.ciphertext = e.ciphertext
      /\ p.contentNonce = e.contentNonce /\ p.contentAadHash = e.contentAadHash
      /\ p.senderSignature = e.senderSignature /\ p.keyWraps = wraps
      /\ p.sender.signingPublicKey = key /\ [p EXCEPT !.keyWraps = wraps] = p
  BY DEF Pending
<1> HIDE DEF p, text, aad, key
<1>4. DOMAIN wraps = 1..k /\ Len(wraps) = k /\ wraps # <<>>
  BY LenOf
<1>5. PendingKeyWraps(p) = wraps
  BY <1>3, <1>4 DEF PendingKeyWraps
<1>6. PICK j \in 1..k : OwnWrap(d, wraps) = wraps[j] /\ wraps[j].deviceId = d
  BY <1>4, OwnWrapFound
<1>7. OpenContent(p, OwnWrap(d, wraps), EncryptionKey(d), aad) = text
  <2>1. PICK l \in 1..n : wraps[j] = e.keyWraps[l]
    BY <1>2 DEF Range
  <2>2. OpenContent(e, OwnWrap(d, wraps), EncryptionKey(d), aad) = text
    BY <1>2, <1>6, <2>1
  <2> QED  BY <1>3, <2>2, ContentOf
<1>8. text # None => text.mode = e.metadata.mode
  BY <1>2 DEF text, Plaintext, Metadata
<1>9. NormalizeKeyWraps(wraps) = NormalizeKeyWraps(e.keyWraps) => MessageSignatureHolds(p, key)
  <2> SUFFICES ASSUME NormalizeKeyWraps(wraps) = NormalizeKeyWraps(e.keyWraps)
               PROVE  MessageSignatureHolds(p, key)
    OBVIOUS
  <2>1. MessageSigningText(p) = MessageSigningText(e)
    BY <1>3, SigningTextOf
  <2> QED  BY <1>2, <1>3, <2>1 DEF MessageSignatureHolds, Verify
<1>10. Shows(m, typed) = LocalMessage(p.messageId, p.metadata, text)
  BY <1>2, <1>3 DEF Shows, text
<1>11. Decrypted(d, p) =
         IF \/ ~MessageSignatureHolds(p, key)
            \/ \A l \in DOMAIN wraps : wraps[l].deviceId # d
         THEN None
         ELSE IF text = None THEN None
         ELSE IF text.mode # p.metadata.mode THEN None
         ELSE LocalMessage(p.messageId, p.metadata, text)
  <2>1. MessageContentAad(p.metadata) = aad
    BY <1>2, <1>3 DEF aad
  <2> QED  BY <1>3, <1>5, <1>7, <2>1 DEF Decrypted
<1>12. ~(\A l \in DOMAIN wraps : wraps[l].deviceId # d)
  BY <1>4
<1>13. text # None
  BY NoneAssumption DEF IsEnvelope, text, Input
<1>14. Decrypted(d, p) = IF MessageSignatureHolds(p, key) THEN Shows(m, typed) ELSE None
  BY <1>3, <1>8, <1>10, <1>11, <1>12, <1>13
<1>15. Decrypted(d, p) = IF NormalizeKeyWraps(wraps) = NormalizeKeyWraps(e.keyWraps)
                            \/ MessageSignatureHolds(p, key)
                         THEN Shows(m, typed) ELSE None
  BY <1>9, <1>14
<1> QED  BY <1>15 DEF p, key

\* The wraps of an envelope are for devices.
LEMMA EnvelopeWraps ==
  ASSUME NEW m, NEW typed, NEW e, IsEnvelope(m, typed, e)
  PROVE  \E n \in Nat \ {0} : /\ e.keyWraps \in [1..n -> Range(e.keyWraps)]
                              /\ \A i \in 1..n : e.keyWraps[i].deviceId \in Device
<1>1. PICK devices : IsList(devices) /\ e = Envelope(m, Input(typed), devices)
  BY DEF IsEnvelope
<1>2. PICK n \in Nat \ {0} : devices \in [1..n -> Device]
  BY <1>1 DEF IsList
<1>3. e.keyWraps \in [DOMAIN devices -> Range(e.keyWraps)]
  BY <1>1, EnvelopeParts
<1>4. \A i \in DOMAIN devices : e.keyWraps[i].deviceId = devices[i]
  BY <1>1, EnvelopeParts
<1> QED  BY <1>2, <1>3, <1>4

\* pendingMessages and decryptPendingMessage: a device that gets all wraps of a message,
\* put in order by the server, sees it.
LEMMA SortedShows ==
  ASSUME NEW m \in Message, NEW typed, NEW e, IsEnvelope(m, typed, e), NEW d \in WrappedDevices(e)
  PROVE  Decrypted(d, Pending(d, m, e, Sorted(e.keyWraps))) = Shows(m, typed)
<1> DEFINE wraps == e.keyWraps
           sorted == Sorted(wraps)
<1>1. PICK n \in Nat \ {0} : /\ wraps \in [1..n -> Range(wraps)]
                             /\ \A i \in 1..n : wraps[i].deviceId \in Device
  BY EnvelopeWraps
<1>2. \A i \in 1..n : wraps[i].deviceId \in Nat
  BY <1>1, ExchangeAssumption
<1> HIDE DEF wraps
<1>3. sorted \in Surjection(1..n, Range(wraps)) /\ ByDevice(sorted) = sorted
  BY <1>1, <1>2, ByDeviceOrders DEF Sorted
<1>4. PICK l \in 1..n : wraps[l].deviceId = d
  <2>1. PICK l \in DOMAIN wraps : wraps[l].deviceId = d
    BY DEF WrappedDevices, wraps
  <2> QED  BY <1>1, <2>1
<1>5. PICK i \in 1..n : sorted[i].deviceId = d
  <2>1. wraps[l] \in Range(wraps)
    BY <1>1, <1>4 DEF Range
  <2>2. \E i \in 1..n : sorted[i] = wraps[l]
    BY <1>3, <2>1 DEF Surjection
  <2> QED  BY <1>4, <2>2
<1>6. sorted \in [1..n -> Range(wraps)]
  BY <1>3 DEF Surjection
<1>7. NormalizeKeyWraps(sorted) = NormalizeKeyWraps(wraps)
  BY <1>3 DEF NormalizeKeyWraps, Sorted
<1> HIDE DEF sorted
<1> QED  BY <1>5, <1>6, <1>7, PendingOpens DEF wraps, sorted

\* A device that gets its own wrap only, of a message that is gone, sees it or nothing.
LEMMA OwnShows ==
  ASSUME NEW m \in Message, NEW typed, NEW e, IsEnvelope(m, typed, e), NEW d \in WrappedDevices(e)
  PROVE  Decrypted(d, Pending(d, m, e, <<OwnWrap(d, e.keyWraps)>>)) \in {None, Shows(m, typed)}
<1> DEFINE wraps == e.keyWraps
           own == <<OwnWrap(d, wraps)>>
<1>1. PICK n \in Nat \ {0} : wraps \in [1..n -> Range(wraps)]
  BY EnvelopeWraps
<1>2. PICK l \in 1..n : wraps[l].deviceId = d
  <2>1. PICK l \in DOMAIN wraps : wraps[l].deviceId = d
    BY DEF WrappedDevices
  <2> QED  BY <1>1, <2>1
<1> HIDE DEF wraps
<1>3. DOMAIN wraps = 1..n /\ Len(wraps) = n
  BY <1>1, LenOf
<1>4. PICK j \in 1..n : OwnWrap(d, wraps) = wraps[j] /\ wraps[j].deviceId = d
  BY <1>2, <1>3, OwnWrapFound
<1>5. own = [i \in 1..1 |-> wraps[j]]
  BY <1>4
<1>6. own \in [1..1 -> Range(wraps)] /\ 1 \in 1..1 /\ own[1].deviceId = d
  <2>1. wraps[j] \in Range(wraps)
    BY <1>1 DEF Range
  <2> QED  BY <1>4, <1>5, <2>1
<1> HIDE DEF own
<1>7. PICK k \in Nat \ {0} : /\ own \in [1..k -> Range(e.keyWraps)]
                             /\ \E i \in 1..k : own[i].deviceId = d
  <2>1. 1 \in Nat \ {0}
    OBVIOUS
  <2> QED  BY <1>6, <2>1 DEF wraps
<1>8. Decrypted(d, Pending(d, m, e, own)) \in {None, Shows(m, typed)}
  BY <1>7, PendingOpens
<1> QED  BY <1>8 DEF wraps, own

-----------------------------------------------------------------------------
(* Answers *)

\* The answer a device makes of a draft comes open at the sender, as it was given.
LEMMA AnswerParts ==
  ASSUME NEW d, NEW n, NEW message, message.senderId = SenderId, NEW draft \in Given,
         NEW e, e = ResponseEnvelope(d, n, message, draft)
  PROVE  /\ e.messageId = message.id /\ e.kind = draft.kind
         /\ e.ciphertext.contentNonce = e.contentNonce
         /\ e.ciphertext.senderKeyWrap.deviceId = SenderId
         /\ OpenContent(e.ciphertext, e.ciphertext.senderKeyWrap, EncryptionKey(SenderId),
                        ResponseContentAad(e)) = ResponsePlaintext(message.id, draft)
         /\ ResponseSignatureHolds(e, SigningKey(d))
<1> DEFINE header == [responseId |-> n, messageId |-> message.id, kind |-> draft.kind,
                      expiresAt |-> message.expiresAt, ciphertext |-> None, contentNonce |-> None,
                      deviceSignature |-> None]
           text == ResponsePlaintext(message.id, draft)
           aad == ResponseContentAad(header)
           keys == <<[deviceId |-> message.senderId, publicKey |-> EncryptionKey(message.senderId)]>>
           draw == <<"response", n>>
           sealed == SealContentForDevices(text, aad, keys, draw)
           packed == Packed(sealed)
           unsigned == [header EXCEPT !.ciphertext = packed, !.contentNonce = sealed.contentNonce]
           signature == Sign(SigningKey(d), ResponseSigningText(unsigned))
<1>1. e = [unsigned EXCEPT !.deviceSignature = signature]
  BY DEF ResponseEnvelope
<1>2. keys # <<>> /\ 1 \in DOMAIN keys
      /\ keys[1].deviceId = SenderId /\ keys[1].publicKey = EncryptionKey(SenderId)
  OBVIOUS
<1> HIDE DEF keys, text, aad, draw
<1>3. /\ OpenContent(sealed, sealed.keyWraps[1], EncryptionKey(SenderId), aad) = text
      /\ sealed.keyWraps[1].deviceId = SenderId
  <2>1. \A i \in DOMAIN keys : /\ OpenContent(sealed, sealed.keyWraps[i], keys[i].publicKey, aad) = text
                               /\ sealed.keyWraps[i].deviceId = keys[i].deviceId
    BY <1>2, SealedOpens
  <2> HIDE DEF sealed
  <2> QED  BY <1>2, <2>1
<1> HIDE DEF sealed
<1>4. /\ packed.ciphertext = sealed.ciphertext /\ packed.contentNonce = sealed.contentNonce
      /\ packed.contentAadHash = sealed.contentAadHash
      /\ packed.senderKeyWrap = sealed.keyWraps[1]
  BY DEF Packed
<1> HIDE DEF packed
<1>5. /\ unsigned.responseId = n /\ unsigned.messageId = message.id /\ unsigned.kind = draft.kind
      /\ unsigned.expiresAt = message.expiresAt /\ unsigned.ciphertext = packed
      /\ unsigned.contentNonce = sealed.contentNonce
  OBVIOUS
<1>6. /\ e.responseId = n /\ e.messageId = message.id /\ e.kind = draft.kind
      /\ e.expiresAt = message.expiresAt /\ e.ciphertext = packed
      /\ e.contentNonce = sealed.contentNonce /\ e.deviceSignature = signature
  <2> HIDE DEF signature
  <2> QED  BY <1>1
<1>7. ResponseSigningText(e) = ResponseSigningText(unsigned)
  <2> HIDE DEF unsigned
  <2> QED  BY <1>5, <1>6 DEF ResponseSigningText
<1>8. ResponseContentAad(e) = aad
  <2>1. header.responseId = n /\ header.messageId = message.id /\ header.kind = draft.kind
        /\ header.expiresAt = message.expiresAt
    OBVIOUS
  <2> HIDE DEF header
  <2> QED  BY <1>6, <2>1 DEF ResponseContentAad, aad
<1>9. ResponseSignatureHolds(e, SigningKey(d))
  BY <1>6, <1>7 DEF ResponseSignatureHolds, Verify
<1> HIDE DEF unsigned, header
<1>10. OpenContent(packed, packed.senderKeyWrap, EncryptionKey(SenderId), aad) = text
  BY <1>3, <1>4, ContentOf
<1> QED  BY <1>3, <1>4, <1>6, <1>8, <1>9, <1>10 DEF text

-----------------------------------------------------------------------------
(* The invariant *)

Sendable == {typed \in Line : Input(typed) # None}

\* How far an answer may be, and when it has been taken.
Stage == {"submitted", "checked", "stored", "responded", "shown", "refused"}
Taken == {"stored", "responded", "shown"}

\* The answers that devices make.
AnswerForms ==
    {ResponseEnvelope(d, n, Shows(m, typed), draft) :
        d \in Device, n \in 1..MaxAnswers, m \in Message, typed \in Sendable, draft \in Given}

Types ==
    /\ recipient \in [Device -> {None, "ours", "other"}]
    /\ moves \in 0..MaxMoves
    /\ line \in [Message -> Line \cup {None}]
    /\ DOMAIN sending = Message
    /\ DOMAIN targets = Message
    /\ DOMAIN stored = Message
    /\ delivered \subseteq Device \X Message
    /\ DOMAIN fetch = Sync
    /\ DOMAIN shown = Device /\ \A d \in Device : DOMAIN shown[d] = Message
    /\ answers \in Seq([device : Device, draft : Given, envelope : AnswerForms,
                        pc : Stage])
    /\ responses \in [Message -> Seq(Nat)]
    /\ DOMAIN told = Message

\* What is on its way, or has been sent, is an envelope of the line that was typed.
SendingInv(m) ==
    /\ \/ sending[m] = [pc |-> sending[m].pc]
       \/ sending[m] = [pc |-> sending[m].pc, envelope |-> sending[m].envelope]
    /\ sending[m].pc \in {"none", "typed", "submitted", "checked", "sent", "failed"}
    /\ sending[m].pc = "none" <=> line[m] = None
    /\ sending[m].pc = "typed" => Input(line[m]) # None
    /\ sending[m].pc \in {"submitted", "checked"} =>
          /\ sending[m] = [pc |-> sending[m].pc, envelope |-> sending[m].envelope]
          /\ IsEnvelope(m, line[m], sending[m].envelope)

\* A row is there after its message was sent only, and the sender's record, when it has
\* one, names the devices of the row.
StoredInv(m) ==
    stored[m] # None =>
        /\ sending[m].pc = "sent" /\ IsEnvelope(m, line[m], stored[m])
        /\ targets[m] = <<>> \/ WrappedDevices(stored[m]) \subseteq Range(targets[m])

\* What the first query has listed: a message and its row, which may be gone by now.
Listed(d, l) ==
    /\ l = <<l[1], l[2]>> /\ l[1] \in Message
    /\ sending[l[1]].pc = "sent" /\ IsEnvelope(l[1], line[l[1]], l[2])
    /\ d \in WrappedDevices(l[2])
    /\ stored[l[1]] \in {None, l[2]}

\* What the reply of the server holds of a message: it is shown as it was typed, or, when
\* its row is gone, perhaps not at all.
Replied(d, p) ==
    /\ p.messageId \in Message
    /\ sending[p.messageId].pc = "sent" /\ Input(line[p.messageId]) # None
    /\ Decrypted(d, p) \in {None, Shows(p.messageId, line[p.messageId])}
    /\ stored[p.messageId] # None => Decrypted(d, p) = Shows(p.messageId, line[p.messageId])

\* A message as a device has it is as it was typed, and answered only when the server has
\* taken an answer of this device.
Backed(d, m, local, typed, log) ==
    local # None =>
        /\ IsLocal(m, typed, local)
        /\ local.answered => \E n \in DOMAIN log : /\ log[n].device = d
                                                 /\ log[n].envelope.messageId = m
                                                 /\ log[n].pc \in Taken

FetchInv(f) ==
    /\ fetch[f] = [pc |-> fetch[f].pc, listed |-> fetch[f].listed, reply |-> fetch[f].reply,
                   held |-> fetch[f].held]
    /\ DOMAIN fetch[f].held = Message
    /\ \A m \in Message : Backed(Of(f), m, fetch[f].held[m], line[m], answers)
    /\ fetch[f].pc = "listed" => \A l \in fetch[f].listed : Listed(Of(f), l)
    /\ fetch[f].pc = "replied" => \A p \in fetch[f].reply : Replied(Of(f), p)

ShownInv(d, m) == Backed(d, m, shown[d][m], line[m], answers)

\* An answer is one to a message that was sent, and was made for it; once it has passed
\* the checks its device is in the sender's record, if there is one.
AnswerInv(a) ==
    LET m == a.envelope.messageId
    IN  /\ m \in Message /\ line[m] \in Sendable
        /\ \E n \in 1..MaxAnswers : a.envelope = ResponseEnvelope(a.device, n, Shows(m, line[m]), a.draft)
        /\ a.pc \in Taken \cup {"checked"} =>
              sending[m].pc = "sent" /\ (targets[m] = <<>> \/ a.device \in Range(targets[m]))

ResponsesInv(m) ==
    \A i \in DOMAIN responses[m] :
        /\ responses[m][i] \in DOMAIN answers
        /\ answers[responses[m][i]].pc \in Taken
        /\ answers[responses[m][i]].envelope.messageId = m

\* What the sender was told is what was answered, or nothing for a reason that stays.
ToldInv(m) ==
    told[m].response # 0 =>
        /\ told[m].response \in DOMAIN answers /\ sending[m].pc = "sent"
        /\ LET answer == answers[told[m].response]
           IN  \/ told[m].result = ResponsePlaintext(m, answer.draft)
               \/ /\ told[m].result = None /\ targets[m] = <<>>
                  /\ answer.device \notin told[m].devices

IInv ==
    /\ Types
    /\ \A m \in Message : SendingInv(m) /\ StoredInv(m) /\ ResponsesInv(m) /\ ToldInv(m)
    /\ \A f \in Sync : FetchInv(f)
    /\ \A d \in Device, m \in Message : ShownInv(d, m)
    /\ \A n \in DOMAIN answers : AnswerInv(answers[n])

-----------------------------------------------------------------------------
(* What a step leaves as it was *)

\* What was typed stays, and a message that was sent stays sent: its record stays, and its
\* row stays or goes for good.
Kept(m) ==
    /\ line[m] # None => line'[m] = line[m]
    /\ sending[m].pc = "sent" =>
          /\ sending'[m].pc = "sent" /\ targets'[m] = targets[m]
          /\ stored'[m] \in {None, stored[m]}

\* An answer stays what it is, and stays taken.
AnswersGrow ==
    \A n \in DOMAIN answers :
        /\ n \in DOMAIN answers'
        /\ answers'[n].device = answers[n].device /\ answers'[n].draft = answers[n].draft
        /\ answers'[n].envelope = answers[n].envelope
        /\ answers[n].pc \in Taken => answers'[n].pc \in Taken

\* Of a message that was sent the line is known.
LEMMA SentTyped ==
  ASSUME IInv, NEW m \in Message, sending[m].pc # "none" PROVE line[m] # None /\ line[m] \in Line
BY DEF IInv, SendingInv, Types

\* A synchronisation is one of a device.
LEMMA OfSync == ASSUME NEW f \in Sync PROVE Of(f) \in Device
BY ExchangeAssumption DEF Of

\* Lines are something.
LEMMA LineIsSome == ASSUME NEW typed \in Line PROVE typed # None
BY LineAssumption

\* What a device has of a message stays right.
LEMMA BackedKept ==
  ASSUME NEW d, NEW m, Kept(m), AnswersGrow, NEW local, Backed(d, m, local, line[m], answers)
  PROVE  Backed(d, m, local, line'[m], answers')
<1> SUFFICES ASSUME local # None PROVE Backed(d, m, local, line'[m], answers')
  BY DEF Backed
<1>1. IsLocal(m, line[m], local) /\ line[m] # None
  BY LineIsSome DEF Backed, IsLocal
<1>2. IsLocal(m, line'[m], local)
  BY <1>1 DEF Kept
<1> QED  BY <1>2 DEF Backed, AnswersGrow

\* What a device has asked for stays right while it waits.
LEMMA FetchKept ==
  ASSUME IInv, \A m \in Message : Kept(m), AnswersGrow, NEW f \in Sync, fetch'[f] = fetch[f]
  PROVE  FetchInv(f)'
<1> DEFINE d == Of(f)
<1>1. FetchInv(f)
  BY DEF IInv
<1>2. ASSUME NEW l, Listed(d, l) PROVE Listed(d, l)'
  <2> DEFINE m == l[1]
  <2>1. m \in Message /\ sending[m].pc = "sent" /\ line[m] # None
    BY <1>2, SentTyped DEF Listed
  <2>2. line'[m] = line[m] /\ sending'[m].pc = "sent" /\ stored'[m] \in {None, stored[m]}
    BY <2>1 DEF Kept
  <2> QED  BY <1>2, <2>1, <2>2 DEF Listed
<1>3. ASSUME NEW p, Replied(d, p) PROVE Replied(d, p)'
  <2> DEFINE m == p.messageId
  <2>1. m \in Message /\ sending[m].pc = "sent" /\ line[m] # None
    BY <1>3, SentTyped DEF Replied
  <2>2. line'[m] = line[m] /\ sending'[m].pc = "sent" /\ stored'[m] \in {None, stored[m]}
    BY <2>1 DEF Kept
  <2> QED  BY <1>3, <2>1, <2>2 DEF Replied
<1>4. \A m \in Message : Backed(d, m, fetch[f].held[m], line'[m], answers')
  BY <1>1, BackedKept DEF FetchInv
<1> QED  BY <1>1, <1>2, <1>3, <1>4 DEF FetchInv, Of

\* What a device shows stays right.
LEMMA ShownKept ==
  ASSUME NEW d \in Device, NEW m \in Message, ShownInv(d, m), Kept(m), AnswersGrow,
         shown'[d][m] = shown[d][m]
  PROVE  ShownInv(d, m)'
BY BackedKept DEF ShownInv

\* An answer stays right; one that passes the checks is in the record of the message.
LEMMA AnswerKept ==
  ASSUME NEW n \in DOMAIN answers, AnswerInv(answers[n]), \A m \in Message : Kept(m),
         answers'[n].device = answers[n].device, answers'[n].draft = answers[n].draft,
         answers'[n].envelope = answers[n].envelope,
         LET a == answers[n]
             m == a.envelope.messageId
         IN  answers'[n].pc \in Taken \cup {"checked"} =>
                   \/ a.pc \in Taken \cup {"checked"}
                   \/ /\ sending[m].pc = "sent"
                      /\ targets[m] = <<>> \/ a.device \in Range(targets[m])
  PROVE  AnswerInv(answers[n])'
<1> DEFINE a == answers[n]
           m == a.envelope.messageId
<1>1. m \in Message /\ line[m] # None
  BY LineIsSome DEF AnswerInv, Sendable
<1>2. line'[m] = line[m]
  BY <1>1 DEF Kept
<1>3. sending[m].pc = "sent" => sending'[m].pc = "sent" /\ targets'[m] = targets[m]
  BY <1>1 DEF Kept
<1> QED  BY <1>1, <1>2, <1>3 DEF AnswerInv

\* The responses of a message stay right, or go.
LEMMA ResponsesKept ==
  ASSUME NEW m \in Message, ResponsesInv(m), AnswersGrow, responses'[m] \in {responses[m], <<>>}
  PROVE  ResponsesInv(m)'
<1>1. DOMAIN <<>> = {}
  OBVIOUS
<1>2. CASE responses'[m] = <<>>
  BY <1>1, <1>2 DEF ResponsesInv
<1>3. CASE responses'[m] = responses[m]
  BY <1>3 DEF ResponsesInv, AnswersGrow
<1> QED  BY <1>2, <1>3

\* What the sender was told stays right.
LEMMA ToldKept ==
  ASSUME NEW m \in Message, ToldInv(m), AnswersGrow, Kept(m), told'[m] = told[m]
  PROVE  ToldInv(m)'
BY DEF ToldInv, AnswersGrow, Kept

\* A row stays right, or goes.
LEMMA StoredKept ==
  ASSUME NEW m \in Message, StoredInv(m), Kept(m), stored'[m] \in {None, stored[m]}
  PROVE  StoredInv(m)'
<1> SUFFICES ASSUME stored'[m] # None PROVE StoredInv(m)'
  BY DEF StoredInv
<1>1. stored'[m] = stored[m] /\ sending[m].pc = "sent" /\ IsEnvelope(m, line[m], stored[m])
  BY DEF StoredInv
<1>2. line[m] # None
  BY <1>1, LineIsSome DEF IsEnvelope
<1> QED  BY <1>1, <1>2 DEF StoredInv, Kept

\* A step of one submission, which has not ended, leaves the rest alone.
LEMMA SenderStep ==
  ASSUME IInv, NEW m \in Message, sending[m].pc # "sent",
         UNCHANGED <<fetch, shown, answers, responses, told>>,
         \A k \in Message \ {m} : /\ line'[k] = line[k] /\ sending'[k] = sending[k]
                                  /\ targets'[k] = targets[k] /\ stored'[k] = stored[k],
         line[m] # None => line'[m] = line[m],
         Types', SendingInv(m)', StoredInv(m)'
  PROVE  IInv'
<1>1. \A k \in Message : Kept(k)
  BY DEF Kept
<1>2. AnswersGrow
  BY DEF AnswersGrow
<1>3. \A k \in Message : SendingInv(k)'
  BY DEF IInv, SendingInv
<1>4. \A k \in Message : StoredInv(k)'
  BY <1>1, StoredKept DEF IInv
<1>5. \A k \in Message : ResponsesInv(k)'
  BY <1>2, ResponsesKept DEF IInv
<1>6. \A k \in Message : ToldInv(k)'
  BY <1>1, <1>2, ToldKept DEF IInv
<1>7. \A f \in Sync : FetchInv(f)'
  BY <1>1, <1>2, FetchKept
<1>8. \A d \in Device, k \in Message : ShownInv(d, k)'
  BY <1>1, <1>2, ShownKept DEF IInv
<1>9. \A n \in DOMAIN answers' : AnswerInv(answers[n])'
  <2> SUFFICES ASSUME NEW n \in DOMAIN answers PROVE AnswerInv(answers[n])'
    OBVIOUS
  <2>1. AnswerInv(answers[n])
    BY DEF IInv
  <2> QED  BY <1>1, <2>1, AnswerKept DEF AnswerInv
<1> QED  BY <1>3, <1>4, <1>5, <1>6, <1>7, <1>8, <1>9 DEF IInv

\* A step that changes at most what devices have asked for, and takes rows away.
LEMMA QuietStep ==
  ASSUME IInv, UNCHANGED <<line, sending, targets, shown, answers, told>>,
         \A m \in Message : /\ stored'[m] \in {None, stored[m]}
                            /\ responses'[m] \in {responses[m], <<>>},
         Types', \A f \in Sync : fetch'[f] = fetch[f] \/ FetchInv(f)'
  PROVE  IInv'
<1>1. \A k \in Message : Kept(k)
  BY DEF Kept
<1>2. AnswersGrow
  BY DEF AnswersGrow
<1>3. \A k \in Message : SendingInv(k)'
  BY DEF IInv, SendingInv
<1>4. \A k \in Message : StoredInv(k)'
  BY <1>1, StoredKept DEF IInv
<1>5. \A k \in Message : ResponsesInv(k)'
  BY <1>2, ResponsesKept DEF IInv
<1>6. \A k \in Message : ToldInv(k)'
  BY <1>1, <1>2, ToldKept DEF IInv
<1>7. \A f \in Sync : FetchInv(f)'
  BY <1>1, <1>2, FetchKept
<1>8. \A d \in Device, k \in Message : ShownInv(d, k)'
  BY <1>1, <1>2, ShownKept DEF IInv
<1>9. \A n \in DOMAIN answers' : AnswerInv(answers[n])'
  <2> SUFFICES ASSUME NEW n \in DOMAIN answers PROVE AnswerInv(answers[n])'
    OBVIOUS
  <2>1. AnswerInv(answers[n])
    BY DEF IInv
  <2> QED  BY <1>1, <2>1, AnswerKept DEF AnswerInv
<1> QED  BY <1>3, <1>4, <1>5, <1>6, <1>7, <1>8, <1>9 DEF IInv

-----------------------------------------------------------------------------
(* The invariant holds at first *)

\* Nothing has been typed yet.
LEMMA InitInv == ASSUME Init PROVE IInv
<1>1. Types
  <2>1. answers \in Seq([device : Device, draft : Given, envelope : AnswerForms,
                         pc : Stage])
    BY EmptySeq DEF Init
  <2>2. responses \in [Message -> Seq(Nat)]
    BY EmptySeq DEF Init
  <2>3. moves \in 0..MaxMoves
    BY ExchangeAssumption DEF Init
  <2>4. DOMAIN Empty = Message
    BY DEF Empty
  <2> QED  BY <2>1, <2>2, <2>3, <2>4 DEF Init, Types
<1>2. \A m \in Message : SendingInv(m) /\ StoredInv(m) /\ ResponsesInv(m) /\ ToldInv(m)
  <2>1. DOMAIN <<>> = {}
    OBVIOUS
  <2> QED  BY <2>1 DEF Init, SendingInv, StoredInv, ResponsesInv, ToldInv
<1>3. /\ \A f \in Sync : FetchInv(f)
      /\ \A d \in Device, m \in Message : ShownInv(d, m)
  <2>1. DOMAIN Empty = Message /\ \A m \in Message : Empty[m] = None
    BY DEF Empty
  <2>2. Quiet.held = Empty /\ Quiet.pc = "idle"
        /\ Quiet = [pc |-> Quiet.pc, listed |-> Quiet.listed, reply |-> Quiet.reply, held |-> Quiet.held]
    BY DEF Quiet
  <2>3. \A f \in Sync : fetch[f] = Quiet
    BY DEF Init
  <2>4. \A d \in Device : shown[d] = Empty
    BY DEF Init
  <2>5. \A f \in Sync : FetchInv(f)
    BY <2>1, <2>2, <2>3 DEF FetchInv, Backed
  <2>6. \A d \in Device, m \in Message : ShownInv(d, m)
    BY <2>1, <2>4 DEF ShownInv, Backed
  <2> QED  BY <2>5, <2>6
<1>4. DOMAIN answers = {}
  BY DEF Init
<1> QED  BY <1>1, <1>2, <1>3, <1>4 DEF IInv

-----------------------------------------------------------------------------
(* Steps of the devices' registration and of the sender *)

\* registerDevice and approvePairing: only the recipients change.
LEMMA MovesStep ==
  ASSUME IInv, NEW d \in Device, Move(d) \/ \E r \in {"ours", "other"} : Register(d, r)
  PROVE  IInv'
<1>1. UNCHANGED <<line, sending, targets, stored, delivered, fetch, shown, answers, responses, told>>
  BY DEF Move, Register
<1> DEFINE R == {None, "ours", "other"}
<1>2. recipient \in [Device -> R] /\ moves \in 0..MaxMoves /\ MaxMoves \in Nat
  BY ExchangeAssumption DEF IInv, Types
<1>3. recipient' \in [Device -> R] /\ moves' \in 0..MaxMoves
  <2>1. CASE Move(d)
    <3>1. moves' = moves + 1 /\ moves < MaxMoves
          /\ recipient' = [recipient EXCEPT ![d] = IF @ = "ours" THEN "other" ELSE "ours"]
      BY <2>1 DEF Move
    <3> QED  BY <1>2, <3>1
  <2>2. ASSUME NEW r \in {"ours", "other"}, Register(d, r)
        PROVE  recipient' \in [Device -> R] /\ moves' \in 0..MaxMoves
    <3>1. moves' = moves /\ recipient' = [recipient EXCEPT ![d] = r]
      BY <2>2 DEF Register
    <3> QED  BY <1>2, <3>1
  <2> QED  BY <2>1, <2>2
<1>4. Types'
  BY <1>1, <1>3 DEF IInv, Types
<1> QED  BY <1>1, <1>4, QuietStep

\* handleSend: a line is typed.
LEMMA TypeStep ==
  ASSUME IInv, NEW m \in Message, NEW typed \in Line, Type(m, typed) PROVE IInv'
<1> DEFINE pc == IF RunCli(typed) = None THEN "failed" ELSE "typed"
<1>1. /\ line[m] = None
      /\ line' = [line EXCEPT ![m] = typed]
      /\ sending' = [sending EXCEPT ![m].pc = pc]
      /\ UNCHANGED <<recipient, moves, targets, stored, delivered, fetch, shown, answers,
                     responses, told>>
  BY DEF Type
<1>2. SendingInv(m) /\ sending[m].pc = "none"
  BY <1>1 DEF IInv, SendingInv
<1>3. Types
  BY DEF IInv
<1> HIDE DEF pc
<1>4. /\ sending'[m] = [sending[m] EXCEPT !.pc = pc]
      /\ line'[m] = typed /\ typed # None
  BY <1>1, <1>2, <1>3, LineIsSome DEF Types
<1>5. SendingInv(m)'
  <2>1. \/ sending'[m] = [pc |-> pc]
        \/ sending'[m] = [pc |-> pc, envelope |-> sending[m].envelope]
    BY <1>2, <1>4 DEF SendingInv
  <2>2. sending'[m].pc = pc
    BY <2>1
  <2>3. \/ sending'[m] = [pc |-> sending'[m].pc]
        \/ sending'[m] = [pc |-> sending'[m].pc, envelope |-> sending'[m].envelope]
    BY <2>1
  <2> QED  BY <1>4, <2>2, <2>3 DEF SendingInv, Input, pc
<1>6. StoredInv(m)'
  BY <1>1, <1>2 DEF IInv, StoredInv
<1>7. Types'
  BY <1>1, <1>3 DEF Types
<1>8. \A k \in Message \ {m} : line'[k] = line[k] /\ sending'[k] = sending[k]
  BY <1>1, <1>3 DEF Types
<1> QED  BY <1>1, <1>2, <1>5, <1>6, <1>7, <1>8, SenderStep

\* The devices the server names are listed once or more.
LEMMA ActiveLists ==
  ASSUME Active # {}, NEW devices \in SetToSeqs(Active) PROVE IsList(devices)
<1>1. Active \subseteq Device /\ IsFiniteSet(Active)
  BY ExchangeAssumption, FS_Subset DEF Active
<1>2. Cardinality(Active) \in Nat \ {0}
  BY <1>1, FS_CardinalityType, FS_EmptySet
<1>3. devices \in [1..Cardinality(Active) -> Active]
  BY DEF SetToSeqs
<1> QED  BY <1>1, <1>2, <1>3 DEF IsList

\* remoteSendMessage: the message is sealed for the devices the server names.
LEMMA SealStep ==
  ASSUME IInv, NEW m \in Message, SealForTargets(m) PROVE IInv'
<1>1. /\ sending[m].pc = "typed"
      /\ UNCHANGED <<recipient, moves, line, targets, stored, delivered, fetch, shown, answers,
                     responses, told>>
  BY DEF SealForTargets
<1>2. Types /\ SendingInv(m) /\ Input(line[m]) # None /\ line[m] \in Line
  BY <1>1, SentTyped DEF IInv, SendingInv
<1>3. SendingInv(m)' /\ DOMAIN sending' = Message
      /\ \A k \in Message \ {m} : sending'[k] = sending[k]
  <2>1. CASE Active = {}
    <3>1. sending' = [sending EXCEPT ![m].pc = "failed"]
      BY <2>1 DEF SealForTargets
    <3>2. sending'[m] = [sending[m] EXCEPT !.pc = "failed"]
      BY <1>2, <3>1 DEF Types
    <3>3. \/ sending'[m] = [pc |-> "failed"]
          \/ sending'[m] = [pc |-> "failed", envelope |-> sending[m].envelope]
      BY <1>2, <3>2 DEF SendingInv
    <3>4. sending'[m].pc = "failed"
      BY <3>3
    <3>5. \/ sending'[m] = [pc |-> sending'[m].pc]
          \/ sending'[m] = [pc |-> sending'[m].pc, envelope |-> sending'[m].envelope]
      BY <3>3
    <3> QED  BY <1>1, <1>2, <3>1, <3>4, <3>5 DEF SendingInv, Types
  <2>2. CASE Active # {}
    <3>1. PICK devices \in SetToSeqs(Active) :
            sending' = [sending EXCEPT ![m] =
                [pc |-> "submitted", envelope |-> Envelope(m, Input(line[m]), devices)]]
      BY <2>2 DEF SealForTargets, Input
    <3> DEFINE e == Envelope(m, Input(line[m]), devices)
    <3>2. IsEnvelope(m, line[m], e)
      BY <1>2, <2>2, ActiveLists DEF IsEnvelope
    <3> HIDE DEF e
    <3>3. sending'[m] = [pc |-> "submitted", envelope |-> e]
      BY <1>2, <3>1 DEF Types, e
    <3> QED  BY <1>1, <1>2, <3>1, <3>2, <3>3 DEF SendingInv, Types
  <2> QED  BY <2>1, <2>2
<1>4. StoredInv(m)'
  BY <1>1 DEF IInv, StoredInv
<1>5. Types'
  BY <1>1, <1>2, <1>3 DEF Types
<1> QED  BY <1>1, <1>3, <1>4, <1>5, SenderStep

\* createMessage, first half: the checks.
LEMMA CheckMessageStep ==
  ASSUME IInv, NEW m \in Message, CheckMessage(m) PROVE IInv'
<1> DEFINE pc == IF /\ KeyWrapScope(sending[m].envelope)
                    /\ ContentAadHashMatches(sending[m].envelope)
                    /\ MessageSignatureHolds(sending[m].envelope, SigningKey(SenderId))
                 THEN "checked" ELSE "failed"
<1>1. /\ sending[m].pc = "submitted" /\ sending' = [sending EXCEPT ![m].pc = pc]
      /\ UNCHANGED <<recipient, moves, line, targets, stored, delivered, fetch, shown, answers,
                     responses, told>>
  BY DEF CheckMessage
<1>2. pc \in {"checked", "failed"}
  OBVIOUS
<1> HIDE DEF pc
<1>3. Types /\ SendingInv(m)
  BY DEF IInv
<1>4. /\ sending[m] = [pc |-> sending[m].pc, envelope |-> sending[m].envelope]
      /\ IsEnvelope(m, line[m], sending[m].envelope)
  BY <1>1, <1>3 DEF SendingInv
<1>5. sending'[m] = [pc |-> pc, envelope |-> sending[m].envelope]
  BY <1>1, <1>3, <1>4 DEF Types
<1>6. line[m] # None
  BY <1>1, SentTyped
<1>7. SendingInv(m)'
  BY <1>1, <1>2, <1>4, <1>5, <1>6 DEF SendingInv
<1>8. StoredInv(m)'
  BY <1>1 DEF IInv, StoredInv
<1>9. Types' /\ \A k \in Message \ {m} : sending'[k] = sending[k]
  BY <1>1, <1>3 DEF Types
<1> QED  BY <1>1, <1>7, <1>8, <1>9, SenderStep

\* createMessage, second half: the rows are there, and the sender's record may be.
LEMMA StoreMessageStep ==
  ASSUME IInv, NEW m \in Message, StoreMessage(m) PROVE IInv'
<1> DEFINE e == sending[m].envelope
<1>1. /\ sending[m].pc = "checked"
      /\ stored' = [stored EXCEPT ![m] = e]
      /\ sending' = [sending EXCEPT ![m] = [pc |-> "sent"]]
      /\ UNCHANGED <<recipient, moves, line, delivered, fetch, shown, answers, responses, told>>
  BY DEF StoreMessage
<1>2. PICK kept \in {<<>>, e.keyWraps} :
          targets' = [targets EXCEPT ![m] = [i \in DOMAIN kept |-> kept[i].deviceId]]
  BY DEF StoreMessage
<1> HIDE DEF e
<1>3. Types /\ IsEnvelope(m, line[m], e) /\ line[m] # None
  BY <1>1, SentTyped DEF IInv, SendingInv, e
<1>4. sending'[m] = [pc |-> "sent"] /\ stored'[m] = e
      /\ targets'[m] = [i \in DOMAIN kept |-> kept[i].deviceId]
  BY <1>1, <1>2, <1>3 DEF Types
<1>5. SendingInv(m)'
  BY <1>1, <1>3, <1>4 DEF SendingInv
<1>6. targets'[m] = <<>> \/ WrappedDevices(e) \subseteq Range(targets'[m])
  <2>1. CASE kept = <<>>
    <3>1. DOMAIN kept = {} /\ kept = [i \in DOMAIN kept |-> kept[i].deviceId]
      BY <2>1
    <3> QED  BY <1>4, <2>1, <3>1
  <2>2. CASE kept = e.keyWraps
    BY <1>4, <2>2 DEF WrappedDevices, Range
  <2> QED  BY <2>1, <2>2
<1>7. StoredInv(m)'
  BY <1>1, <1>3, <1>4, <1>6 DEF StoredInv
<1>8. Types'
  BY <1>1, <1>2, <1>3 DEF Types
<1>9. \A k \in Message \ {m} : /\ sending'[k] = sending[k] /\ stored'[k] = stored[k]
                               /\ targets'[k] = targets[k]
  BY <1>1, <1>2, <1>3 DEF Types
<1> QED  BY <1>1, <1>5, <1>7, <1>8, <1>9, SenderStep

\* The retention job: rows go.
LEMMA PruneStep ==
  ASSUME IInv, NEW m \in Message, Prune(m) PROVE IInv'
<1>1. /\ stored' = [stored EXCEPT ![m] = None]
      /\ responses' = [responses EXCEPT ![m] = <<>>]
      /\ delivered' \subseteq delivered
      /\ UNCHANGED <<recipient, moves, line, sending, targets, fetch, shown, answers, told>>
  BY DEF Prune
<1>2. Types
  BY DEF IInv
<1>3. \A k \in Message : stored'[k] \in {None, stored[k]} /\ responses'[k] \in {responses[k], <<>>}
  BY <1>1, <1>2 DEF Types
<1>4. Types'
  <2>1. responses' \in [Message -> Seq(Nat)]
    BY <1>1, <1>2, EmptySeq DEF Types
  <2> QED  BY <1>1, <1>2, <2>1 DEF Types
<1> QED  BY <1>1, <1>3, <1>4, QuietStep

-----------------------------------------------------------------------------
(* Steps of a device that fetches *)

\* What is shown of a message has its id, and an answer to it is for the sender.
LEMMA ShowsParts ==
  ASSUME NEW m, NEW typed
  PROVE  Shows(m, typed).id = m /\ Shows(m, typed).senderId = SenderId /\ ~Shows(m, typed).answered
BY DEF Shows, LocalMessage, Metadata

\* A message that is new is as it was typed, and not answered.
LEMMA FreshIsBacked ==
  ASSUME NEW d, NEW m, line[m] \in Sendable, NEW local, local = Shows(m, line[m])
  PROVE  Backed(d, m, local, line[m], answers)
BY ShowsParts DEF Backed, IsLocal, Sendable

\* A synchronisation that is over holds nothing.
LEMMA DoneIsRight == ASSUME NEW f \in Sync, fetch'[f] = Done PROVE FetchInv(f)'
<1>1. /\ Done.pc = "done" /\ Done.held = Empty
      /\ Done = [pc |-> Done.pc, listed |-> Done.listed, reply |-> Done.reply, held |-> Done.held]
  BY DEF Done, Quiet
<1>2. DOMAIN Empty = Message /\ \A m \in Message : Empty[m] = None
  BY DEF Empty
<1> QED  BY <1>1, <1>2 DEF FetchInv, Backed

\* runPendingSync: what the device shows is right, and so is what is held of it.
LEMMA StartStep ==
  ASSUME IInv, NEW f \in Sync, StartSync(f) PROVE IInv'
<1> DEFINE d == Of(f)
<1>1. /\ fetch' = [fetch EXCEPT ![f].pc = "started", ![f].held = shown[d]]
      /\ UNCHANGED <<recipient, moves, line, sending, targets, stored, delivered, shown,
                     answers, responses, told>>
  BY DEF StartSync
<1>2. Types /\ FetchInv(f)
  BY DEF IInv
<1>3. d \in Device
  BY OfSync
<1> HIDE DEF d
<1>4. DOMAIN shown[d] = Message
      /\ \A m \in Message : Backed(d, m, shown[d][m], line[m], answers)
  BY <1>2, <1>3 DEF IInv, Types, ShownInv
<1>5. fetch'[f] = [pc |-> "started", listed |-> fetch[f].listed, reply |-> fetch[f].reply,
                   held |-> shown[d]]
  BY <1>1, <1>2 DEF Types, FetchInv
<1>6. /\ fetch'[f].pc = "started" /\ fetch'[f].held = shown[d]
      /\ fetch'[f] = [pc |-> fetch'[f].pc, listed |-> fetch'[f].listed, reply |-> fetch'[f].reply,
                      held |-> fetch'[f].held]
  BY <1>5
<1>7. FetchInv(f)'
  BY <1>1, <1>4, <1>6 DEF FetchInv, d, Of
<1>8. \A c \in Sync \ {f} : fetch'[c] = fetch[c]
  BY <1>1, <1>2 DEF Types
<1>9. Types'
  BY <1>1, <1>2 DEF Types
<1> QED  BY <1>1, <1>7, <1>8, <1>9, QuietStep

\* pendingMessages, first query: what is listed is stored, and has a wrap for the device.
LEMMA ListStep ==
  ASSUME IInv, NEW f \in Sync, ListPending(f) PROVE IInv'
<1> DEFINE d == Of(f)
           rows == {<<m, stored[m]>> : m \in {m \in Message : /\ stored[m] # None
                                                             /\ d \in WrappedDevices(stored[m])
                                                             /\ <<d, m>> \notin delivered}}
<1>1. /\ fetch' = [fetch EXCEPT ![f].pc = "listed", ![f].listed = rows]
      /\ UNCHANGED <<recipient, moves, line, sending, targets, stored, delivered, shown,
                     answers, responses, told>>
  BY DEF ListPending
<1>2. Types /\ FetchInv(f)
  BY DEF IInv
<1>3. \A l \in rows : Listed(d, l)'
  <2> SUFFICES ASSUME NEW m \in Message, stored[m] # None, d \in WrappedDevices(stored[m])
               PROVE  Listed(d, <<m, stored[m]>>)'
    BY <1>1
  <2>1. sending[m].pc = "sent" /\ IsEnvelope(m, line[m], stored[m])
    BY DEF IInv, StoredInv
  <2> QED  BY <1>1, <2>1 DEF Listed, Of
<1> HIDE DEF rows
<1>4. fetch'[f] = [pc |-> "listed", listed |-> rows, reply |-> fetch[f].reply, held |-> fetch[f].held]
  BY <1>1, <1>2 DEF Types, FetchInv
<1>5. /\ fetch'[f].pc = "listed" /\ fetch'[f].listed = rows /\ fetch'[f].held = fetch[f].held
      /\ fetch'[f] = [pc |-> fetch'[f].pc, listed |-> fetch'[f].listed, reply |-> fetch'[f].reply,
                      held |-> fetch'[f].held]
  BY <1>4
<1>6. FetchInv(f)'
  BY <1>1, <1>2, <1>3, <1>5 DEF FetchInv, Of
<1>7. \A c \in Sync \ {f} : fetch'[c] = fetch[c]
  BY <1>1, <1>2 DEF Types
<1>8. Types'
  BY <1>1, <1>2 DEF Types
<1> QED  BY <1>1, <1>6, <1>7, <1>8, QuietStep

\* pendingMessages, second query: a message whose row is there comes with all its wraps,
\* which open to what was typed; one whose row is gone with the wrap of this device.
LEMMA ReplyStep ==
  ASSUME IInv, NEW f \in Sync, ReplyPending(f) PROVE IInv'
<1> DEFINE d == Of(f)
           Wraps(m, row) == IF stored[m] = None THEN <<OwnWrap(d, row.keyWraps)>>
                            ELSE Sorted(stored[m].keyWraps)
           reply == {Pending(d, l[1], l[2], Wraps(l[1], l[2])) : l \in fetch[f].listed}
<1>1. /\ fetch[f].pc = "listed"
      /\ fetch' = [fetch EXCEPT ![f].pc = "replied", ![f].listed = {}, ![f].reply = reply]
      /\ UNCHANGED <<recipient, moves, line, sending, targets, stored, delivered, shown,
                     answers, responses, told>>
  BY DEF ReplyPending
<1>2. Types /\ FetchInv(f)
  BY DEF IInv
<1>3. ASSUME NEW l \in fetch[f].listed
      PROVE  Replied(d, Pending(d, l[1], l[2], Wraps(l[1], l[2])))
  <2> DEFINE m == l[1]
             row == l[2]
             p == Pending(d, m, row, Wraps(m, row))
  <2>1. /\ m \in Message /\ sending[m].pc = "sent" /\ IsEnvelope(m, line[m], row)
        /\ d \in WrappedDevices(row) /\ stored[m] \in {None, row}
    BY <1>1, <1>2 DEF FetchInv, Listed
  <2> HIDE DEF m, row
  <2>2. /\ Decrypted(d, p) \in {None, Shows(m, line[m])}
        /\ stored[m] # None => Decrypted(d, p) = Shows(m, line[m])
    <3>1. CASE stored[m] = None
      <4>1. p = Pending(d, m, row, <<OwnWrap(d, row.keyWraps)>>)
        BY <3>1
      <4> HIDE DEF p
      <4> QED  BY <2>1, <3>1, <4>1, OwnShows
    <3>2. CASE stored[m] # None
      <4>1. p = Pending(d, m, row, Sorted(row.keyWraps))
        BY <2>1, <3>2
      <4> HIDE DEF p
      <4> QED  BY <2>1, <3>2, <4>1, SortedShows
    <3> QED  BY <3>1, <3>2
  <2>3. p.messageId = m
    BY DEF Pending
  <2>4. Input(line[m]) # None
    BY <2>1 DEF IsEnvelope
  <2> HIDE DEF p
  <2>5. Replied(d, p)
    BY <2>1, <2>2, <2>3, <2>4 DEF Replied
  <2> QED  BY <2>5 DEF p, m, row
<1>4. \A p \in reply : Replied(d, p)'
  <2>1. \A p \in reply : Replied(d, p)
    BY <1>3
  <2> SUFFICES ASSUME NEW p, Replied(d, p) PROVE Replied(d, p)'
    BY <2>1
  <2> QED  BY <1>1 DEF Replied
<1> HIDE DEF reply
<1>5. fetch'[f] = [pc |-> "replied", listed |-> {}, reply |-> reply, held |-> fetch[f].held]
  BY <1>1, <1>2 DEF Types, FetchInv
<1>6. FetchInv(f)'
  <2>1. /\ fetch'[f].pc = "replied" /\ fetch'[f].reply = reply /\ fetch'[f].held = fetch[f].held
        /\ fetch'[f] = [pc |-> fetch'[f].pc, listed |-> fetch'[f].listed, reply |-> fetch'[f].reply,
                        held |-> fetch'[f].held]
    BY <1>5
  <2> QED  BY <1>1, <1>2, <1>4, <2>1 DEF FetchInv, Of
<1>7. \A c \in Sync \ {f} : fetch'[c] = fetch[c]
  BY <1>1, <1>2 DEF Types
<1>8. Types'
  BY <1>1, <1>2 DEF Types
<1> QED  BY <1>1, <1>6, <1>7, <1>8, QuietStep

\* What a device is to hold of a synchronisation is what it held, or a message as typed.
LEMMA MergedIs ==
  ASSUME IInv, NEW f \in Sync, fetch[f].pc = "replied",
         NEW merged, merged = MergePending(fetch[f].held, Fetched(f))
  PROVE  /\ DOMAIN merged = Message
         /\ \A m \in Message : \/ merged[m] = fetch[f].held[m]
                               \/ line[m] \in Sendable /\ merged[m] = Shows(m, line[m])
<1> DEFINE decoded == Fetched(f)
           held == fetch[f].held
<1>1. FetchInv(f)
  BY DEF IInv
<1>2. ASSUME NEW fresh \in decoded
      PROVE  /\ fresh.id \in Message /\ line[fresh.id] \in Sendable
             /\ fresh = Shows(fresh.id, line[fresh.id])
  <2>1. PICK p \in fetch[f].reply : fresh = Decrypted(Of(f), p) /\ Decrypted(Of(f), p) # None
    BY <1>2 DEF Fetched
  <2> DEFINE m == p.messageId
  <2>2. /\ m \in Message /\ sending[m].pc = "sent" /\ Input(line[m]) # None
        /\ Decrypted(Of(f), p) = Shows(m, line[m])
    BY <1>1, <2>1 DEF FetchInv, Replied
  <2>3. line[m] \in Line
    BY <2>2, SentTyped
  <2> QED  BY <2>1, <2>2, <2>3, ShowsParts DEF Sendable
<1> HIDE DEF decoded, held
<1>3. merged = MergePending(held, decoded)
  BY DEF held, decoded
<1>4. ASSUME NEW m \in Message, merged[m] # held[m]
      PROVE  line[m] \in Sendable /\ merged[m] = Shows(m, line[m])
  <2>1. \E fresh \in decoded : fresh.id = m /\ merged[m] = fresh
    BY <1>3, <1>4 DEF MergePending
  <2> QED  BY <1>2, <2>1
<1>5. DOMAIN merged = Message
  BY <1>3 DEF MergePending
<1> QED  BY <1>4, <1>5 DEF held

\* syncPendingState: what is merged is right.
LEMMA MergeStep ==
  ASSUME IInv, NEW f \in Sync, Merge(f) PROVE IInv'
<1> DEFINE d == Of(f)
           ids == {message.id : message \in Fetched(f)}
           merged == MergePending(fetch[f].held, Fetched(f))
<1>1. /\ fetch[f].pc = "replied"
      /\ fetch' = [fetch EXCEPT ![f] =
                      IF Fetched(f) = {} THEN Done
                      ELSE [pc |-> "merged", listed |-> ids, reply |-> {}, held |-> merged]]
      /\ UNCHANGED <<recipient, moves, line, sending, targets, stored, delivered, shown,
                     answers, responses, told>>
  BY DEF Merge
<1>2. Types /\ FetchInv(f)
  BY DEF IInv
<1>3. /\ DOMAIN merged = Message
      /\ \A m \in Message : \/ merged[m] = fetch[f].held[m]
                            \/ line[m] \in Sendable /\ merged[m] = Shows(m, line[m])
  BY <1>1, MergedIs
<1> HIDE DEF ids, merged, d
<1>4. \A m \in Message : Backed(d, m, merged[m], line[m], answers)
  <2> SUFFICES ASSUME NEW m \in Message PROVE Backed(d, m, merged[m], line[m], answers)
    OBVIOUS
  <2>1. CASE merged[m] = fetch[f].held[m]
    BY <1>2, <2>1 DEF FetchInv, d
  <2>2. CASE line[m] \in Sendable /\ merged[m] = Shows(m, line[m])
    BY <2>2, FreshIsBacked
  <2> QED  BY <1>3, <2>1, <2>2
<1>5. fetch'[f] = Done
      \/ fetch'[f] = [pc |-> "merged", listed |-> ids, reply |-> {}, held |-> merged]
  BY <1>1, <1>2 DEF Types
<1>6. FetchInv(f)'
  <2>1. CASE fetch'[f] = Done
    BY <2>1, DoneIsRight
  <2>2. CASE fetch'[f] = [pc |-> "merged", listed |-> ids, reply |-> {}, held |-> merged]
    <3>1. /\ fetch'[f].pc = "merged" /\ fetch'[f].held = merged
          /\ fetch'[f] = [pc |-> fetch'[f].pc, listed |-> fetch'[f].listed,
                          reply |-> fetch'[f].reply, held |-> fetch'[f].held]
      BY <2>2
    <3> QED  BY <1>1, <1>3, <1>4, <3>1 DEF FetchInv, d, Of
  <2> QED  BY <1>5, <2>1, <2>2
<1>7. \A c \in Sync \ {f} : fetch'[c] = fetch[c]
  BY <1>1, <1>2 DEF Types
<1>8. Types'
  BY <1>1, <1>2 DEF Types
<1> QED  BY <1>1, <1>6, <1>7, <1>8, QuietStep

\* markDelivered: what is left to report shrinks.
LEMMA MarkStep ==
  ASSUME IInv, NEW f \in Sync, NEW m \in Message, Mark(f, m) PROVE IInv'
<1> DEFINE left == fetch[f].listed \ {m}
           d == Of(f)
<1>1. /\ fetch[f].pc = "merged"
      /\ fetch' = [fetch EXCEPT ![f].listed = left]
      /\ delivered' \in {delivered, delivered \cup {<<d, m>>}}
      /\ UNCHANGED <<recipient, moves, line, sending, targets, stored, shown, answers,
                     responses, told>>
  BY DEF Mark
<1>2. Types /\ FetchInv(f) /\ d \in Device
  BY OfSync DEF IInv
<1> HIDE DEF left, d
<1>3. fetch'[f] = [pc |-> "merged", listed |-> left, reply |-> fetch[f].reply, held |-> fetch[f].held]
  BY <1>1, <1>2 DEF Types, FetchInv
<1>4. FetchInv(f)'
  <2>1. /\ fetch'[f].pc = "merged" /\ fetch'[f].held = fetch[f].held
        /\ fetch'[f] = [pc |-> fetch'[f].pc, listed |-> fetch'[f].listed, reply |-> fetch'[f].reply,
                        held |-> fetch'[f].held]
    BY <1>3
  <2> QED  BY <1>1, <1>2, <2>1 DEF FetchInv, Of
<1>5. \A c \in Sync \ {f} : fetch'[c] = fetch[c]
  BY <1>1, <1>2 DEF Types
<1>6. Types'
  BY <1>1, <1>2 DEF Types
<1> QED  BY <1>1, <1>4, <1>5, <1>6, QuietStep

-----------------------------------------------------------------------------
(* Steps that show, answer and tell *)

\* An answer is one of a device.
LEMMA AnswerTypes ==
  ASSUME Types, NEW n \in DOMAIN answers
  PROVE  /\ answers[n] \in [device : Device, draft : Given, envelope : AnswerForms,
                            pc : Stage]
         /\ answers[n].device \in Device /\ answers[n].draft \in Given
         /\ Len(answers) \in Nat /\ DOMAIN answers = 1..Len(answers)
<1> DEFINE S == [device : Device, draft : Given, envelope : AnswerForms,
                 pc : Stage]
<1>1. answers \in Seq(S)
  BY DEF Types
<1> HIDE DEF S
<1>2. answers[n] \in S /\ Len(answers) \in Nat /\ DOMAIN answers = 1..Len(answers)
  BY <1>1, LenProperties
<1> QED  BY <1>2 DEF S

\* A step that leaves what was sent alone: what it adds must be right.
LEMMA AnswerStep ==
  ASSUME IInv, UNCHANGED <<line, sending, targets, stored>>, Types', AnswersGrow,
         \A f \in Sync : fetch'[f] = fetch[f] \/ FetchInv(f)',
         \A d \in Device, m \in Message :
            shown'[d][m] = shown[d][m] \/ Backed(d, m, shown'[d][m], line[m], answers'),
         \A m \in Message : responses'[m] = responses[m] \/ ResponsesInv(m)',
         \A m \in Message : told'[m] = told[m] \/ ToldInv(m)',
         \A n \in DOMAIN answers :
            LET m == answers[n].envelope.messageId
            IN  answers'[n].pc \in Taken \cup {"checked"} =>
                  \/ answers[n].pc \in Taken \cup {"checked"}
                  \/ /\ sending[m].pc = "sent"
                     /\ targets[m] = <<>> \/ answers[n].device \in Range(targets[m]),
         \A n \in DOMAIN answers' \ DOMAIN answers : AnswerInv(answers[n])'
  PROVE  IInv'
<1>1. \A k \in Message : Kept(k)
  BY DEF Kept
<1>2. \A k \in Message : SendingInv(k)' /\ StoredInv(k)'
  BY DEF IInv, SendingInv, StoredInv
<1>3. \A k \in Message : ResponsesInv(k)'
  BY ResponsesKept DEF IInv
<1>4. \A k \in Message : ToldInv(k)'
  BY <1>1, ToldKept DEF IInv
<1>5. \A f \in Sync : FetchInv(f)'
  BY <1>1, FetchKept
<1>6. \A d \in Device, k \in Message : ShownInv(d, k)'
  <2> SUFFICES ASSUME NEW d \in Device, NEW k \in Message PROVE ShownInv(d, k)'
    OBVIOUS
  <2>1. CASE shown'[d][k] = shown[d][k]
    BY <1>1, <2>1, ShownKept DEF IInv
  <2>2. CASE Backed(d, k, shown'[d][k], line[k], answers')
    BY <2>2 DEF ShownInv
  <2> QED  BY <2>1, <2>2
<1>7. \A n \in DOMAIN answers : AnswerInv(answers[n])'
  <2> SUFFICES ASSUME NEW n \in DOMAIN answers PROVE AnswerInv(answers[n])'
    OBVIOUS
  <2>1. AnswerInv(answers[n])
    BY DEF IInv
  <2>2. /\ answers'[n].device = answers[n].device /\ answers'[n].draft = answers[n].draft
        /\ answers'[n].envelope = answers[n].envelope
    BY DEF AnswersGrow
  <2> QED  BY <1>1, <2>1, <2>2, AnswerKept
<1> QED  BY <1>2, <1>3, <1>4, <1>5, <1>6, <1>7 DEF IInv

\* runPendingSync, the end: what was merged is shown, or what was shown stays.
LEMMA ShowMoves ==
  ASSUME IInv, NEW f \in Sync, Show(f)
  PROVE  /\ DOMAIN shown' = Device /\ \A c \in Device : DOMAIN shown'[c] = Message
         /\ \A c \in Device \ {Of(f)} : shown'[c] = shown[c]
         /\ \A m \in Message : Backed(Of(f), m, shown'[Of(f)][m], line[m], answers)
<1> DEFINE d == Of(f)
<1>1. PICK screen \in {fetch[f].held, shown[d]} : shown' = [shown EXCEPT ![d] = screen]
  BY DEF Show
<1>2. Types /\ FetchInv(f) /\ d \in Device
  BY OfSync DEF IInv
<1>3. DOMAIN screen = Message /\ \A m \in Message : Backed(d, m, screen[m], line[m], answers)
  <2>1. CASE screen = fetch[f].held
    BY <1>2, <2>1 DEF FetchInv
  <2>2. CASE screen = shown[d]
    BY <1>2, <2>2 DEF IInv, Types, ShownInv
  <2> QED  BY <2>1, <2>2
<1> HIDE DEF d
<1>4. shown'[d] = screen /\ \A c \in Device \ {d} : shown'[c] = shown[c]
  BY <1>1, <1>2 DEF Types
<1>5. DOMAIN shown' = Device /\ \A c \in Device : DOMAIN shown'[c] = Message
  BY <1>1, <1>2, <1>3, <1>4 DEF Types
<1> QED  BY <1>3, <1>4, <1>5 DEF d

\* The other things stay as they are.
LEMMA ShowStep ==
  ASSUME IInv, NEW f \in Sync, Show(f) PROVE IInv'
<1>1. /\ fetch' = [fetch EXCEPT ![f] = Done]
      /\ UNCHANGED <<recipient, moves, line, sending, targets, stored, delivered, answers,
                     responses, told>>
  BY DEF Show
<1>2. Types
  BY DEF IInv
<1>3. fetch'[f] = Done /\ \A c \in Sync \ {f} : fetch'[c] = fetch[c]
  BY <1>1, <1>2 DEF Types
<1>4. \A c \in Sync : fetch'[c] = fetch[c] \/ FetchInv(c)'
  BY <1>3, DoneIsRight
<1>5. DOMAIN shown' = Device /\ \A c \in Device : DOMAIN shown'[c] = Message
  BY ShowMoves
<1>6. Types'
  BY <1>1, <1>2, <1>5 DEF Types
<1>7. AnswersGrow
  BY <1>1 DEF AnswersGrow
<1>8. \A c \in Device, m \in Message :
          shown'[c][m] = shown[c][m] \/ Backed(c, m, shown'[c][m], line[m], answers')
  BY <1>1, ShowMoves
<1>9. \A n \in DOMAIN answers : answers'[n] = answers[n]
  BY <1>1
<1> QED  BY <1>1, <1>4, <1>6, <1>7, <1>8, <1>9, AnswerStep

\* submitReply and its like: the answer is made of what is shown.
LEMMA AnswerMade ==
  ASSUME IInv, NEW d \in Device, NEW m \in Message, NEW draft \in Given, Answer(d, m, draft)
  PROVE  IInv'
<1> DEFINE n == Len(answers) + 1
           e == ResponseEnvelope(d, n, shown[d][m], draft)
           a == [device |-> d, draft |-> draft, pc |-> "submitted", envelope |-> e]
           S == [device : Device, draft : Given, envelope : AnswerForms,
                 pc : Stage]
<1>1. /\ shown[d][m] # None /\ ~shown[d][m].answered /\ n <= MaxAnswers
      /\ answers' = Append(answers, a)
      /\ UNCHANGED <<recipient, moves, line, sending, targets, stored, delivered, fetch, shown,
                     responses, told>>
  BY DEF Answer
<1>2. Types /\ IsLocal(m, line[m], shown[d][m])
  BY <1>1 DEF IInv, ShownInv, Backed
<1>3. shown[d][m] = Shows(m, line[m]) /\ line[m] \in Line /\ Input(line[m]) # None
  <2>1. [Shows(m, line[m]) EXCEPT !.answered = TRUE].answered = TRUE
    BY DEF Shows, LocalMessage
  <2> QED  BY <1>1, <1>2, <2>1 DEF IsLocal
<1>4. answers \in Seq(S)
  BY <1>2 DEF Types
<1>5. n \in 1..MaxAnswers
  BY <1>1, <1>4, LenProperties, ExchangeAssumption
<1>6. e \in AnswerForms /\ e = ResponseEnvelope(d, n, Shows(m, line[m]), draft)
  BY <1>3, <1>5 DEF AnswerForms, Sendable
<1>7. e.messageId = m
  BY <1>6, ShowsParts, AnswerParts
<1> HIDE DEF e
<1>8. a \in S
  BY <1>6 DEF Stage
<1> HIDE DEF a, S
<1>9. /\ answers' \in Seq(S) /\ Len(answers') = n /\ answers'[n] = a
      /\ \A k \in 1..Len(answers) : answers'[k] = answers[k]
  BY <1>1, <1>4, <1>8, AppendProperties
<1>10. /\ DOMAIN answers = 1..Len(answers) /\ DOMAIN answers' = 1..n /\ Len(answers) \in Nat
  BY <1>4, <1>9, LenProperties
<1>11. AnswersGrow
  BY <1>9, <1>10 DEF AnswersGrow
<1>12. DOMAIN answers' \ DOMAIN answers = {n}
  BY <1>10
<1>13. ASSUME NEW k \in DOMAIN answers' \ DOMAIN answers PROVE AnswerInv(answers[k])'
  <2>1. answers'[k] = a
    BY <1>9, <1>12, <1>13
  <2>2. /\ answers'[k].device = d /\ answers'[k].draft = draft /\ answers'[k].pc = "submitted"
        /\ answers'[k].envelope = e
    BY <2>1 DEF a
  <2>3. line' = line /\ line[m] \in Sendable
    BY <1>1, <1>3 DEF Sendable
  <2> QED  BY <1>5, <1>6, <1>7, <2>2, <2>3 DEF AnswerInv, Taken
<1>14. Types'
  BY <1>1, <1>2, <1>9 DEF Types, S
<1>15. \A k \in DOMAIN answers : answers'[k] = answers[k]
  BY <1>9, <1>10
<1>16. \A k \in Device, l \in Message : shown'[k][l] = shown[k][l]
  BY <1>1
<1> QED  BY <1>1, <1>11, <1>13, <1>14, <1>15, <1>16, AnswerStep

\* A step that moves one answer on.
LEMMA AnswerMoves ==
  ASSUME Types, NEW n \in DOMAIN answers, NEW pc \in Stage,
         answers' = [answers EXCEPT ![n].pc = pc], answers[n].pc \in Taken => pc \in Taken
  PROVE  /\ answers' \in Seq([device : Device, draft : Given, envelope : AnswerForms,
                              pc : Stage])
         /\ DOMAIN answers' = DOMAIN answers /\ AnswersGrow /\ answers'[n].pc = pc
         /\ \A k \in DOMAIN answers : k # n => answers'[k] = answers[k]
<1> DEFINE S == [device : Device, draft : Given, envelope : AnswerForms,
                 pc : Stage]
           a == [answers[n] EXCEPT !.pc = pc]
<1>1. answers \in Seq(S) /\ answers[n] \in S /\ DOMAIN answers = 1..Len(answers)
  BY AnswerTypes DEF Types
<1>2. /\ a \in S /\ a.pc = pc /\ a.device = answers[n].device /\ a.draft = answers[n].draft
      /\ a.envelope = answers[n].envelope
  BY <1>1
<1>3. answers' = [answers EXCEPT ![n] = a]
  OBVIOUS
<1> HIDE DEF a, S
<1>4. /\ answers' \in Seq(S) /\ Len(answers') = Len(answers)
      /\ \A k \in 1..Len(answers) : answers'[k] = IF k = n THEN a ELSE answers[k]
  BY <1>1, <1>2, <1>3, ExceptSeq
<1>5. DOMAIN answers' = DOMAIN answers
  BY <1>1, <1>4, LenProperties
<1>6. AnswersGrow
  BY <1>1, <1>2, <1>4, <1>5 DEF AnswersGrow
<1> QED  BY <1>1, <1>2, <1>4, <1>5, <1>6 DEF S

\* submitResponse, first half: an answer passes when its device was sent the message.
LEMMA CheckResponseStep ==
  ASSUME IInv, NEW n \in DOMAIN answers, CheckResponse(n) PROVE IInv'
<1> DEFINE d == answers[n].device
           e == answers[n].envelope
           m == e.messageId
           accepted == /\ stored[m] # None
                       /\ recipient[d] = "ours"
                       /\ d \in WrappedDevices(stored[m])
                       /\ ~Responded(m)
                       /\ e.kind = KindOf[stored[m].metadata.mode]
                       /\ ResponseSignatureHolds(e, SigningKey(d))
           pc == IF accepted THEN "checked" ELSE "refused"
<1>1. /\ answers[n].pc = "submitted" /\ answers' = [answers EXCEPT ![n].pc = pc]
      /\ UNCHANGED <<recipient, moves, line, sending, targets, stored, delivered, fetch, shown,
                     responses, told>>
  BY DEF CheckResponse
<1>2. pc \in Stage /\ answers[n].pc \notin Taken
  BY <1>1 DEF Stage, Taken
<1>3. pc \in Taken \cup {"checked"} => stored[m] # None /\ d \in WrappedDevices(stored[m])
  BY DEF Taken
<1> HIDE DEF pc
<1>4. Types /\ AnswerInv(answers[n])
  BY DEF IInv
<1>5. /\ DOMAIN answers' = DOMAIN answers /\ AnswersGrow /\ answers'[n].pc = pc
      /\ \A k \in DOMAIN answers : k # n => answers'[k] = answers[k]
  BY <1>1, <1>2, <1>4, AnswerMoves
<1>6. Types'
  BY <1>1, <1>2, <1>4, AnswerMoves DEF Types
<1>7. pc \in Taken \cup {"checked"} =>
        sending[m].pc = "sent" /\ (targets[m] = <<>> \/ d \in Range(targets[m]))
  BY <1>3, <1>4 DEF IInv, StoredInv, AnswerInv
<1>8. \A c \in Device, k \in Message : shown'[c][k] = shown[c][k]
  BY <1>1
<1> QED  BY <1>1, <1>5, <1>6, <1>7, <1>8, AnswerStep

\* submitResponse, second half: the response.
LEMMA StoreResponseStep ==
  ASSUME IInv, NEW n \in DOMAIN answers, StoreResponse(n) PROVE IInv'
<1> SUFFICES ASSUME NEW m \in Message, m = answers[n].envelope.messageId PROVE IInv'
  BY DEF IInv, AnswerInv
<1>1. /\ answers[n].pc = "checked" /\ answers[n].pc \notin Taken
      /\ UNCHANGED <<recipient, moves, line, sending, targets, stored, delivered, fetch, shown, told>>
  BY DEF StoreResponse, Taken
<1>2. Types /\ AnswerInv(answers[n]) /\ n \in Nat
  BY AnswerTypes DEF IInv
<1>3. "refused" \in Stage /\ "stored" \in Stage /\ "stored" \in Taken
  BY DEF Stage, Taken
<1>4. \A c \in Device, k \in Message : shown'[c][k] = shown[c][k]
  BY <1>1
<1>5. CASE stored[m] = None
  <2>1. answers' = [answers EXCEPT ![n].pc = "refused"] /\ UNCHANGED responses
    BY <1>5 DEF StoreResponse
  <2>2. /\ DOMAIN answers' = DOMAIN answers /\ AnswersGrow /\ answers'[n].pc = "refused"
        /\ \A k \in DOMAIN answers : k # n => answers'[k] = answers[k]
    BY <1>1, <1>2, <1>3, <2>1, AnswerMoves
  <2>3. Types'
    BY <1>1, <1>2, <1>3, <2>1, AnswerMoves DEF Types
  <2> QED  BY <1>1, <1>4, <2>1, <2>2, <2>3, AnswerStep DEF Taken
<1>6. CASE stored[m] # None
  <2>1. /\ answers' = [answers EXCEPT ![n].pc = "stored"]
        /\ responses' = [responses EXCEPT ![m] = Append(@, n)]
    BY <1>6 DEF StoreResponse
  <2>2. /\ DOMAIN answers' = DOMAIN answers /\ AnswersGrow /\ answers'[n].pc = "stored"
        /\ \A k \in DOMAIN answers : k # n => answers'[k] = answers[k]
    BY <1>1, <1>2, <1>3, <2>1, AnswerMoves
  <2>3. /\ responses[m] \in Seq(Nat) /\ responses'[m] = Append(responses[m], n)
        /\ \A k \in Message \ {m} : responses'[k] = responses[k]
    BY <1>2, <2>1 DEF Types
  <2>4. /\ responses'[m] \in Seq(Nat) /\ DOMAIN responses'[m] = 1..(Len(responses[m]) + 1)
        /\ \A i \in 1..Len(responses[m]) : responses'[m][i] = responses[m][i]
        /\ responses'[m][Len(responses[m]) + 1] = n
        /\ Len(responses[m]) \in Nat /\ DOMAIN responses[m] = 1..Len(responses[m])
    BY <1>2, <2>3, AppendProperties, LenProperties
  <2>5. \A i \in DOMAIN responses'[m] : i \in DOMAIN responses[m] \/ responses'[m][i] = n
    BY <2>4
  <2>6. ResponsesInv(m)'
    <3> SUFFICES ASSUME NEW i \in DOMAIN responses'[m]
                 PROVE  /\ responses'[m][i] \in DOMAIN answers'
                        /\ answers'[responses'[m][i]].pc \in Taken
                        /\ answers'[responses'[m][i]].envelope.messageId = m
      BY DEF ResponsesInv
    <3>1. CASE responses'[m][i] = n
      BY <1>3, <2>2, <3>1 DEF AnswersGrow
    <3>2. CASE i \in DOMAIN responses[m]
      <4>1. responses'[m][i] = responses[m][i]
        BY <2>4, <3>2
      <4>2. /\ responses[m][i] \in DOMAIN answers /\ answers[responses[m][i]].pc \in Taken
            /\ answers[responses[m][i]].envelope.messageId = m
        BY <1>2, <3>2 DEF IInv, ResponsesInv
      <4> QED  BY <2>2, <4>1, <4>2 DEF AnswersGrow
    <3> QED  BY <2>5, <3>1, <3>2
  <2>7. Types'
    <3>1. responses' \in [Message -> Seq(Nat)]
      BY <1>2, <2>1, <2>3, <2>4 DEF Types
    <3>2. answers' \in Seq([device : Device, draft : Given, envelope : AnswerForms, pc : Stage])
      BY <1>1, <1>2, <1>3, <2>1, AnswerMoves
    <3> QED  BY <1>1, <1>2, <3>1, <3>2 DEF Types
  <2>8. \A k \in Message : responses'[k] = responses[k] \/ ResponsesInv(k)'
    BY <2>3, <2>6
  <2>9. answers[n].pc \in Taken \cup {"checked"}
    BY <1>1
  <2>10. DOMAIN answers' \ DOMAIN answers = {}
    BY <2>2
  <2> QED  BY <1>1, <1>4, <2>2, <2>7, <2>8, <2>9, <2>10, AnswerStep
<1> QED  BY <1>5, <1>6

\* submitResponse, its last part: an answer that was stored has gone through.
LEMMA SetRespondedStep ==
  ASSUME IInv, NEW n \in DOMAIN answers, SetResponded(n) PROVE IInv'
<1>1. /\ answers[n].pc = "stored" /\ answers' = [answers EXCEPT ![n].pc = "responded"]
      /\ UNCHANGED <<recipient, moves, line, sending, targets, stored, delivered, fetch, shown,
                     responses, told>>
  BY DEF SetResponded
<1>2. "responded" \in Stage /\ "responded" \in Taken /\ answers[n].pc \in Taken
  BY <1>1 DEF Stage, Taken
<1>3. Types
  BY DEF IInv
<1>4. /\ DOMAIN answers' = DOMAIN answers /\ AnswersGrow
      /\ \A k \in DOMAIN answers : k # n => answers'[k] = answers[k]
  BY <1>1, <1>2, <1>3, AnswerMoves
<1>5. Types'
  BY <1>1, <1>2, <1>3, AnswerMoves DEF Types
<1>6. \A c \in Device, k \in Message : shown'[c][k] = shown[c][k]
  BY <1>1
<1>7. answers[n].pc \in Taken \cup {"checked"} /\ DOMAIN answers' \ DOMAIN answers = {}
  BY <1>2, <1>4
<1> QED  BY <1>1, <1>4, <1>5, <1>6, <1>7, AnswerStep

\* Answering a message leaves it what it is.
LEMMA AnsweredIsLocal ==
  ASSUME NEW m, NEW typed, NEW local, IsLocal(m, typed, local)
  PROVE  IsLocal(m, typed, [local EXCEPT !.answered = TRUE])
BY DEF IsLocal, Shows, LocalMessage

\* respond: what becomes answered on a screen is what the server has taken an answer to.
LEMMA ShowAnswerMoves ==
  ASSUME IInv, NEW n \in DOMAIN answers, ShowAnswer(n)
  PROVE  LET d == answers[n].device
         IN  /\ d \in Device /\ DOMAIN shown' = Device
             /\ \A c \in Device : DOMAIN shown'[c] = Message
             /\ \A c \in Device \ {d} : shown'[c] = shown[c]
             /\ DOMAIN answers' = DOMAIN answers /\ AnswersGrow
             /\ \A k \in DOMAIN answers : k # n => answers'[k] = answers[k]
             /\ answers' \in Seq([device : Device, draft : Given, envelope : AnswerForms, pc : Stage])
             /\ \A k \in Message : \/ shown'[d][k] = shown[d][k]
                                   \/ Backed(d, k, shown'[d][k], line[k], answers')
<1> SUFFICES ASSUME NEW d \in Device, d = answers[n].device,
                    NEW m \in Message, m = answers[n].envelope.messageId
             PROVE  /\ d \in Device /\ DOMAIN shown' = Device
                    /\ \A c \in Device : DOMAIN shown'[c] = Message
                    /\ \A c \in Device \ {d} : shown'[c] = shown[c]
                    /\ DOMAIN answers' = DOMAIN answers /\ AnswersGrow
                    /\ \A k \in DOMAIN answers : k # n => answers'[k] = answers[k]
                    /\ answers' \in Seq([device : Device, draft : Given, envelope : AnswerForms, pc : Stage])
                    /\ \A k \in Message : \/ shown'[d][k] = shown[d][k]
                                          \/ Backed(d, k, shown'[d][k], line[k], answers')
  BY AnswerTypes DEF IInv, AnswerInv
<1>1. /\ answers[n].pc = "responded" /\ answers' = [answers EXCEPT ![n].pc = "shown"]
      /\ shown' = IF shown[d][m] = None THEN shown ELSE [shown EXCEPT ![d][m].answered = TRUE]
  BY DEF ShowAnswer, GoodReply
<1>2. "shown" \in Stage /\ "shown" \in Taken
  BY DEF Stage, Taken
<1>3. Types
  BY DEF IInv
<1>4. /\ DOMAIN answers' = DOMAIN answers /\ AnswersGrow /\ answers'[n].pc = "shown"
      /\ \A k \in DOMAIN answers : k # n => answers'[k] = answers[k]
      /\ answers' \in Seq([device : Device, draft : Given, envelope : AnswerForms, pc : Stage])
  BY <1>1, <1>2, <1>3, AnswerMoves
<1>5. CASE shown[d][m] = None
  BY <1>1, <1>3, <1>4, <1>5 DEF Types
<1>6. CASE shown[d][m] # None
  <2>1. shown' = [shown EXCEPT ![d][m].answered = TRUE]
    BY <1>1, <1>6
  <2>2. /\ shown'[d][m] = [shown[d][m] EXCEPT !.answered = TRUE]
        /\ DOMAIN shown' = Device /\ \A c \in Device : DOMAIN shown'[c] = Message
        /\ \A c \in Device \ {d} : shown'[c] = shown[c]
        /\ \A k \in Message \ {m} : shown'[d][k] = shown[d][k]
    BY <1>3, <2>1 DEF Types
  <2>3. IsLocal(m, line[m], shown[d][m])
    BY <1>6 DEF IInv, ShownInv, Backed
  <2>4. IsLocal(m, line[m], shown'[d][m])
    BY <2>2, <2>3, AnsweredIsLocal
  <2>5. answers'[n].device = d /\ answers'[n].envelope.messageId = m /\ answers'[n].pc \in Taken
    BY <1>2, <1>4 DEF AnswersGrow
  <2>6. Backed(d, m, shown'[d][m], line[m], answers')
    BY <1>4, <2>4, <2>5 DEF Backed
  <2> QED  BY <1>4, <2>2, <2>6
<1> QED  BY <1>5, <1>6

\* The other things stay as they are.
LEMMA ShowAnswerStep ==
  ASSUME IInv, NEW n \in DOMAIN answers, ShowAnswer(n) PROVE IInv'
<1>1. /\ answers[n].pc = "responded"
      /\ UNCHANGED <<recipient, moves, line, sending, targets, stored, delivered, fetch,
                     responses, told>>
  BY DEF ShowAnswer, GoodReply
<1>2. Types
  BY DEF IInv
<1>3. Types'
  BY <1>1, <1>2, ShowAnswerMoves DEF Types
<1>4. \A c \in Device, k \in Message :
          shown'[c][k] = shown[c][k] \/ Backed(c, k, shown'[c][k], line[k], answers')
  BY ShowAnswerMoves
<1>5. /\ DOMAIN answers' = DOMAIN answers /\ AnswersGrow
      /\ \A k \in DOMAIN answers : k # n => answers'[k] = answers[k]
  BY ShowAnswerMoves
<1>6. answers[n].pc \in Taken \cup {"checked"} /\ DOMAIN answers' \ DOMAIN answers = {}
  BY <1>1, <1>5 DEF Taken
<1> QED  BY <1>1, <1>3, <1>4, <1>5, <1>6, AnswerStep

\* decryptSenderResponse: with the key of its device an answer comes back as it was given.
LEMMA OpenedGives ==
  ASSUME IInv, NEW n \in DOMAIN answers, NEW devices
  PROVE  Opened(n, devices) =
           IF answers[n].device \notin devices THEN None
           ELSE ResponsePlaintext(answers[n].envelope.messageId, answers[n].draft)
<1> DEFINE d == answers[n].device
           what == answers[n].draft
           e == answers[n].envelope
           m == e.messageId
           message == Shows(m, line[m])
           plaintext == ResponsePlaintext(m, what)
           opened == OpenContent(e.ciphertext, e.ciphertext.senderKeyWrap, EncryptionKey(SenderId),
                                 ResponseContentAad(e))
<1>1. AnswerInv(answers[n]) /\ d \in Device /\ what \in Given
  BY AnswerTypes DEF IInv
<1>2. PICK k \in 1..MaxAnswers : e = ResponseEnvelope(d, k, message, what)
  BY <1>1 DEF AnswerInv
<1>3. message.id = m /\ message.senderId = SenderId
  BY ShowsParts
<1> HIDE DEF d, what, message
<1>4. /\ e.messageId = m /\ e.kind = what.kind
      /\ e.ciphertext.contentNonce = e.contentNonce
      /\ e.ciphertext.senderKeyWrap.deviceId = SenderId
      /\ ResponseSignatureHolds(e, SigningKey(d))
      /\ opened = plaintext
  <2> HIDE DEF e
  <2>1. e.messageId = message.id /\ e.kind = what.kind
    BY <1>1, <1>2, <1>3, AnswerParts
  <2>2. e.ciphertext.contentNonce = e.contentNonce
    BY <1>1, <1>2, <1>3, AnswerParts
  <2>3. e.ciphertext.senderKeyWrap.deviceId = SenderId
    BY <1>1, <1>2, <1>3, AnswerParts
  <2>4. ResponseSignatureHolds(e, SigningKey(d))
    BY <1>1, <1>2, <1>3, AnswerParts
  <2>5. opened = ResponsePlaintext(message.id, what)
    BY <1>1, <1>2, <1>3, AnswerParts
  <2> QED  BY <1>3, <2>1, <2>2, <2>3, <2>4, <2>5
<1> HIDE DEF e, m
<1>5. what.kind \in {"reply", "approval"} /\ (what.kind = "reply" => what.text # None)
  BY <1>1, ExchangeAssumption
<1>6. plaintext.messageId = m /\ plaintext.kind = what.kind
      /\ (plaintext.kind = "reply" => plaintext.body # None)
  BY <1>5 DEF ResponsePlaintext
<1> HIDE DEF opened, plaintext
<1>7. ParsedPlaintext(opened) = plaintext
  BY <1>4, <1>6 DEF ParsedPlaintext
<1>8. Opened(n, devices) =
         IF \/ d \notin devices
            \/ ~ResponseSignatureHolds(e, SigningKey(d))
            \/ e.ciphertext.contentNonce # e.contentNonce
            \/ e.ciphertext.senderKeyWrap.deviceId # SenderId
         THEN None
         ELSE IF ParsedPlaintext(opened) = None THEN None
         ELSE IF ParsedPlaintext(opened).messageId # e.messageId \/ ParsedPlaintext(opened).kind # e.kind
         THEN None
         ELSE ParsedPlaintext(opened)
  BY DEF Opened, opened, d, e
<1>9. Opened(n, devices) = IF d \notin devices THEN None ELSE plaintext
  BY <1>4, <1>6, <1>7, <1>8
<1> QED  BY <1>9 DEF plaintext, m, e, d, what

\* withRemoteResponse: what the sender is told was answered, or its record is gone.
LEMMA ReadStep ==
  ASSUME IInv, NEW m \in Message, ReadResponse(m) PROVE IInv'
<1> DEFINE devices == KnownDevices(m)
<1>1. UNCHANGED <<recipient, moves, line, sending, targets, stored, delivered, fetch, shown,
                  answers, responses>>
  BY DEF ReadResponse
<1>2. PICK i \in DOMAIN responses[m] :
         told' = [told EXCEPT ![m] = [response |-> responses[m][i], devices |-> devices,
                                      result |-> Opened(responses[m][i], devices)]]
  BY DEF ReadResponse
<1> DEFINE n == responses[m][i]
<1>3. /\ n \in DOMAIN answers /\ answers[n].pc \in Taken /\ answers[n].envelope.messageId = m
      /\ AnswerInv(answers[n]) /\ Types
  BY DEF IInv, ResponsesInv
<1>4. sending[m].pc = "sent" /\ (targets[m] = <<>> \/ answers[n].device \in Range(targets[m]))
  BY <1>3 DEF AnswerInv
<1>5. Opened(n, devices) = IF answers[n].device \notin devices THEN None
                           ELSE ResponsePlaintext(m, answers[n].draft)
  BY <1>3, OpenedGives
<1>6. answers[n].device \notin devices => targets[m] = <<>>
  BY <1>4 DEF KnownDevices
<1> HIDE DEF devices, n
<1>7. told'[m] = [response |-> n, devices |-> devices, result |-> Opened(n, devices)]
  BY <1>2, <1>3 DEF Types, n
<1>8. told'[m].response = n /\ told'[m].devices = devices /\ told'[m].result = Opened(n, devices)
  BY <1>7
<1>9. ToldInv(m)'
  <2>1. answers' = answers /\ sending' = sending /\ targets' = targets
    BY <1>1
  <2> QED  BY <1>3, <1>4, <1>5, <1>6, <1>8, <2>1 DEF ToldInv
<1>10. \A k \in Message \ {m} : told'[k] = told[k]
  BY <1>2, <1>3 DEF Types
<1>11. Types' /\ AnswersGrow
  BY <1>1, <1>2, <1>3 DEF Types, AnswersGrow
<1>12. \A c \in Device, k \in Message : shown'[c][k] = shown[c][k]
  BY <1>1
<1> QED  BY <1>1, <1>9, <1>10, <1>11, <1>12, AnswerStep


-----------------------------------------------------------------------------
(* Theorems *)

\* Every step keeps the invariant.
LEMMA InvStep == ASSUME IInv, [Next]_vars PROVE IInv'
<1>1. CASE UNCHANGED vars
  <2>1. UNCHANGED <<recipient, moves, line, sending, targets, stored, delivered, fetch, shown,
                    answers, responses, told>>
    BY <1>1 DEF vars
  <2>2. Types'
    BY <2>1 DEF IInv, Types
  <2> QED  BY <2>1, <2>2, QuietStep
<1>2. ASSUME NEW d \in Device, Move(d) \/ \E r \in {"ours", "other"} : Register(d, r) PROVE IInv'
  BY <1>2, MovesStep
<1>3. ASSUME NEW f \in Sync,
             StartSync(f) \/ ListPending(f) \/ ReplyPending(f) \/ Merge(f) \/ Show(f)
      PROVE  IInv'
  BY <1>3, StartStep, ListStep, ReplyStep, MergeStep, ShowStep
<1>4. ASSUME NEW f \in Sync, NEW m \in Message, Mark(f, m) PROVE IInv'
  BY <1>4, MarkStep
<1>5. ASSUME NEW d \in Device, NEW m \in Message, NEW draft \in Given, Answer(d, m, draft)
      PROVE  IInv'
  BY <1>5, AnswerMade
<1>6. ASSUME NEW m \in Message, NEW script \in Scripts, m \in DOMAIN script, Type(m, script[m])
      PROVE  IInv'
  <2>1. script[m] \in Line
    BY <1>6 DEF Line, Range
  <2> QED  BY <1>6, <2>1, TypeStep
<1>7. ASSUME NEW m \in Message, SealForTargets(m) \/ CheckMessage(m) \/ StoreMessage(m) PROVE IInv'
  BY <1>7, SealStep, CheckMessageStep, StoreMessageStep
<1>8. ASSUME NEW m \in Message, Prune(m) \/ ReadResponse(m) PROVE IInv'
  BY <1>8, PruneStep, ReadStep
<1>9. ASSUME NEW n \in DOMAIN answers,
             CheckResponse(n) \/ StoreResponse(n) \/ SetResponded(n) \/ ShowAnswer(n)
      PROVE  IInv'
  BY <1>9, CheckResponseStep, StoreResponseStep, SetRespondedStep, ShowAnswerStep
<1> QED  BY <1>1, <1>2, <1>3, <1>4, <1>5, <1>6, <1>7, <1>8, <1>9 DEF Next

\* In every state, what is on its way and what is held is of the line that was typed, and
\* what was answered is of what is shown.
THEOREM ExchangeInvariant == Spec => []IInv
<1>1. Init => IInv
  BY InitInv
<1>2. IInv /\ [Next]_vars => IInv'
  BY InvStep
<1> QED  BY <1>1, <1>2, PTL DEF Spec

\* A line is read as it says, however long it is.
LEMMA InputIsSaid == ASSUME NEW typed \in Line PROVE Input(typed) = SaidInput(typed)
<1>1. typed \in Seq(Range(typed))
  BY LineAssumption
<1> QED  BY <1>1, LineIsSaid DEF Input

\* What a screen shows is made of what the line that was typed says as a whole, and once
\* it was answered nothing else of it has changed.
ShowsWhatIsSaid ==
    \A d \in Device, m \in Message :
        shown[d][m] # None =>
            LET said == SaidInput(line[m])
                local == LocalMessage(m, Metadata(m, said), Plaintext(m, said))
            IN  /\ said # None
                /\ shown[d][m] \in {local, [local EXCEPT !.answered = TRUE]}

\* That is so whatever devices register, move, fetch or answer, and whatever is deleted
\* meanwhile.
THEOREM ShownAsSaid == Spec => []ShowsWhatIsSaid
<1>1. ASSUME IInv PROVE ShowsWhatIsSaid
  <2> SUFFICES ASSUME NEW d \in Device, NEW m \in Message, shown[d][m] # None
               PROVE  LET said == SaidInput(line[m])
                          local == LocalMessage(m, Metadata(m, said), Plaintext(m, said))
                      IN  /\ said # None
                          /\ shown[d][m] \in {local, [local EXCEPT !.answered = TRUE]}
    BY DEF ShowsWhatIsSaid
  <2>1. IsLocal(m, line[m], shown[d][m])
    BY <1>1 DEF IInv, ShownInv, Backed
  <2>2. Input(line[m]) = SaidInput(line[m])
    BY <2>1, InputIsSaid DEF IsLocal
  <2> QED  BY <2>1, <2>2 DEF IsLocal, Shows
<1> QED  BY <1>1, ExchangeInvariant, PTL

\* What the local message keeps of an input.
LEMMA LocalFields ==
  ASSUME NEW m, NEW input, NEW local, local = LocalMessage(m, Metadata(m, input), Plaintext(m, input))
  PROVE  /\ local.mode = input.mode /\ local.title = input.title /\ local.body = input.body
         /\ local.sensitive = input.sensitive
         /\ local.request = RequestToLocal(RequestPlaintext(input))
BY DEF LocalMessage, Metadata, Plaintext

\* What the server lists for a device can be decoded there, unless it was deleted.
THEOREM PendingSafe == Spec => []PendingDecodes
<1>1. ASSUME IInv PROVE PendingDecodes
  <2> SUFFICES ASSUME NEW f \in Sync, fetch[f].pc = "replied", NEW p \in fetch[f].reply,
                      stored[p.messageId] # None
               PROVE  Decrypted(Of(f), p) # None
    BY DEF PendingDecodes
  <2> DEFINE m == p.messageId
  <2>1. Replied(Of(f), p)
    BY <1>1 DEF IInv, FetchInv
  <2>2. /\ m \in Message /\ sending[m].pc = "sent" /\ Input(line[m]) # None
        /\ Decrypted(Of(f), p) = Shows(m, line[m])
    BY <2>1 DEF Replied
  <2>3. line[m] \in Line
    BY <1>1, <2>2, SentTyped
  <2>4. Shows(m, line[m]) # None
    BY <2>2, <2>3, NoneAssumption DEF Shows, Input
  <2> QED  BY <2>2, <2>4
<1> QED  BY <1>1, ExchangeInvariant, PTL

\* A sender reads an answer as it was given; only without its record, and when the device
\* is no longer one of its recipient's, it reads nothing.
THEOREM AnswersComeBack == Spec => []AnswerComesBack
<1>1. IInv => AnswerComesBack
  BY DEF IInv, ToldInv, AnswerComesBack
<1> QED  BY <1>1, ExchangeInvariant, PTL


-----------------------------------------------------------------------------
(* People converse *)

\* What is sent is what can be said.
LEMMA SayableIs == Sendable = Sayable
BY InputIsSaid DEF Sendable, Sayable

\* No line has been typed where there is none.
LEMMA NothingIsSayable == None \notin Sayable
BY LineIsSome DEF Sayable

\* A message that has just appeared says what was typed.
LEMMA FreshIsSeen ==
  ASSUME NEW m, NEW typed \in Sayable
  PROVE  Seen(Shows(m, typed)) = [says |-> LineWords[typed], answered |-> FALSE]
<1> DEFINE local == Shows(m, typed)
           input == SaidInput(typed)
           words == [mode |-> local.mode, title |-> local.title, body |-> local.body,
                     sensitive |-> local.sensitive, request |-> local.request]
<1>1. Input(typed) = input
  BY InputIsSaid DEF Sayable
<1>2. /\ local.mode = input.mode /\ local.title = input.title /\ local.body = input.body
      /\ local.sensitive = input.sensitive
      /\ local.request = RequestToLocal(RequestPlaintext(input))
  BY <1>1, LocalFields DEF Shows
<1>3. ~local.answered /\ local.answered \in BOOLEAN
  BY DEF Shows, LocalMessage
<1> HIDE DEF local, input
<1>4. words = WordsOf(input)
  BY <1>2 DEF WordsOf
<1>5. LineWords[typed] = WordsOf(input)
  BY DEF LineWords, input
<1>6. Seen(local) = [says |-> words, answered |-> local.answered]
  BY DEF Seen
<1> HIDE DEF words
<1>7. local.answered = FALSE
  BY <1>3
<1> QED  BY <1>4, <1>5, <1>6, <1>7 DEF local

\* Only one field of a screen changes.
LEMMA SeenExcept ==
  ASSUME NEW says, NEW was, NEW is
  PROVE  [[says |-> says, answered |-> was] EXCEPT !.answered = is] = [says |-> says, answered |-> is]
<1> DEFINE seen == [says |-> says, answered |-> was]
           after == [seen EXCEPT !.answered = is]
<1>1. after \in [says : {says}, answered : {is}] /\ after.says = says /\ after.answered = is
  OBVIOUS
<1> HIDE DEF after
<1>2. after = [says |-> after.says, answered |-> after.answered]
  BY <1>1
<1> QED  BY <1>1, <1>2 DEF after, seen

\* A screen that is answered says what it said.
LEMMA AnsweredIsSeen ==
  ASSUME NEW m, NEW typed, NEW local, IsLocal(m, typed, local)
  PROVE  Seen([local EXCEPT !.answered = TRUE]) = [Seen(local) EXCEPT !.answered = TRUE]
<1> DEFINE after == [local EXCEPT !.answered = TRUE]
<1>1. /\ after.mode = local.mode /\ after.title = local.title /\ after.body = local.body
      /\ after.sensitive = local.sensitive /\ after.request = local.request
      /\ after.answered = TRUE
  BY DEF IsLocal, Shows, LocalMessage
<1> HIDE DEF after
<1> DEFINE Words(shows) == [mode |-> shows.mode, title |-> shows.title, body |-> shows.body,
                            sensitive |-> shows.sensitive, request |-> shows.request]
<1>2. Words(after) = Words(local)
  BY <1>1
<1>3. /\ Seen(after) = [says |-> Words(after), answered |-> after.answered]
      /\ Seen(local) = [says |-> Words(local), answered |-> local.answered]
  BY DEF Seen
<1> HIDE DEF Words
<1>4. [Seen(local) EXCEPT !.answered = TRUE] = [says |-> Words(local), answered |-> TRUE]
  <2>1. ASSUME NEW says, NEW was, NEW seen, seen = [says |-> says, answered |-> was]
        PROVE  [seen EXCEPT !.answered = TRUE] = [says |-> says, answered |-> TRUE]
    BY <2>1, SeenExcept
  <2>2. PICK seen : seen = Seen(local)
    OBVIOUS
  <2>3. PICK says : says = Words(local)
    OBVIOUS
  <2>4. PICK was : was = local.answered
    OBVIOUS
  <2>5. [seen EXCEPT !.answered = TRUE] = [says |-> says, answered |-> TRUE]
    BY <1>3, <2>1, <2>2, <2>3, <2>4
  <2> QED  BY <2>2, <2>3, <2>5
<1>5. Seen(after) = [says |-> Words(local), answered |-> TRUE]
  BY <1>1, <1>2, <1>3
<1> QED  BY <1>4, <1>5 DEF after

\* A message on a screen is one, answered or not.
LEMMA LocalIsSome ==
  ASSUME NEW m \in Message, NEW typed, NEW local, IsLocal(m, typed, local) PROVE local # None
BY NoneAssumption DEF IsLocal, Shows, Input

\* What is on screens is of messages that were said.
LEMMA OnScreenIsSaid ==
  ASSUME IInv, NEW d \in Device, NEW m \in OnScreen(d) PROVE m \in Spoken
<1>1. m \in Message /\ IsLocal(m, line[m], shown[d][m])
  BY DEF OnScreen, IInv, ShownInv, Backed
<1> QED  BY <1>1, SayableIs DEF IsLocal, Sendable, Spoken

\* Where nothing that is mapped changes, nothing is seen.
LEMMA NothingSeen ==
  ASSUME UNCHANGED <<line, shown, answers, told>>
  PROVE  UNCHANGED People!conversation
<1>1. SaidNow' = SaidNow
  BY DEF SaidNow, Spoken
<1>2. ScreenNow' = ScreenNow
  BY DEF ScreenNow, OnScreen
<1>3. GivenNow' = GivenNow
  BY DEF GivenNow
<1>4. HeardNow' = HeardNow
  BY DEF HeardNow, Asked
<1> QED  BY <1>1, <1>2, <1>3, <1>4 DEF People!conversation

\* A line that is typed is said, or nothing is.
LEMMA TypeIsSay ==
  ASSUME IInv, NEW m \in Message, NEW typed \in Line, Type(m, typed)
  PROVE  [People!Go]_People!conversation
<1>1. line[m] = None /\ line' = [line EXCEPT ![m] = typed] /\ UNCHANGED <<shown, answers, told>>
  BY DEF Type
<1>2. line'[m] = typed /\ \A k \in Message \ {m} : line'[k] = line[k]
  BY <1>1 DEF IInv, Types
<1>3. m \notin Spoken
  BY <1>1, NothingIsSayable DEF Spoken
<1>4. ScreenNow' = ScreenNow /\ GivenNow' = GivenNow /\ HeardNow' = HeardNow
  BY <1>1 DEF ScreenNow, OnScreen, GivenNow, HeardNow, Asked
<1>5. CASE typed \in Sayable
  <2>1. Spoken' = Spoken \cup {m}
    BY <1>2, <1>5 DEF Spoken
  <2>2. SaidNow' = [k \in Spoken \cup {m} |-> IF k = m THEN LineWords[typed] ELSE SaidNow[k]]
    <3>1. \A k \in Spoken \cup {m} :
             LineWords[line'[k]] = IF k = m THEN LineWords[typed] ELSE SaidNow[k]
      <4>1. \A k \in Spoken : SaidNow[k] = LineWords[line[k]] /\ k \in Message
        BY DEF SaidNow, Spoken
      <4> QED  BY <1>2, <4>1
    <3>2. SaidNow' = [k \in Spoken \cup {m} |-> LineWords[line'[k]]]
      BY <2>1 DEF SaidNow
    <3> QED  BY <3>1, <3>2
  <2>3. DOMAIN SaidNow = Spoken
    BY DEF SaidNow
  <2>4. LineWords[typed] \in AllWords
    BY <1>5 DEF AllWords, Range, LineWords
  <2>5. People!Say(m, LineWords[typed])
    BY <1>3, <1>4, <2>2, <2>3 DEF People!Say
  <2> QED  BY <2>4, <2>5 DEF People!Go
<1>6. CASE typed \notin Sayable
  <2>1. Spoken' = Spoken /\ \A k \in Spoken : line'[k] = line[k]
    BY <1>2, <1>3, <1>6 DEF Spoken
  <2>2. SaidNow' = SaidNow
    BY <2>1 DEF SaidNow
  <2> QED  BY <1>4, <2>2 DEF People!conversation
<1> QED  BY <1>5, <1>6


\* The answers, one by one.
LEMMA GivenIs ==
  /\ DOMAIN GivenNow = DOMAIN answers
  /\ \A n \in DOMAIN answers : GivenNow[n] = AsGiven(answers[n])
BY DEF GivenNow

\* What is seen of an answer.
LEMMA AsGivenIs ==
  ASSUME NEW a
  PROVE  /\ AsGiven(a).by = a.device /\ AsGiven(a).to = a.envelope.messageId
         /\ AsGiven(a).reply = ResponsePlaintext(a.envelope.messageId, a.draft)
         /\ AsGiven(a).state = StateOf[a.pc]
BY DEF AsGiven

\* An answer that is added is added to those that are seen.
LEMMA GivenAppend ==
  ASSUME NEW S, answers \in Seq(S), NEW a \in S, answers' = Append(answers, a)
  PROVE  GivenNow' = Append(GivenNow, AsGiven(a))
<1> DEFINE n == Len(answers)
           T == {AsGiven(b) : b \in S}
<1>1. n \in Nat /\ DOMAIN answers = 1..n /\ \A k \in 1..n : answers[k] \in S
  BY LenProperties
<1>2. /\ answers' \in Seq(S) /\ Len(answers') = n + 1 /\ answers'[n + 1] = a
      /\ \A k \in 1..n : answers'[k] = answers[k]
  BY AppendProperties
<1>3. DOMAIN answers' = 1..(n + 1)
  BY <1>2, LenProperties
<1> HIDE DEF n
<1>4. GivenNow = [k \in 1..n |-> AsGiven(answers[k])]
  BY <1>1 DEF GivenNow
<1>5. GivenNow' = [k \in 1..(n + 1) |-> AsGiven(answers'[k])]
  BY <1>3 DEF GivenNow
<1>6. GivenNow \in [1..n -> T] /\ GivenNow \in Seq(T) /\ Len(GivenNow) = n
  <2>1. GivenNow \in [1..n -> T]
    BY <1>1, <1>4
  <2> HIDE DEF T
  <2>2. GivenNow \in Seq(T)
    BY <1>1, <2>1, SeqDef
  <2> QED  BY <1>1, <2>1, <2>2, LenOf
<1>7. AsGiven(a) \in T
  OBVIOUS
<1> HIDE DEF T
<1> DEFINE longer == Append(GivenNow, AsGiven(a))
<1>8. /\ longer \in Seq(T) /\ Len(longer) = n + 1 /\ longer[n + 1] = AsGiven(a)
      /\ \A k \in 1..n : longer[k] = GivenNow[k]
  BY <1>6, <1>7, AppendProperties
<1>9. DOMAIN longer = 1..(n + 1)
  BY <1>8, LenProperties
<1> HIDE DEF longer
<1>10. \A k \in 1..(n + 1) : longer[k] = AsGiven(answers'[k])
  <2> SUFFICES ASSUME NEW k \in 1..(n + 1) PROVE longer[k] = AsGiven(answers'[k])
    OBVIOUS
  <2>1. CASE k = n + 1
    BY <1>2, <1>8, <2>1
  <2>2. CASE k \in 1..n
    BY <1>2, <1>4, <1>8, <2>2
  <2>3. k = n + 1 \/ k \in 1..n
    BY <1>1
  <2> QED  BY <2>1, <2>2, <2>3
<1>11. longer = [k \in 1..(n + 1) |-> longer[k]]
  BY <1>8, <1>9, LenProperties
<1>12. longer = GivenNow'
  BY <1>5, <1>10, <1>11
<1> QED  BY <1>12 DEF longer

\* An answer that is made is given.
LEMMA AnswerIsGive ==
  ASSUME IInv, NEW d \in Device, NEW m \in Message, NEW draft \in Given, Answer(d, m, draft)
  PROVE  [People!Go]_People!conversation
<1> DEFINE n == Len(answers) + 1
           e == ResponseEnvelope(d, n, shown[d][m], draft)
           a == [device |-> d, draft |-> draft, pc |-> "submitted", envelope |-> e]
           reply == ResponsePlaintext(m, draft)
<1>1. /\ shown[d][m] # None /\ ~shown[d][m].answered /\ draft.kind = KindOf[shown[d][m].mode]
      /\ answers' = Append(answers, a) /\ UNCHANGED <<line, shown, told>>
  BY DEF Answer, Draft
<1>2. answers \in Seq(UNION {{a}, Range(answers)})
  <2> DEFINE S == [device : Device, draft : Given, envelope : AnswerForms,
                   pc : Stage]
             U == UNION {{a}, Range(answers)}
  <2>1. answers \in Seq(S)
    BY DEF IInv, Types
  <2> HIDE DEF S, a
  <2>2. DOMAIN answers = 1..Len(answers) /\ answers = [k \in 1..Len(answers) |-> answers[k]]
        /\ Len(answers) \in Nat
    BY <2>1, LenProperties
  <2>3. \A k \in 1..Len(answers) : answers[k] \in U
    BY <2>2 DEF Range
  <2> HIDE DEF U
  <2>4. answers \in [1..Len(answers) -> U]
    BY <2>2, <2>3
  <2>5. answers \in Seq(U)
    BY <2>2, <2>4, SeqDef
  <2> QED  BY <2>5 DEF U
<1>3. shown[d][m].id = m /\ shown[d][m].senderId = SenderId
  <2>1. IsLocal(m, line[m], shown[d][m])
    BY <1>1 DEF IInv, ShownInv, Backed
  <2> QED  BY <2>1 DEF IsLocal, Shows, LocalMessage, Metadata
<1>4. e.messageId = m
  <2> DEFINE message == shown[d][m]
  <2>1. message.senderId = SenderId /\ message.id = m /\ e = ResponseEnvelope(d, n, message, draft)
    BY <1>3
  <2> HIDE DEF message, e, n
  <2> QED  BY <2>1, AnswerParts
<1> HIDE DEF e, n
<1>5. a.device = d /\ a.draft = draft /\ a.pc = "submitted" /\ a.envelope.messageId = m
  BY <1>4
<1> HIDE DEF a
<1>6. AsGiven(a) = [by |-> d, to |-> m, reply |-> reply, state |-> "given"]
  BY <1>5 DEF AsGiven, StateOf
<1>7. GivenNow' = Append(GivenNow, AsGiven(a))
  <2>1. a \in UNION {{a}, Range(answers)}
    OBVIOUS
  <2> QED  BY <1>1, <1>2, <2>1, GivenAppend
<1>8. SaidNow' = SaidNow /\ ScreenNow' = ScreenNow /\ HeardNow' = HeardNow
  BY <1>1 DEF SaidNow, Spoken, ScreenNow, OnScreen, HeardNow, Asked
<1>9. ScreenNow[d] = [k \in OnScreen(d) |-> Seen(shown[d][k])]
  BY DEF ScreenNow
<1>10. m \in DOMAIN ScreenNow[d] /\ ScreenNow[d][m] = Seen(shown[d][m])
  BY <1>1, <1>9 DEF OnScreen
<1>11. Seen(shown[d][m]).answered = shown[d][m].answered
       /\ Seen(shown[d][m]).says.mode = shown[d][m].mode
  BY DEF Seen
<1>12. draft.kind \in {"reply", "approval"}
  BY ExchangeAssumption
<1>13. reply.kind = draft.kind
  BY <1>12 DEF ResponsePlaintext
<1> HIDE DEF reply
<1>14. People!Give(d, m, reply)
  BY <1>1, <1>6, <1>7, <1>8, <1>10, <1>11, <1>13 DEF People!Give, People!Asks, KindOf
<1>15. reply \in Replies
  BY DEF reply, Replies
<1> QED  BY <1>14, <1>15 DEF People!Go


\* Of an answer that moves on, only its state is seen to change.
LEMMA GivenMoves ==
  ASSUME IInv, NEW n \in DOMAIN answers, NEW pc \in Stage,
         answers' = [answers EXCEPT ![n].pc = pc], answers[n].pc \in Taken => pc \in Taken
  PROVE  GivenNow' = [GivenNow EXCEPT ![n].state = StateOf[pc]]
<1> DEFINE seen == GivenNow[n]
           after == [seen EXCEPT !.state = StateOf[pc]]
<1>1. /\ DOMAIN answers' = DOMAIN answers /\ AnswersGrow /\ answers'[n].pc = pc
      /\ \A k \in DOMAIN answers : k # n => answers'[k] = answers[k]
  BY AnswerMoves DEF IInv
<1>2. seen = AsGiven(answers[n])
  BY GivenIs
<1>3. PICK by, to, reply, was, is :
         /\ by = answers[n].device /\ to = answers[n].envelope.messageId
         /\ reply = ResponsePlaintext(answers[n].envelope.messageId, answers[n].draft)
         /\ was = StateOf[answers[n].pc] /\ is = StateOf[pc]
  OBVIOUS
<1>4. seen = [by |-> by, to |-> to, reply |-> reply, state |-> was]
  BY <1>2, <1>3 DEF AsGiven
<1>5. AsGiven(answers'[n]) = [by |-> by, to |-> to, reply |-> reply, state |-> is]
  BY <1>1, <1>3 DEF AsGiven, AnswersGrow
<1>6. after = [by |-> by, to |-> to, reply |-> reply, state |-> is]
  <2> HIDE DEF seen
  <2>1. after = [seen EXCEPT !.state = is]
    BY <1>3
  <2> QED  BY <1>4, <2>1
<1> HIDE DEF after, seen
<1>7. \A k \in DOMAIN answers : AsGiven(answers'[k]) = IF k = n THEN after ELSE GivenNow[k]
  BY <1>1, <1>5, <1>6, GivenIs
<1>8. GivenNow' = [k \in DOMAIN answers |-> AsGiven(answers'[k])]
  BY <1>1 DEF GivenNow
<1>9. GivenNow = [k \in DOMAIN answers |-> GivenNow[k]]
  BY DEF GivenNow
<1>10. GivenNow' = [GivenNow EXCEPT ![n] = after]
  BY <1>7, <1>8, <1>9
<1> QED  BY <1>10 DEF after, seen

\* An answer that is checked is given still, or refused.
LEMMA CheckIsSeen ==
  ASSUME IInv, NEW n \in DOMAIN answers, CheckResponse(n) PROVE [People!Go]_People!conversation
<1>1. /\ answers[n].pc = "submitted" /\ UNCHANGED <<line, shown, told>>
      /\ \E pc \in {"checked", "refused"} : answers' = [answers EXCEPT ![n].pc = pc]
  BY DEF CheckResponse
<1>2. PICK pc \in {"checked", "refused"} : answers' = [answers EXCEPT ![n].pc = pc]
  BY <1>1
<1>3. GivenNow' = [GivenNow EXCEPT ![n].state = StateOf[pc]]
  <2>1. pc \in Stage /\ answers[n].pc \notin Taken
    BY <1>1 DEF Stage, Taken
  <2> QED  BY <1>2, <2>1, GivenMoves
<1>4. GivenNow[n] = AsGiven(answers[n]) /\ GivenNow[n].state = "given"
  BY <1>1, GivenIs, AsGivenIs DEF StateOf
<1>5. SaidNow' = SaidNow /\ ScreenNow' = ScreenNow /\ HeardNow' = HeardNow
  BY <1>1 DEF SaidNow, Spoken, ScreenNow, OnScreen, HeardNow, Asked
<1>6. CASE pc = "refused"
  <2>1. GivenNow' = [GivenNow EXCEPT ![n].state = "refused"]
    BY <1>3, <1>6 DEF StateOf
  <2>2. People!Refuse(n)
    BY <1>4, <1>5, <2>1 DEF People!Refuse
  <2> QED  BY <2>2, GivenIs DEF People!Go
<1>7. CASE pc = "checked"
  <2>1. [GivenNow[n] EXCEPT !.state = "given"] = GivenNow[n]
    BY <1>4 DEF AsGiven
  <2>2. GivenNow' = [GivenNow EXCEPT ![n] = GivenNow[n]]
    BY <1>3, <1>7, <2>1 DEF StateOf
  <2>3. GivenNow = [k \in DOMAIN answers |-> GivenNow[k]]
    BY DEF GivenNow
  <2>4. GivenNow' = GivenNow
    BY <2>2, <2>3
  <2> QED  BY <1>5, <2>4 DEF People!conversation
<1> QED  BY <1>6, <1>7


\* An answer that is stored is taken; or the message is gone, and it is refused.
LEMMA StoreIsSeen ==
  ASSUME IInv, NEW n \in DOMAIN answers, StoreResponse(n) PROVE [People!Go]_People!conversation
<1>1. /\ answers[n].pc = "checked" /\ UNCHANGED <<line, shown, told>>
      /\ \E pc \in {"stored", "refused"} : answers' = [answers EXCEPT ![n].pc = pc]
  BY DEF StoreResponse
<1>2. PICK pc \in {"stored", "refused"} : answers' = [answers EXCEPT ![n].pc = pc]
  BY <1>1
<1>3. GivenNow' = [GivenNow EXCEPT ![n].state = StateOf[pc]]
  <2>1. pc \in Stage /\ answers[n].pc \notin Taken
    BY <1>1 DEF Stage, Taken
  <2> QED  BY <1>2, <2>1, GivenMoves
<1>4. /\ GivenNow[n] = AsGiven(answers[n]) /\ GivenNow[n].state = "given"
      /\ n \in DOMAIN GivenNow
  BY <1>1, GivenIs, AsGivenIs DEF StateOf
<1>5. SaidNow' = SaidNow /\ ScreenNow' = ScreenNow /\ HeardNow' = HeardNow
  BY <1>1 DEF SaidNow, Spoken, ScreenNow, OnScreen, HeardNow, Asked
<1>6. CASE pc = "refused"
  <2>1. GivenNow' = [GivenNow EXCEPT ![n].state = "refused"]
    BY <1>3, <1>6 DEF StateOf
  <2>2. People!Refuse(n)
    BY <1>4, <1>5, <2>1 DEF People!Refuse
  <2> QED  BY <1>4, <2>2 DEF People!Go
<1>7. CASE pc = "stored"
  <2>1. GivenNow' = [GivenNow EXCEPT ![n].state = "taken"]
    BY <1>3, <1>7 DEF StateOf
  <2>2. People!Take(n)
    BY <1>4, <1>5, <2>1 DEF People!Take
  <2> QED  BY <1>4, <2>2 DEF People!Go
<1> QED  BY <1>6, <1>7

\* Of an answer that was taken, nothing is seen to change when it goes on.
LEMMA TakenStays ==
  ASSUME IInv, NEW n \in DOMAIN answers, NEW pc \in Taken, answers[n].pc \in Taken,
         answers' = [answers EXCEPT ![n].pc = pc]
  PROVE  GivenNow' = GivenNow
<1>1. StateOf[pc] = "taken" /\ StateOf[answers[n].pc] = "taken" /\ pc \in Stage
  BY DEF StateOf, Taken, Stage
<1>2. GivenNow' = [GivenNow EXCEPT ![n].state = "taken"]
  <2>1. GivenNow' = [GivenNow EXCEPT ![n].state = StateOf[pc]]
    BY <1>1, GivenMoves
  <2> QED  BY <1>1, <2>1
<1>3. GivenNow[n] = AsGiven(answers[n]) /\ GivenNow[n].state = "taken"
  BY <1>1, GivenIs, AsGivenIs
<1>4. [GivenNow[n] EXCEPT !.state = "taken"] = GivenNow[n]
  BY <1>3 DEF AsGiven
<1>5. GivenNow' = [GivenNow EXCEPT ![n] = GivenNow[n]]
  BY <1>2, <1>4
<1>6. GivenNow = [k \in DOMAIN answers |-> GivenNow[k]]
  BY DEF GivenNow
<1> QED  BY <1>5, <1>6

\* A message on a screen says what was typed.
LEMMA LocalIsSeen ==
  ASSUME NEW m \in Message, NEW typed, NEW local, IsLocal(m, typed, local), typed \in Sayable
  PROVE  /\ local # None
         /\ \/ local.answered = TRUE /\ Seen(local) = [says |-> LineWords[typed], answered |-> TRUE]
            \/ local.answered = FALSE /\ Seen(local) = [says |-> LineWords[typed], answered |-> FALSE]
<1> DEFINE fresh == Shows(m, typed)
           after == [fresh EXCEPT !.answered = TRUE]
<1>1. Seen(fresh) = [says |-> LineWords[typed], answered |-> FALSE] /\ IsLocal(m, typed, fresh)
  BY FreshIsSeen DEF IsLocal
<1>2. Seen(after) = [says |-> LineWords[typed], answered |-> TRUE]
  <2>1. Seen(after) = [Seen(fresh) EXCEPT !.answered = TRUE]
    BY <1>1, AnsweredIsSeen
  <2>2. PICK seen, words : seen = Seen(fresh) /\ words = LineWords[typed]
    OBVIOUS
  <2>3. seen = [says |-> words, answered |-> FALSE]
    BY <1>1, <2>2
  <2>4. [seen EXCEPT !.answered = TRUE] = [says |-> words, answered |-> TRUE]
    BY <2>3, SeenExcept
  <2> QED  BY <2>1, <2>2, <2>4
<1>3. fresh.answered = FALSE /\ after.answered = TRUE
  BY DEF Shows, LocalMessage
<1>4. local = fresh \/ local = after
  BY DEF IsLocal
<1>5. local # None
  BY LocalIsSome
<1> HIDE DEF fresh, after
<1> QED  BY <1>1, <1>2, <1>3, <1>4, <1>5

\* What changes on one screen is shown there, answered where an answer was taken.
LEMMA ScreenIsShow ==
  ASSUME IInv, IInv', UNCHANGED <<line, told>>, GivenNow' = GivenNow, NEW d \in Device,
         \A c \in Device \ {d} : shown'[c] = shown[c]
  PROVE  People!Go
<1> DEFINE On(c) == [m \in OnScreen(c) |-> Seen(shown[c][m])]
           M == OnScreen(d)'
           A == {m \in M : shown'[d][m].answered}
           after == [m \in M |-> [says |-> SaidNow[m], answered |-> m \in A]]
<1>1. SaidNow' = SaidNow /\ HeardNow' = HeardNow /\ DOMAIN SaidNow = Spoken
  BY DEF SaidNow, Spoken, HeardNow, Asked
<1>2. ASSUME NEW m \in M
      PROVE  /\ m \in Message /\ m \in Spoken
             /\ Seen(shown'[d][m]) = [says |-> SaidNow[m], answered |-> m \in A]
             /\ m \in A => m \in People!AnsweredBy(d)
  <2>1. /\ m \in Message /\ shown'[d][m] # None /\ line' = line
        /\ Backed(d, m, shown'[d][m], line[m], answers')
    BY DEF OnScreen, IInv, ShownInv
  <2>2. IsLocal(m, line[m], shown'[d][m])
    BY <2>1 DEF Backed
  <2>3. line[m] \in Sayable /\ m \in Spoken /\ SaidNow[m] = LineWords[line[m]]
    BY <2>1, <2>2, SayableIs DEF IsLocal, Sendable, Spoken, SaidNow
  <2>4. \/ /\ shown'[d][m].answered = TRUE
           /\ Seen(shown'[d][m]) = [says |-> SaidNow[m], answered |-> TRUE]
        \/ /\ shown'[d][m].answered = FALSE
           /\ Seen(shown'[d][m]) = [says |-> SaidNow[m], answered |-> FALSE]
    <3>1. PICK local, typed : local = shown'[d][m] /\ typed = line[m]
      OBVIOUS
    <3>2. IsLocal(m, typed, local) /\ typed \in Sayable /\ SaidNow[m] = LineWords[typed]
      BY <2>2, <2>3, <3>1
    <3>3. \/ local.answered = TRUE /\ Seen(local) = [says |-> LineWords[typed], answered |-> TRUE]
          \/ local.answered = FALSE /\ Seen(local) = [says |-> LineWords[typed], answered |-> FALSE]
      BY <2>1, <3>2, LocalIsSeen
    <3> QED  BY <3>1, <3>2, <3>3
  <2>5. Seen(shown'[d][m]) = [says |-> SaidNow[m], answered |-> m \in A]
    <3>1. CASE shown'[d][m].answered = TRUE
      <4>1. (m \in A) = TRUE
        BY <3>1
      <4> QED  BY <2>4, <3>1, <4>1
    <3>2. CASE shown'[d][m].answered = FALSE
      <4>1. (m \in A) = FALSE
        BY <3>2
      <4> QED  BY <2>4, <3>2, <4>1
    <3> QED  BY <2>4, <3>1, <3>2
  <2>6. ASSUME m \in A PROVE m \in People!AnsweredBy(d)
    <3>1. PICK n \in DOMAIN answers' : /\ answers'[n].device = d
                                       /\ answers'[n].envelope.messageId = m
                                       /\ answers'[n].pc \in Taken
      BY <2>1, <2>6 DEF Backed
    <3>2. /\ n \in DOMAIN GivenNow' /\ GivenNow'[n] = AsGiven(answers'[n])
      BY DEF GivenNow
    <3>3. AsGiven(answers'[n]).by = d /\ AsGiven(answers'[n]).to = m
          /\ AsGiven(answers'[n]).state = "taken"
      BY <3>1, AsGivenIs DEF StateOf, Taken
    <3>4. n \in DOMAIN GivenNow /\ GivenNow[n].by = d /\ GivenNow[n].to = m
          /\ GivenNow[n].state = "taken"
      BY <3>2, <3>3
    <3> QED  BY <3>4 DEF People!AnsweredBy
  <2> QED  BY <2>1, <2>3, <2>5, <2>6
<1>3. On(d)' = after
  <2>1. On(d)' = [m \in M |-> Seen(shown'[d][m])]
    OBVIOUS
  <2> HIDE DEF A, M
  <2> QED  BY <1>2, <2>1
<1>4. \A c \in Device \ {d} : On(c)' = On(c)
  BY DEF OnScreen
<1>5. ScreenNow = [c \in Device |-> On(c)] /\ ScreenNow' = [c \in Device |-> On(c)']
  BY DEF ScreenNow
<1>6. M \in SUBSET Message /\ A \in SUBSET Message /\ M \subseteq DOMAIN SaidNow
      /\ A \subseteq M \cap People!AnsweredBy(d)
  BY <1>1, <1>2
<1>7. ScreenNow' = [ScreenNow EXCEPT ![d] = after]
  <2> HIDE DEF after, On
  <2> QED  BY <1>3, <1>4, <1>5
<1> HIDE DEF M, A, On
<1>8. People!Show(d, M, A)
  BY <1>1, <1>6, <1>7 DEF People!Show
<1> QED  BY <1>6, <1>8 DEF People!Go

\* What the sender is told of an answer is heard.
LEMMA ReadIsHear ==
  ASSUME IInv, NEW m \in Message, ReadResponse(m) PROVE [People!Go]_People!conversation
<1> DEFINE devices == KnownDevices(m)
<1>1. UNCHANGED <<line, shown, answers>>
  BY DEF ReadResponse
<1>2. PICK i \in DOMAIN responses[m] :
         told' = [told EXCEPT ![m] = [response |-> responses[m][i], devices |-> devices,
                                      result |-> Opened(responses[m][i], devices)]]
  BY DEF ReadResponse
<1> DEFINE n == responses[m][i]
<1>3. /\ n \in DOMAIN answers /\ answers[n].pc \in Taken /\ answers[n].envelope.messageId = m
      /\ Types
  BY DEF IInv, ResponsesInv
<1>4. Opened(n, devices) \in {ResponsePlaintext(m, answers[n].draft), None}
  BY <1>3, OpenedGives
<1> HIDE DEF devices, n
<1>5. told'[m] = [response |-> n, devices |-> devices, result |-> Opened(n, devices)]
      /\ \A k \in Message \ {m} : told'[k] = told[k]
  BY <1>2, <1>3 DEF Types, n
<1>6. GivenNow[n].to = m /\ GivenNow[n].state = "taken" /\ n \in DOMAIN GivenNow
      /\ GivenNow[n].reply = ResponsePlaintext(m, answers[n].draft)
  BY <1>3, GivenIs, AsGivenIs DEF StateOf, Taken
<1>7. SaidNow' = SaidNow /\ ScreenNow' = ScreenNow /\ GivenNow' = GivenNow
  BY <1>1 DEF SaidNow, Spoken, ScreenNow, OnScreen, GivenNow
<1>8. told'[m].response = n /\ n # 0
  <2>1. DOMAIN answers = 1..Len(answers)
    BY <1>3, LenProperties DEF Types
  <2> QED  BY <1>3, <1>5, <2>1
<1>9. Asked' = Asked \cup {m}
  BY <1>5, <1>8 DEF Asked
<1>10. HeardNow = [k \in Asked |-> [answer |-> told[k].response, reply |-> told[k].result]]
       /\ DOMAIN HeardNow = Asked
  BY DEF HeardNow
<1>11. HeardNow' = [k \in Asked \cup {m} |->
                      IF k = m THEN [answer |-> n, reply |-> Opened(n, devices)] ELSE HeardNow[k]]
  <2>1. HeardNow' = [k \in Asked \cup {m} |->
                       [answer |-> told'[k].response, reply |-> told'[k].result]]
    BY <1>9 DEF HeardNow
  <2>2. told'[m].response = n /\ told'[m].result = Opened(n, devices)
    BY <1>5
  <2>3. \A k \in Asked \ {m} : told'[k] = told[k]
    BY <1>5 DEF Asked
  <2> QED  BY <1>10, <2>1, <2>2, <2>3
<1>12. People!Hear(n, Opened(n, devices))
  BY <1>4, <1>6, <1>7, <1>10, <1>11 DEF People!Hear
<1>13. Opened(n, devices) \in Replies \cup {None}
  BY <1>3, <1>4, AnswerTypes DEF IInv, Replies
<1> QED  BY <1>6, <1>12, <1>13 DEF People!Go


\* At first nothing is said.
LEMMA BeginNothing == ASSUME Init PROVE People!Begin
<1>1. Spoken = {} /\ Asked = {} /\ \A d \in Device : OnScreen(d) = {}
  BY NothingIsSayable DEF Init, Spoken, Asked, OnScreen, Empty
<1>2. SaidNow = [m \in {} |-> None]
  BY <1>1 DEF SaidNow
<1>3. ScreenNow = [d \in Device |-> [m \in {} |-> None]]
  <2>1. \A d \in Device : [m \in OnScreen(d) |-> Seen(shown[d][m])] = [m \in {} |-> None]
    BY <1>1
  <2> QED  BY <2>1 DEF ScreenNow
<1>4. GivenNow = <<>>
  <2>1. answers = <<>> /\ DOMAIN answers = {}
    BY DEF Init
  <2>2. GivenNow = [n \in {} |-> None]
    BY <2>1 DEF GivenNow
  <2>3. <<>> = [n \in {} |-> None]
    OBVIOUS
  <2> QED  BY <2>2, <2>3
<1>5. HeardNow = [m \in {} |-> None]
  BY <1>1 DEF HeardNow
<1> QED  BY <1>2, <1>3, <1>4, <1>5 DEF People!Begin

\* Every step of the exchange is one of the conversation, or nobody sees it.
LEMMA StepIsSeen ==
  ASSUME IInv, [Next]_vars PROVE [People!Go]_People!conversation
<1>1. CASE UNCHANGED vars
  BY <1>1, NothingSeen DEF vars
<1>2. ASSUME NEW d \in Device, Move(d) \/ \E r \in {"ours", "other"} : Register(d, r)
      PROVE  [People!Go]_People!conversation
  BY <1>2, NothingSeen DEF Move, Register
<1>3. ASSUME NEW f \in Sync, StartSync(f) \/ ListPending(f) \/ ReplyPending(f) \/ Merge(f)
      PROVE  [People!Go]_People!conversation
  BY <1>3, NothingSeen DEF StartSync, ListPending, ReplyPending, Merge
<1>4. ASSUME NEW f \in Sync, NEW m \in Message, Mark(f, m)
      PROVE  [People!Go]_People!conversation
  BY <1>4, NothingSeen DEF Mark
<1>5. ASSUME NEW m \in Message,
             SealForTargets(m) \/ CheckMessage(m) \/ StoreMessage(m) \/ Prune(m)
      PROVE  [People!Go]_People!conversation
  BY <1>5, NothingSeen DEF SealForTargets, CheckMessage, StoreMessage, Prune
<1>6. ASSUME NEW d \in Device, NEW m \in Message, NEW draft \in Given, Answer(d, m, draft)
      PROVE  [People!Go]_People!conversation
  BY <1>6, AnswerIsGive
<1>7. ASSUME NEW m \in Message, NEW script \in Scripts, m \in DOMAIN script, Type(m, script[m])
      PROVE  [People!Go]_People!conversation
  <2>1. script[m] \in Line
    BY <1>7 DEF Line, Range
  <2> QED  BY <1>7, <2>1, TypeIsSay
<1>8. ASSUME NEW f \in Sync, Show(f) PROVE [People!Go]_People!conversation
  <2>1. UNCHANGED <<line, answers, told>>
    BY <1>8 DEF Show
  <2>2. GivenNow' = GivenNow
    BY <2>1 DEF GivenNow
  <2>3. Of(f) \in Device /\ \A c \in Device \ {Of(f)} : shown'[c] = shown[c]
    BY <1>8, OfSync, ShowMoves
  <2>4. IInv'
    BY <1>8, ShowStep
  <2> QED  BY <2>1, <2>2, <2>3, <2>4, ScreenIsShow
<1>9. ASSUME NEW m \in Message, ReadResponse(m) PROVE [People!Go]_People!conversation
  BY <1>9, ReadIsHear
<1>10. ASSUME NEW n \in DOMAIN answers, CheckResponse(n) \/ StoreResponse(n)
       PROVE  [People!Go]_People!conversation
  BY <1>10, CheckIsSeen, StoreIsSeen
<1>11. ASSUME NEW n \in DOMAIN answers, SetResponded(n) PROVE [People!Go]_People!conversation
  <2>1. /\ answers[n].pc \in Taken /\ "responded" \in Taken
        /\ answers' = [answers EXCEPT ![n].pc = "responded"] /\ UNCHANGED <<line, shown, told>>
    BY <1>11 DEF SetResponded, Taken
  <2>2. GivenNow' = GivenNow
    BY <2>1, TakenStays
  <2>3. SaidNow' = SaidNow /\ ScreenNow' = ScreenNow /\ HeardNow' = HeardNow
    BY <2>1 DEF SaidNow, Spoken, ScreenNow, OnScreen, HeardNow, Asked
  <2> QED  BY <2>2, <2>3 DEF People!conversation
<1>12. ASSUME NEW n \in DOMAIN answers, ShowAnswer(n) PROVE [People!Go]_People!conversation
  <2>1. /\ answers[n].pc \in Taken /\ "shown" \in Taken
        /\ answers' = [answers EXCEPT ![n].pc = "shown"] /\ UNCHANGED <<line, told>>
    BY <1>12 DEF ShowAnswer, GoodReply, Taken
  <2>2. GivenNow' = GivenNow
    BY <2>1, TakenStays
  <2>3. PICK d \in Device : \A c \in Device \ {d} : shown'[c] = shown[c]
    BY <1>12, ShowAnswerMoves
  <2>4. IInv'
    BY <1>12, ShowAnswerStep
  <2> QED  BY <2>1, <2>2, <2>3, <2>4, ScreenIsShow
<1> QED  BY <1>1, <1>2, <1>3, <1>4, <1>5, <1>6, <1>7, <1>8, <1>9, <1>10, <1>11, <1>12 DEF Next

\* The whole exchange implements a conversation: whatever lies between the terminal and the
\* phones, what people say, see, answer and hear is as module Conversation has it.
THEOREM ConversationRefined == Spec => IsAConversation
<1>1. Init => People!Begin
  BY BeginNothing
<1>2. IInv /\ [Next]_vars => [People!Go]_People!conversation
  BY StepIsSeen
<1> QED  BY <1>1, <1>2, ExchangeInvariant, PTL DEF Spec, IsAConversation, People!Conversing
=============================================================================
