----------------------------- MODULE CommandLine -----------------------------
(***************************************************************************)
(* How the CLI reads a command that sends a message                        *)
(* (packages/cli/src/args.ts, commands.ts).  An argument is a record that  *)
(* says what parseArgs tells apart of its text:                            *)
(*   word    a text that does not start with a dash                        *)
(*   dash    a text that starts with one dash                              *)
(*   flag    --name; the name is without the blanks around it              *)
(*   inline  --name=text                                                   *)
(*   end     --                                                            *)
(*   empty   the empty text, or a flag without a name (--=text)            *)
(***************************************************************************)
EXTENDS Naturals, Sequences, FiniteSetsExt

CONSTANTS
    None,   \* the empty text, a field that is not there, or no result at all
    Cut     \* of some texts that contain "=", the part before it

UpToEquals(text) == IF text \in DOMAIN Cut THEN Cut[text] ELSE text

Nothing == [command |-> <<>>, flags |-> [name \in {} |-> None], positional |-> <<>>,
            commandDone |-> FALSE, taken |-> FALSE, ended |-> FALSE]

\* A flag takes the next argument unless that is absent, empty or starts with a dash.
TakesNext(next) == next.kind = "word"

\* A later mention of a flag replaces an earlier one.
SetFlag(flags, name, value) ==
    [n \in DOMAIN flags \cup {name} |-> IF n = name THEN value ELSE flags[n]]

\* One turn of the loop of parseArgs: arg is read, next is the one after it.
ReadArg(parsed, arg, next) ==
    IF parsed.taken THEN [parsed EXCEPT !.taken = FALSE]
    ELSE IF parsed.ended THEN [parsed EXCEPT !.positional = Append(@, arg.text)]
    ELSE CASE arg.kind = "empty" -> parsed
           [] arg.kind = "end" -> [parsed EXCEPT !.ended = TRUE]
           [] arg.kind = "inline" ->
                 [parsed EXCEPT !.flags = SetFlag(@, arg.name, UpToEquals(arg.text))]
           [] arg.kind = "flag" ->
                 [parsed EXCEPT
                     !.flags = SetFlag(@, arg.name, IF TakesNext(next) THEN next.text ELSE TRUE),
                     !.taken = TakesNext(next), !.commandDone = TRUE]
           [] OTHER ->
                 IF ~parsed.commandDone /\ Len(parsed.command) < 2
                 THEN [parsed EXCEPT !.command = Append(@, arg.text)]
                 ELSE [parsed EXCEPT !.positional = Append(@, arg.text)]

ParseArgs(argv) ==
    LET Next(i) == IF i < Len(argv) THEN argv[i + 1] ELSE [kind |-> "none"]
        read[i \in 0..Len(argv)] ==
            IF i = 0 THEN Nothing ELSE ReadArg(read[i - 1], argv[i], Next(i))
    IN  read[Len(argv)]

FlagString(flags, name) ==
    IF name \in DOMAIN flags /\ flags[name] # TRUE THEN flags[name] ELSE None
FlagBoolean(flags, name) == name \in DOMAIN flags /\ flags[name] = TRUE

-----------------------------------------------------------------------------
(* What is to be sent *)

ModeOf == [notify |-> "notify", reply |-> "request_reply", approve |-> "request_approval"]

\* handleSend, up to the request; None stands for the error of a missing title or body.
SendInput(mode, flags) ==
    IF FlagString(flags, "title") = None \/ FlagString(flags, "body") = None
    THEN None
    ELSE [mode |-> mode,
          title |-> FlagString(flags, "title"),
          body |-> FlagString(flags, "body"),
          sensitive |-> ~FlagBoolean(flags, "non-sensitive"),
          idempotencyKey |-> FlagString(flags, "idempotency-key"),
          actionLabel |-> FlagString(flags, "action-label"),
          prompt |-> FlagString(flags, "prompt"),
          risk |-> FlagString(flags, "risk")]

\* runCli, of the commands that send; any other first word sends nothing.
RunCli(argv) ==
    LET parsed == ParseArgs(argv)
    IN  IF parsed.command # <<>> /\ parsed.command[1] \in DOMAIN ModeOf
        THEN SendInput(ModeOf[parsed.command[1]], parsed.flags)
        ELSE None

\* requestPlaintext: what the phone is told of the request, with one shape for all modes.
RequestPlaintext(input) ==
    CASE input.mode = "notify" -> None
      [] input.mode = "request_reply" -> [kind |-> "reply", prompt |-> input.prompt]
      [] input.mode = "request_approval" ->
            [kind |-> "approval",
             actionLabel |-> IF input.actionLabel = None THEN "Approve" ELSE input.actionLabel,
             riskText |-> input.risk]

-----------------------------------------------------------------------------
(* What a line says, looked at as a whole: the reference for the reading above. *)

\* The flags: behind "--" there are none.
Flags(argv) ==
    {i \in DOMAIN argv : /\ argv[i].kind \in {"flag", "inline"}
                         /\ \A j \in 1..(i - 1) : argv[j].kind # "end"}

\* Where a flag is mentioned, and what it is given at a mention.
Mentions(argv, name) == {i \in Flags(argv) : argv[i].name = name}
GivenAt(argv, i) ==
    IF argv[i].kind = "inline" THEN UpToEquals(argv[i].text)
    ELSE IF i < Len(argv) /\ argv[i + 1].kind = "word" THEN argv[i + 1].text ELSE TRUE

\* The last mention of a flag counts, wherever the others are.
SaidFlags(argv) ==
    [name \in {argv[i].name : i \in Flags(argv)} |-> GivenAt(argv, Max(Mentions(argv, name)))]

\* The texts before "--" and before the first flag without "="; the first is the command.
Commands(argv) ==
    {i \in DOMAIN argv : /\ argv[i].kind \notin {"empty", "end", "inline", "flag"}
                         /\ \A j \in 1..(i - 1) : argv[j].kind \notin {"end", "flag"}}

SaidInput(argv) ==
    LET command == argv[Min(Commands(argv))].text
    IN  IF Commands(argv) # {} /\ command \in DOMAIN ModeOf
        THEN SendInput(ModeOf[command], SaidFlags(argv))
        ELSE None
=============================================================================
