-------------------------- MODULE MCSealedExchange --------------------------
(* Messages in several spellings, and lines that say less than they seem. *)
EXTENDS SealedExchange

CONSTANTS hello, there, equation, part

\* Two synchronisations of device 2, which may overlap; device 1 is there for its wraps,
\* which come before those of device 2 in the order of the server.
MCSync == {<<2, 1>>, <<2, 2>>}

MCGiven == {[kind |-> "reply", text |-> there],
            [kind |-> "approval", decision |-> "approved", text |-> hello]}

MCCut == equation :> part

Word(t) == [kind |-> "word", text |-> t]
Dash(t) == [kind |-> "dash", text |-> t]
Flag(name) == [kind |-> "flag", name |-> name]
Inline(name, t) == [kind |-> "inline", name |-> name, text |-> t]
Blank == [kind |-> "empty", text |-> None]
End == [kind |-> "end"]

\* One flag after the other, with an empty argument behind them.
Notice == <<Word("notify"), Flag("title"), Word(hello), Flag("non-sensitive"),
            Flag("body"), Word(equation), Blank>>

\* The body twice, and more after "--"; the flag takes a word, and does not count.
Repeated == <<Word("notify"), Flag("body"), Word(part), Flag("body"), Word(equation),
              Flag("non-sensitive"), Word(there), Flag("title"), Word(hello), End, Word(part)>>

\* Behind "=" a body with another "=" is cut, and the flag does not count.
Inlined == <<Word("notify"), Inline("body", equation), Inline("non-sensitive", part),
             Inline("title", hello)>>

\* A body that starts with a dash: nothing is sent.
Dashed == <<Word("notify"), Flag("title"), Word(hello), Flag("body"), Dash(part)>>

Question == <<Word("reply"), Inline("body", there), Inline("prompt", there), Inline("title", hello)>>

Approval == <<Word("approve"), Flag("title"), Word(hello), Flag("action-label"), Word(there),
              Inline("risk", part), Flag("body"), Word(there)>>

ScriptsOnce == {<<Notice, Repeated>>, <<Inlined>>, <<Dashed>>, <<Question>>, <<Approval>>}

\* A name of its own: what a CONSTANT is replaced by TLC evaluates at every use.
MCScripts == ScriptsOnce
=============================================================================
