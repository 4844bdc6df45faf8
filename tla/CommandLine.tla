---------------------------- MODULE CommandLine ----------------------------
(***************************************************************************)
(* parseline and parsepipe of the three shells: from the characters of a   *)
(* line to the words of a command, and from a command with `|' to its first *)
(* command and the text of the others.  A character is a string: "q" is the *)
(* double quote (34), "s" the single quote (39), and any letter a letter.   *)
(* A buffer is the sequence of its characters up to the final NUL, once the *)
(* last one, a newline or a space, is overwritten by a space.               *)
(***************************************************************************)
EXTENDS Integers, Sequences, SequencesExt

Quotes == {"q", "s"}

\* strchr from a position: 0 stands for NULL.
Strchr(buf, ch, from) ==
    LET at == {i \in from..Len(buf) : buf[i] = ch}
    IN IF at = {} THEN 0 ELSE Min(at)

\* The stack of quotes is empty in the end: quot_flag.
QuotFlag(buf) ==
    LET Push(stack, ch) ==
            IF ch \notin Quotes THEN stack
            ELSE IF stack # <<>> /\ Last(stack) = ch THEN Front(stack)
            ELSE Append(stack, ch)
        stack[i \in 0..Len(buf)] == IF i = 0 THEN <<>> ELSE Push(stack[i - 1], buf[i])
    IN stack[Len(buf)] = <<>>

Parsed(args, bg) == [args |-> args, bg |-> bg, crash |-> FALSE]
Crash == [args |-> <<>>, bg |-> FALSE, crash |-> TRUE]

(***************************************************************************)
(* The words of a buffer.  A word that begins with a quote goes up to the  *)
(* next double quote, whichever quote began it: with none, the code writes *)
(* through NULL.  What follows that double quote is dropped up to the next *)
(* space, unless it begins with a character of `glued': then it is a word. *)
(***************************************************************************)
Words(buf, glued) ==
    LET quot_flag == QuotFlag(buf)
        words[i \in 1..(Len(buf) + 1)] ==
        IF i > Len(buf) THEN Parsed(<<>>, FALSE)
        ELSE IF buf[i] = " " THEN words[i + 1]
        ELSE IF quot_flag /\ buf[i] \in Quotes
        THEN LET e == Strchr(buf, "q", i + 1)
                 d == Strchr(buf, " ", e + 1)
                 after == IF buf[e + 1] \in glued THEN <<SubSeq(buf, e + 1, d - 1)>> ELSE <<>>
                 rest == words[d + 1]
             IN IF e = 0 THEN Crash
                ELSE [rest EXCEPT !.args = <<SubSeq(buf, i + 1, e - 1)>> \o after \o @]
        ELSE LET d == Strchr(buf, " ", i)  rest == words[d + 1] IN
             [rest EXCEPT !.args = <<SubSeq(buf, i, d - 1)>> \o @]
    IN words[1]

\* A last word that begins with & is taken off: the job runs in the background.
Background(p) ==
    IF p.crash THEN p
    ELSE IF p.args = <<>> THEN Parsed(<<>>, TRUE)
    ELSE IF Last(p.args) # <<>> /\ Head(Last(p.args)) = "&" THEN Parsed(Front(p.args), TRUE)
    ELSE p

\* In phase 3 a last word that ends with & loses it.
Background3(p) ==
    LET b == Background(p)  l == Last(p.args) IN
    IF b.crash \/ b.bg \/ l = <<>> \/ Last(l) # "&" THEN b
    ELSE Parsed(Append(Front(p.args), Front(l)), TRUE)

Parseline1(buf) == Background(Words(buf, {}))
Parseline2(buf) == Background(Words(buf, {"|"}))
Parseline3(buf) == Background3(Words(buf, {"|", "&"}))

Parseline(phase, buf) ==
    IF phase = 1 THEN Parseline1(buf)
    ELSE IF phase = 2 THEN Parseline2(buf) ELSE Parseline3(buf)

Join(words) ==
    LET text[i \in 0..Len(words)] ==
            IF i = 0 THEN <<>> ELSE text[i - 1] \o words[i] \o <<" ">>
    IN text[Len(words)]

\* The text before the first bar of the words, and the text after it: quotes that
\* parseline took off are gone.
Parsepipe(args) ==
    LET bars == {i \in DOMAIN args : Strchr(args[i], "|", 1) # 0}
        i == Min(bars)
        bar == Strchr(args[i], "|", 1)
    IN IF bars = {} THEN [first |-> Join(args), after |-> <<>>]
       ELSE [first |-> Join(SubSeq(args, 1, i - 1)) \o SubSeq(args[i], 1, bar - 1) \o <<" ">>,
             after |-> Join(<<SubSeq(args[i], bar + 1, Len(args[i]))>>
                              \o SubSeq(args, i + 1, Len(args)))]
=============================================================================
