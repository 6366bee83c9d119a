------------------------- MODULE TranslationPromise -------------------------
(***************************************************************************)
(* What AsyncService promises its clients                                  *)
(* (inference/src/translator/service.h), with no threads, batches, caches  *)
(* or requests in it: the callback of every call of translate() and        *)
(* pivot() is triggered once, with the translation of its own text, and    *)
(* the destructor returns when every call has been answered.               *)
(***************************************************************************)
EXTENDS Naturals, Sequences

CONSTANTS Calls, Models, Texts, Histories, Pivots, None, Retokenize

VARIABLES
    asked,   \* what each call asks for, None before the call
    told,    \* what its callback was given, None before
    service  \* "up", "joining" or "destroyed"

vars == <<asked, told, service>>

Question == [text : Texts, first : Models, second : {None}]
            \cup {[text |-> text, first |-> p[1], second |-> p[2]] :
                    text \in Texts, p \in Pivots}

\* The answer to a question: each segment translated by the one model, or by
\* the second model out of what the first made of it.
Answer(question) ==
    [i \in DOMAIN question.text |->
        LET once == <<question.first, question.text[i]>>
        IN  IF question.second = None THEN once
            ELSE <<question.second, Retokenize[once]>>]

TypeOK == /\ asked \in [Calls -> Question \cup {None}]
          /\ service \in {"up", "joining", "destroyed"}

Init == /\ asked = [c \in Calls |-> None]
        /\ told = [c \in Calls |-> None]
        /\ service = "up"

Ask(c) ==
    /\ service = "up" /\ asked[c] = None
    /\ \E question \in Question : asked' = [asked EXCEPT ![c] = question]
    /\ UNCHANGED <<told, service>>

Tell(c) ==
    /\ asked[c] # None /\ told[c] = None
    /\ told' = [told EXCEPT ![c] = Answer(asked[c])]
    /\ UNCHANGED <<asked, service>>

Shutdown ==
    /\ service = "up" /\ service' = "joining"
    /\ UNCHANGED <<asked, told>>

Destroy ==
    /\ service = "joining" /\ \A c \in Calls : asked[c] # None => told[c] # None
    /\ service' = "destroyed"
    /\ UNCHANGED <<asked, told>>

Next == \/ \E c \in Calls : Ask(c) \/ Tell(c)
        \/ Shutdown
        \/ Destroy

\* Every call is answered, and a destructor that was entered returns.
Spec == /\ Init /\ [][Next]_vars
        /\ \A c \in Calls : WF_vars(Tell(c))
        /\ WF_vars(Destroy)
=============================================================================
