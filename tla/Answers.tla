-------------------------------- MODULE Answers -------------------------------
(***************************************************************************)
(* Those who wait for an answer, side by side: the web interface for the   *)
(* service, and the Telegram bot and the notifier for Telegram.  They      *)
(* share no state; a behaviour is about one, chosen at the start, and the  *)
(* other has nothing to wait for.                                          *)
(***************************************************************************)
EXTENDS Console, TelegramLinks

VARIABLE waiting

answersVars == <<waiting, vars, tgVars>>

AnswersInit ==
    /\ waiting \in {"console", "telegram"}
    /\ ConsoleInit
    /\ waiting = "telegram" => tour = (CHOOSE t \in Tours : t.session) /\ path = "/sign-in" /\ token = Null
    /\ TelegramInit

AnswersNext ==
    \/ waiting = "console" /\ ConsoleNext /\ UNCHANGED <<waiting, tgVars>>
    \/ waiting = "telegram" /\ TelegramNext /\ UNCHANGED <<waiting, vars>>

(* Fairness of the part that stands still asks for nothing: none of its    *)
(* actions that fairness is about is enabled in the state it begins in.    *)
AnswersSpec ==
    AnswersInit /\ [][AnswersNext]_answersVars /\ ConsoleFairness /\ TelegramFairness
=============================================================================
