------------------------------- MODULE SharePage ----------------------------
(***************************************************************************)
(* The page a peer's user opens with a link (features/share): its          *)
(* questions, asked when it opens and again when its window has the focus; *)
(* each is refused on its own when the peer is no longer shared.           *)
(***************************************************************************)
EXTENDS ScreenBase

VARIABLES
    shpPhase,   \* server: the share is "shared", "expired" or "stopped"
    shpBot,     \* server: the Telegram bot is enabled
    shpCard,    \* the Telegram card: Null, or what is known of the "bot" or of the "link"
    shpAnswer,  \* [Question -> the answer last had, or Null]
    shpError,   \* [Question -> Null, "refused" (404) or "failed"]
    shpFetch,   \* [Question -> Null, "sent", or the answer on its way]
    shpText,    \* the configuration card holds a text (read from the answer by a FileReader)
    shpVerdict, \* history: the last answer to a question for the details, Null, "given" or "refused"
    shpFailed   \* history: a question for the details has failed since
shpVars == <<shpPhase, shpBot, shpCard, shpAnswer, shpError, shpFetch, shpText, shpVerdict, shpFailed>>

Question == {"details", "config", "qrcode"}

ASSUME ShareAssumption == Null \notin {"sent", "given", "refused", "failed"}

SPInit ==
    /\ shpPhase \in {"shared", "expired", "stopped"} /\ shpBot \in BOOLEAN
    /\ shpAnswer = [q \in Question |-> Null] /\ shpError = [q \in Question |-> Null]
    /\ shpFetch = [q \in Question |-> "sent"] /\ shpCard = Null
    /\ shpText = FALSE /\ shpVerdict = Null /\ shpFailed = FALSE

(* What the service says (user.go, peer.go, config_file.go, qr_code.go): the    *)
(* configuration is given out also when the share has expired.                 *)
Sharable(q) == shpPhase = "shared" \/ (q = "config" /\ shpPhase = "expired")

ServeQuestion(q) ==
    /\ shpFetch[q] = "sent"
    /\ shpFetch' = [shpFetch EXCEPT ![q] = IF Sharable(q) THEN "given" ELSE "refused"]
    /\ UNCHANGED <<shpPhase, shpBot, shpCard, shpAnswer, shpError, shpText, shpVerdict, shpFailed>>

(* The page is not there when the question for the details was refused.         *)
NotFound_WithoutStats(error, answer) == error["details"] = "refused" /\ answer["details"] = Null
NotFound(error, answer) == error["details"] = "refused"

(* The card of the configuration reads its answer; it is a new card, with no     *)
(* text, when the page comes back.                                            *)
Drawn(error, answer) ==
    /\ shpError' = error /\ shpAnswer' = answer
    /\ shpText' = (~NotFound(error, answer) /\ answer["config"] # Null)

QuestionAnswered(q) ==
    /\ shpFetch[q] \notin {Null, "sent"}
    /\ IF shpFetch[q] = "refused" THEN Drawn([shpError EXCEPT ![q] = "refused"], shpAnswer)
       ELSE Drawn([shpError EXCEPT ![q] = Null], [shpAnswer EXCEPT ![q] = shpFetch[q]])
    /\ shpFetch' = [shpFetch EXCEPT ![q] = Null]
    /\ IF q = "details" THEN shpVerdict' = shpFetch[q] /\ shpFailed' = FALSE
       ELSE UNCHANGED <<shpVerdict, shpFailed>>
    /\ UNCHANGED <<shpPhase, shpBot, shpCard>>

(* Nobody answers, or the service fails: what there was stays on the screen; a   *)
(* page that was refused is shown again.                                      *)
QuestionFailed(q) ==
    /\ shpFetch[q] # Null
    /\ Drawn([shpError EXCEPT ![q] = "failed"], shpAnswer)
    /\ shpFetch' = [shpFetch EXCEPT ![q] = Null]
    /\ shpFailed' = (shpFailed \/ q = "details")
    /\ UNCHANGED <<shpPhase, shpBot, shpCard, shpVerdict>>

(* The bot is asked about when the page opens; whether a chat is linked is asked  *)
(* when the bot is known to be enabled, every eight seconds, and only answered    *)
(* for a peer that is shared.                                                 *)
TelegramRead ==
    /\ \/ shpCard = Null /\ shpCard' = IF shpBot THEN "enabled" ELSE "disabled"
       \/ shpCard \in {"enabled", "linked"} /\ shpPhase = "shared" /\ shpCard' \in {"enabled", "linked"}
    /\ UNCHANGED <<shpPhase, shpBot, shpAnswer, shpError, shpFetch, shpText, shpVerdict, shpFailed>>

(* A question that has never been answered forgets its error when it is asked    *)
(* again: the page that was refused is drawn while it waits.                   *)
Asked(questions) ==
    /\ shpFetch' = [q \in Question |-> IF q \in questions THEN "sent" ELSE shpFetch[q]]
    /\ Drawn([q \in Question |-> IF q \in questions /\ shpAnswer[q] = Null THEN Null ELSE shpError[q]], shpAnswer)
    /\ UNCHANGED <<shpPhase, shpBot, shpCard, shpVerdict, shpFailed>>

(* The window has the focus: what is older than its staleTime is asked again.    *)
Focused == \E stale \in SUBSET {q \in Question : shpFetch[q] = Null} : stale # {} /\ Asked(stale)

ShareChanged ==
    /\ shpPhase' \in {"shared", "expired", "stopped"} \ {shpPhase}
    /\ UNCHANGED <<shpBot, shpCard, shpAnswer, shpError, shpFetch, shpText, shpVerdict, shpFailed>>

SPNext ==
    \/ \E q \in Question : ServeQuestion(q) \/ QuestionAnswered(q) \/ QuestionFailed(q)
    \/ Focused \/ TelegramRead \/ ShareChanged

(* What a user has before his eyes.                                            *)
PeerConfigCard == shpText
PeerQRCodeCard == ~NotFound(shpError, shpAnswer) /\ shpAnswer["qrcode"] # Null

(* Once the page was told that the peer is not shared, the configuration and the  *)
(* QR code it had are off the screen, whatever becomes of their own questions     *)
(* (index.tsx:65), until the details are asked for again: when that question      *)
(* fails, or while it is on its way for a page that never had the details, what   *)
(* the page had is drawn again.                                                *)
RevokedIsHidden ==
    shpVerdict = "refused" /\ (PeerConfigCard \/ PeerQRCodeCard)
        => shpFailed \/ (shpAnswer["details"] = Null /\ shpFetch["details"] # Null)
=============================================================================
