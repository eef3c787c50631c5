------------------------------- MODULE ConfigDialog -------------------------
(***************************************************************************)
(* A peer's configuration, shown or downloaded (peers-config-dialog.tsx).  *)
(* The query is kept by peer; the text on the screen is a state of the     *)
(* dialog, set when a FileReader has read the answer.  Both entries of the *)
(* menu use one dialog, mounted anew for every peer (its key); the one     *)
(* that downloads renders nothing, saves the file as soon as there is an   *)
(* answer, be it an old one, and closes itself.  (The QR code's dialog     *)
(* shows the answer of its query and has no state.)                        *)
(***************************************************************************)
EXTENDS ScreenBase

CONSTANTS Peer, MaxEdits

VARIABLES
    cdServer,    \* server: how often each configuration has changed
    cdOpen,      \* "show_config", "download_config" or Null
    cdRow,       \* the peer of the dialog mounted, or Null
    cdCache,     \* [Peer -> the answer last had, or Null]
    cdReading,   \* the peers whose configuration is being asked for
    cdLoading,   \* the answer a FileReader is reading for the dialog mounted, or Null
    cdText,      \* configText: [of, version], or Null
    cdHas,       \* hasDownloaded
    cdFades,     \* the timer that unmounts the dialog is running
    cdFile       \* the file saved last: [of, version], or Null
cdVars == <<cdServer, cdOpen, cdRow, cdCache, cdReading, cdLoading, cdText, cdHas, cdFades, cdFile>>

CDInit ==
    /\ cdServer = [p \in Peer |-> 0]
    /\ cdOpen = Null /\ cdRow = Null
    /\ cdCache = [p \in Peer |-> Null] /\ cdReading = {} /\ cdLoading = Null
    /\ cdText = Null /\ cdHas = FALSE /\ cdFades = FALSE /\ cdFile = Null

(* The effect on the answer: starts a FileReader; once per mount, saves a file. *)
WithAnswer(open, p, answer, has) ==
    IF p = Null \/ answer = Null
    THEN cdOpen' = open /\ cdHas' = has /\ cdLoading' = Null /\ UNCHANGED <<cdFile, cdFades>>
    ELSE /\ cdLoading' = [of |-> p, version |-> answer]
         /\ IF open = "download_config" /\ ~has
            THEN /\ cdFile' = [of |-> p, version |-> answer]
                 /\ cdHas' = TRUE /\ cdOpen' = Null /\ cdFades' = TRUE
            ELSE cdOpen' = open /\ cdHas' = has /\ UNCHANGED <<cdFile, cdFades>>

(* A dialog of another peer is another dialog: it begins with no text.          *)
Mounts_Never(p) == cdRow = Null
Mounts(p) == p # cdRow

(* The menu's entry copies the row and TOGGLES its dialog: after a download that *)
(* failed the dialog is still open, unseen, and the next click closes it.       *)
MenuEntry(d, p) ==
    /\ cdOpen = "show_config" => cdRow = Null
    /\ cdRow' = p
    /\ cdText' = IF Mounts(p) THEN Null ELSE cdText
    /\ WithAnswer(IF cdOpen = d THEN Null ELSE d, p, cdCache[p], IF Mounts(p) THEN FALSE ELSE cdHas)
    /\ \E stale \in BOOLEAN :
         cdReading' = IF cdOpen # d /\ (cdCache[p] = Null \/ stale) THEN cdReading \cup {p} ELSE cdReading
    /\ UNCHANGED <<cdServer, cdCache>>

ConfigRead(p) ==
    /\ p \in cdReading
    /\ cdReading' = cdReading \ {p}
    /\ cdCache' = [cdCache EXCEPT ![p] = cdServer[p]]
    /\ IF p = cdRow THEN WithAnswer(cdOpen, p, cdServer[p], cdHas)
       ELSE UNCHANGED <<cdOpen, cdHas, cdLoading, cdFile, cdFades>>
    /\ UNCHANGED <<cdServer, cdRow, cdText>>

ConfigFailed(p) ==
    /\ p \in cdReading
    /\ cdReading' = cdReading \ {p}
    /\ UNCHANGED <<cdServer, cdOpen, cdRow, cdCache, cdLoading, cdText, cdHas, cdFades, cdFile>>

onload ==
    /\ cdLoading # Null
    /\ cdText' = cdLoading /\ cdLoading' = Null
    /\ UNCHANGED <<cdServer, cdOpen, cdRow, cdCache, cdReading, cdHas, cdFades, cdFile>>

ConfigClosed ==
    /\ cdOpen = "show_config" /\ cdRow # Null
    /\ cdOpen' = Null /\ cdFades' = TRUE
    /\ UNCHANGED <<cdServer, cdRow, cdCache, cdReading, cdLoading, cdText, cdHas, cdFile>>

(* Half a second after closing: the dialog is unmounted.                       *)
ConfigUnmounted ==
    /\ cdFades
    /\ cdFades' = FALSE /\ cdRow' = Null /\ cdText' = Null /\ cdLoading' = Null /\ cdHas' = FALSE
    /\ UNCHANGED <<cdServer, cdOpen, cdCache, cdReading, cdFile>>

ConfigChanges(p) ==
    /\ cdServer[p] < MaxEdits
    /\ cdServer' = [cdServer EXCEPT ![p] = @ + 1]
    /\ UNCHANGED <<cdOpen, cdRow, cdCache, cdReading, cdLoading, cdText, cdHas, cdFades, cdFile>>

CDNext ==
    \/ \E p \in Peer : \/ \E d \in {"show_config", "download_config"} : MenuEntry(d, p)
                       \/ ConfigRead(p) \/ ConfigFailed(p) \/ ConfigChanges(p)
    \/ onload \/ ConfigClosed \/ ConfigUnmounted

(* On the screen: the skeleton until there is an answer, then the text.          *)
TextOnScreen ==
    /\ cdOpen = "show_config" /\ cdRow # Null /\ cdText # Null
    /\ cdCache[cdRow] # Null \/ cdRow \notin cdReading

(* The configuration shown is the one of the peer whose menu was used, also      *)
(* when another peer's was shown a moment ago and the question fails: a private  *)
(* key never appears under another peer (the dialog's key in peers-dialogs.tsx). *)
ConfigOfRow == TextOnScreen => cdText.of = cdRow

=============================================================================
