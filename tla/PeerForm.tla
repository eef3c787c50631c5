------------------------------- MODULE PeerForm -----------------------------
(***************************************************************************)
(* The form that adds a peer (use-peer-form.tsx, use-peer-defaults.tsx).   *)
(* On mount it asks for a key pair and for the lists of interfaces and     *)
(* servers.  A skeleton is shown until the keys have come.  When both      *)
(* lists have come the first interface is chosen; for every interface that *)
(* gets chosen the server is asked to suggest an address.  (The form that  *)
(* edits a peer asks for nothing and sends its copy of the row: Pages.)    *)
(***************************************************************************)
EXTENDS ScreenBase, Integers

CONSTANTS Iface, MaxQuestions

ASSUME InterfacesAssumption == Null \notin Iface

VARIABLES
    pfKeys,        \* the key pair: "asked", "here" or "failed"
    pfInterfaces,  \* the interfaces as last read, Null before
    pfServers,     \* as last read: are there any; Null before
    pfDefaults,    \* hasSetDefaults
    pfInterface,   \* the field interface_id
    pfQuestions,   \* the questions for an address: the interface asked about and what became of it
    pfAddress,     \* the field allowed_address: whose suggestion, "typed", or Null
    pfSaving       \* "no", "sent" or "closed"
pfVars == <<pfKeys, pfInterfaces, pfServers, pfDefaults, pfInterface, pfQuestions, pfAddress, pfSaving>>

PFInit ==
    /\ pfKeys = "asked" /\ pfInterfaces = Null /\ pfServers = Null
    /\ pfDefaults = FALSE /\ pfInterface = Null /\ pfQuestions = <<>>
    /\ pfAddress = Null /\ pfSaving = "no"

Orders == {list \in SeqOf(Iface, Cardinality(Iface)) : IsInjective(list)}
Filled == pfKeys = "here" /\ pfSaving # "closed"

(* The effect on interfaceId: asks about an interface when it gets chosen.     *)
SetInterface(i) ==
    /\ pfInterface' = i
    /\ pfQuestions' = IF i # pfInterface /\ i # Null
                      THEN Append(pfQuestions, [of |-> i, answer |-> "due"]) ELSE pfQuestions

(* The effect on the lists: once, the first interface and the first server.    *)
SetsDefaults_Always(interfaces, servers) == interfaces \notin {Null, <<>>} /\ servers = TRUE
SetsDefaults(interfaces, servers) ==
    ~pfDefaults /\ interfaces \notin {Null, <<>>} /\ servers = TRUE

ListsRead(interfaces, servers) ==
    /\ pfInterfaces' = interfaces /\ pfServers' = servers
    /\ pfDefaults' = (pfDefaults \/ SetsDefaults(interfaces, servers))
    /\ SetInterface(IF SetsDefaults(interfaces, servers) THEN Head(interfaces) ELSE pfInterface)
    /\ UNCHANGED <<pfKeys, pfAddress, pfSaving>>

(* A list is read, and read again whenever the window gets the focus.          *)
InterfacesRead ==
    /\ pfSaving # "closed" /\ Len(pfQuestions) < MaxQuestions
    /\ \E list \in Orders : ListsRead(list, pfServers)

ServersRead ==
    /\ pfSaving # "closed" /\ Len(pfQuestions) < MaxQuestions
    /\ \E some \in BOOLEAN : ListsRead(pfInterfaces, some)

(* Asked once: when the answer is an error the skeleton stays.                 *)
KeysGenerated ==
    /\ pfKeys = "asked"
    /\ pfKeys' \in {"here", "failed"}
    /\ UNCHANGED <<pfInterfaces, pfServers, pfDefaults, pfInterface, pfQuestions, pfAddress, pfSaving>>

InterfaceSelect ==
    /\ Filled /\ pfInterfaces # Null /\ Len(pfQuestions) < MaxQuestions
    /\ \E i \in ToSet(pfInterfaces) : SetInterface(i)
    /\ UNCHANGED <<pfKeys, pfInterfaces, pfServers, pfDefaults, pfAddress, pfSaving>>

AddressTyped ==
    /\ Filled
    /\ pfAddress' = "typed"
    /\ UNCHANGED <<pfKeys, pfInterfaces, pfServers, pfDefaults, pfInterface, pfQuestions, pfSaving>>

(* The answers come in any order; useMutation calls back for its latest call.  *)
CallsBack_Any(q) == pfQuestions[q].answer = "due"
CallsBack(q) == pfQuestions[q].answer = "due" /\ q = Len(pfQuestions)

AddressSuggested(q) ==
    /\ pfSaving # "closed" /\ pfQuestions[q].answer = "due"
    /\ \E answer \in {"here", "failed"} :
         /\ pfQuestions' = [pfQuestions EXCEPT ![q].answer = answer]
         /\ pfAddress' = IF answer = "here" /\ CallsBack(q) THEN pfQuestions[q].of ELSE pfAddress
    /\ UNCHANGED <<pfKeys, pfInterfaces, pfServers, pfDefaults, pfInterface, pfSaving>>

(* Save; an error leaves the form as it is.                                  *)
onSubmit ==
    /\ Filled /\ pfSaving = "no" /\ pfInterface # Null /\ pfAddress # Null
    /\ pfSaving' = "sent"
    /\ UNCHANGED <<pfKeys, pfInterfaces, pfServers, pfDefaults, pfInterface, pfQuestions, pfAddress>>

Submitted ==
    /\ pfSaving = "sent"
    /\ pfSaving' \in {"no", "closed"}
    /\ UNCHANGED <<pfKeys, pfInterfaces, pfServers, pfDefaults, pfInterface, pfQuestions, pfAddress>>

PFNext ==
    \/ InterfacesRead \/ ServersRead \/ KeysGenerated
    \/ InterfaceSelect \/ AddressTyped
    \/ \E q \in DOMAIN pfQuestions : AddressSuggested(q)
    \/ onSubmit \/ Submitted

(* Once the server has answered the last question, the address in the form is  *)
(* one of the interface in the form, or was typed since: an answer about an     *)
(* interface that was left again is not taken (use-peer-defaults.tsx).          *)
AddressOfInterface ==
    LET last == Len(pfQuestions) IN
      last > 0 /\ pfQuestions[last].answer = "here" => pfAddress \in {pfInterface, "typed"}

(* The defaults are given once: after that only the administrator changes the   *)
(* interface, however often the lists are read again (hasSetDefaults).          *)
ChoiceStays == [][pfDefaults /\ pfInterface' # pfInterface => InterfaceSelect]_pfVars

-----------------------------------------------------------------------------
(* The fields of the form that do not show what they hold: a bandwidth is  *)
(* one text in the form and a number with a unit on the screen, a limit is *)
(* a number in the form and a text on the screen, an expiry is a day in    *)
(* the form and an instant on the screen.                                  *)

CONSTANTS
    Amount,    \* the amounts an administrator types
    Day,       \* the days an administrator picks
    Zone       \* hours east of Greenwich

ASSUME FieldsAssumption == Null \notin Amount /\ Day \subseteq Int /\ Zone \subseteq -12 .. 14

VARIABLES
    fdBand,    \* the form's bandwidth: [raw, unit], Other for a text of another form, or Null
    fdRaw,     \* the text on the screen, Null when it is empty
    fdUnit,    \* the unit on the screen
    fdLimit,   \* the form's limit, or Null
    fdText,    \* the limit on the screen
    fdDay,     \* the form's expiry: the number of a day, or Null
    fdZone     \* where the browser is
fdVars == <<fdBand, fdRaw, fdUnit, fdLimit, fdText, fdDay, fdZone>>

Unit == {"Kb", "Mb", "Gb"}
Other == [raw |-> Null, unit |-> "other"]

(* A form is mounted empty, or on a row.  The limit's effect copies the value;  *)
(* the bandwidth's copies a value that is a number with a unit, no other.       *)
FDInit ==
    /\ fdBand = Null /\ fdRaw = Null /\ fdUnit = "Mb"
    /\ fdLimit = Null /\ fdText = Null
    /\ fdDay = Null /\ fdZone = 0

FieldsMounted ==
    /\ \E value \in [raw : Amount, unit : Unit] \cup {Other, Null} :
         /\ fdBand' = value
         /\ fdRaw' = IF value \in {Other, Null} THEN Null ELSE value.raw
         /\ fdUnit' = IF value \in {Other, Null} THEN "Mb" ELSE value.unit
    /\ \E limit \in Amount \cup {Null} : fdLimit' = limit /\ fdText' = limit
    /\ fdDay' \in Day \cup {Null} /\ fdZone' \in Zone

getCombinedValue(raw, unit) == IF raw = Null THEN Null ELSE [raw |-> raw, unit |-> unit]

BandwidthTyped ==
    /\ fdRaw' \in Amount \cup {Null}
    /\ fdBand' = getCombinedValue(fdRaw', fdUnit)
    /\ UNCHANGED <<fdUnit, fdLimit, fdText, fdDay, fdZone>>

UnitSelected(unit) == fdUnit' = unit /\ fdBand' = getCombinedValue(fdRaw, unit)

BandwidthUnit ==
    /\ \E unit \in Unit : UnitSelected(unit)
    /\ UNCHANGED <<fdRaw, fdLimit, fdText, fdDay, fdZone>>

TrafficInput ==
    /\ fdText' \in Amount \cup {Null}
    /\ fdLimit' = fdText'
    /\ UNCHANGED <<fdBand, fdRaw, fdUnit, fdDay, fdZone>>

(* The day picked is kept as its date; shown is the local date of the instant   *)
(* at which that date begins in Greenwich.                                     *)
SimpleDatepicker ==
    /\ fdDay' \in Day \cup {Null}
    /\ UNCHANGED <<fdBand, fdRaw, fdUnit, fdLimit, fdText, fdZone>>

DayShown == (24 * fdDay + fdZone) \div 24

FDNext == FieldsMounted \/ BandwidthTyped \/ BandwidthUnit \/ TrafficInput \/ SimpleDatepicker

(* What is sent is what is shown: every bandwidth but one of another form, of   *)
(* which nothing is shown until it is replaced; every limit; and, unless the    *)
(* browser is west of Greenwich, every date.  There the picker shows the day    *)
(* before the one that is sent, and the formula says nothing of it.             *)
ShownIsSent ==
    /\ fdBand # Other => fdBand = getCombinedValue(fdRaw, fdUnit)
    /\ fdBand = Other => fdRaw = Null
    /\ fdLimit = fdText
    /\ fdDay # Null /\ fdZone >= 0 => DayShown = fdDay

=============================================================================
