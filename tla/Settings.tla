------------------------------ MODULE Settings ------------------------------
(***************************************************************************)
(* What a workflow document means: the front matter of config/workflow.go  *)
(* and the typed settings of config/settings.go, with defaults, references *)
(* to the environment, normalized state limits and validation.             *)
(*                                                                         *)
(* A document keeps of its front matter what decides: whether it is a map  *)
(* at all, the provider, the command and the approval policy of Codex      *)
(* (Null if there is none, the policy by its type), the numbers it gives   *)
(* (Null for an explicit null, NotANumber for what does not decode) and    *)
(* the limits per state, in the spelling of the document.  The provider's  *)
(* texts are literals or references $NAME.                                 *)
(***************************************************************************)
EXTENDS Integers

CONSTANTS Env,              \* the environment: names to values
          Unset, Null, NotANumber, Rejected

Field == {"interval_ms", "max_concurrent_agents", "max_turns", "max_retry_backoff_ms",
          "max_concurrent_agents_per_host", "turn_timeout_ms", "read_timeout_ms", "stall_timeout_ms",
          "hooks_timeout_ms", "refresh_ms", "render_interval_ms", "port"}
Optional == {"max_concurrent_agents_per_host", "port"}    \* no default: left out
MayBeZero == {"stall_timeout_ms", "port"}

Blank == [ref |-> FALSE, text |-> ""]
Lookup(name) == IF name \in DOMAIN Env THEN Env[name] ELSE Unset
OrEmpty(value) == IF value = Unset THEN "" ELSE value

(* resolveSecretSetting: only a blank text and an unset reference fall back. *)
ResolveSecret(value, fallback) ==
  CASE value = Blank \/ (value.ref /\ Lookup(value.text) = Unset) -> OrEmpty(Lookup(fallback))
    [] value # Blank /\ value.ref /\ Lookup(value.text) # Unset -> Lookup(value.text)
    [] value # Blank /\ ~value.ref -> value.text

(* resolveEnvReferenceSetting *)
ResolveReference(value) == IF value.ref THEN OrEmpty(Lookup(value.text)) ELSE value.text

(* dropNilConfigValue, then the defaults below what the document gives.    *)
Default(f) == IF f \in Optional THEN Unset ELSE 1
Number(doc, f) ==
  IF f \in DOMAIN doc.numbers /\ doc.numbers[f] # Null THEN doc.numbers[f] ELSE Default(f)
Given(value, default) == IF value = Null THEN default ELSE value

(* normalizeStateLimitKeys: spellings of one state collapse, and the order *)
(* of a Go map decides which limit stays.                                  *)
LimitReadings(limits) ==
  LET states == {l.state : l \in limits}
  IN  {r \in [states -> {l.limit : l \in limits}] :
         \A s \in states : \E l \in limits : l.state = s /\ l.limit = r[s]}

(* decodeFrontMatter and decodeLegacyWorkflowConfig *)
Decodes(doc) == doc.front = "map" /\ \A f \in Field : Number(doc, f) # NotANumber

Readings(doc) ==
  {[kind |-> doc.kind,
    key |-> ResolveSecret(doc.key, "LINEAR_API_KEY"),
    project |-> ResolveReference(doc.project),
    command |-> Given(doc.command, "codex app-server"),
    policy |-> Given(doc.policy, "map"),
    numbers |-> [f \in Field |-> Number(doc, f)],
    limits |-> limits] : limits \in LimitReadings(doc.limits)}

NonNegative(f, n) == n = Unset \/ n >= 0    \* altered: zero passes everywhere

(* requirePositive and its two exceptions *)
InRange(f, n) == n = Unset \/ (IF f \in MayBeZero THEN n >= 0 ELSE n > 0)

(* validateSettings *)
Valid(settings) ==
  /\ settings.kind \in {"linear", "memory"}
  /\ settings.kind = "linear" => settings.key # "" /\ settings.project # ""
  /\ settings.command # "" /\ settings.policy \in {"string", "map"}
  /\ \A f \in Field : InRange(f, settings.numbers[f])
  /\ \A s \in DOMAIN settings.limits : s # "" /\ settings.limits[s] > 0

(* ParseSettings may answer one document in several ways, see above.       *)
Outcomes(doc) ==
  IF ~Decodes(doc) THEN {Rejected}
  ELSE {IF Valid(s) THEN s ELSE Rejected : s \in Readings(doc)}

AlwaysAccepted(doc) == Rejected \notin Outcomes(doc)
NeverAccepted(doc) == Outcomes(doc) = {Rejected}
=============================================================================
