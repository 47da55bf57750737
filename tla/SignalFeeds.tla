----------------------------- MODULE SignalFeeds ------------------------------
(***************************************************************************)
(* Where the evidence of a cycle comes from: each agent asks its sources   *)
(* in order and takes the first that has something to say about the token, *)
(* some through a cache (agents/signals.py, utils/free_feeds.py,           *)
(* utils/live_feed.py).                                                    *)
(*                                                                         *)
(*   - cache: for each cached source the age of its payload and whether it *)
(*     says something about the token; NoPayload when there is none;       *)
(*   - online: whether live sources are allowed (enable_web_news), and     *)
(*     registry: whether there are skills;                                 *)
(*   - evidence: for each agent the source of its last record and the age  *)
(*     of what it is made of;                                              *)
(*   - previous: the snapshot the market agent last saw, by its source.    *)
(***************************************************************************)
EXTENDS Integers, Sequences, SequencesExt, FiniteSets, FiniteSetsExt

CONSTANTS
    SkillTtl, FreeTtl,        \* _SKILL_CACHE_TTL_SECONDS, _CACHE_TTL_SECONDS
    NoPayload

ASSUME FeedsAssumption == {SkillTtl, FreeTtl} \subseteq Nat \ {0}

VARIABLES cache, online, registry, evidence, previous

feedVars == <<cache, online, registry, evidence, previous>>

Agents == {"market", "news", "onchain"}

(* The order in which an agent asks; a placeholder has no source to ask.    *)
Chain(agent) ==
    CASE agent = "market" -> <<"token-info", "rest">>
      [] agent = "news" -> <<"rss", "social-hype", "web-news", "gdelt">>
      [] agent = "onchain" -> <<"derivatives", "smart-money", "tvl">>

Skills == {"token-info", "social-hype", "smart-money"}
Cached == {"rss", "social-hype", "gdelt", "derivatives", "smart-money", "tvl"}
Sources == UNION {ToSet(Chain(a)) : a \in Agents}
Ttl(source) == IF source \in Skills THEN SkillTtl ELSE FreeTtl

(* useful: about the token; silent: a payload that is not; down: a failure. *)
Outcomes == {"useful", "silent", "down"}

(* The skills need the registry, the market's aside the rest to be online.  *)
Allowed(source) ==
    IF source \in Skills THEN registry ELSE online

FeedsInit ==
    /\ cache = [s \in Cached |-> NoPayload]
    /\ online \in BOOLEAN /\ registry \in BOOLEAN
    /\ evidence = [a \in Agents |-> [source |-> "none", age |-> 0]]
    /\ previous = "none"

-----------------------------------------------------------------------------

Fresh(source) == source \in Cached /\ cache[source] # NoPayload /\ cache[source].age < Ttl(source)

AnswerOfAnyAge(source, outcome) ==
    IF Fresh(source) THEN cache[source]
    ELSE IF outcome[source] = "down" THEN (IF source \in Cached THEN cache[source] ELSE NoPayload)
    ELSE [age |-> 0, useful |-> outcome[source] = "useful"]

(* _cached_fetch, _run_skill_cached: a failure is not kept and what has     *)
(* expired is not used.                                                     *)
Answer(source, outcome) ==
    IF Fresh(source) THEN cache[source]
    ELSE IF outcome[source] = "down" THEN NoPayload
    ELSE [age |-> 0, useful |-> outcome[source] = "useful"]

Speaks(source, outcome) ==
    /\ Allowed(source)
    /\ Answer(source, outcome) # NoPayload /\ Answer(source, outcome).useful

FirstToSpeak(agent, outcome) == SelectInSeq(Chain(agent), LAMBDA s : Speaks(s, outcome))

(* analyze: the first source that speaks, else a placeholder; the price has *)
(* no placeholder but a simulation.                                         *)
RecordOf(agent, outcome) ==
    LET i == FirstToSpeak(agent, outcome)
    IN  IF i = 0 THEN [source |-> IF agent = "market" THEN "simulated" ELSE "placeholder", age |-> 0]
        ELSE [source |-> Chain(agent)[i], age |-> Answer(Chain(agent)[i], outcome).age]

AskedBy(agent, outcome) ==
    LET i == FirstToSpeak(agent, outcome)
    IN  {s \in ToSet(SubSeq(Chain(agent), 1, IF i = 0 THEN Len(Chain(agent)) ELSE i)) : Allowed(s)}

(* One agent's record of the token for a cycle.                             *)
Analyze(agent) ==
    \E outcome \in [ToSet(Chain(agent)) -> Outcomes] :
        /\ evidence' = [evidence EXCEPT ![agent] = RecordOf(agent, outcome)]
        /\ cache' = [s \in Cached |->
                       IF s \in AskedBy(agent, outcome) /\ Answer(s, outcome) # NoPayload
                         THEN Answer(s, outcome) ELSE cache[s]]
        /\ previous' = IF agent = "market" THEN RecordOf(agent, outcome).source ELSE previous
        /\ UNCHANGED <<online, registry>>

(* Time passes between cycles; an age stops counting once it is expired.    *)
TimeGoesBy ==
    /\ cache' = [s \in Cached |-> IF cache[s] = NoPayload THEN NoPayload
                                  ELSE [cache[s] EXCEPT !.age = IF @ < Ttl(s) THEN @ + 1 ELSE @]]
    /\ UNCHANGED <<online, registry, evidence, previous>>

FeedsNext == TimeGoesBy \/ \E agent \in Agents : Analyze(agent)

FeedsSpec == FeedsInit /\ [][FeedsNext]_feedVars

-----------------------------------------------------------------------------

FeedsTypeOK ==
    /\ \A s \in Cached : cache[s] = NoPayload \/ cache[s] \in [age : 0..Ttl(s), useful : BOOLEAN]
    /\ evidence \in [Agents -> [source : Sources \cup {"none", "placeholder", "simulated"}, age : Nat]]
    /\ online \in BOOLEAN /\ registry \in BOOLEAN
    /\ previous \in Sources \cup {"none", "simulated"}

(***************************************************************************)
(* A record is never made of a payload that had expired, even when its     *)
(* source is down; and no source, nor noise, stands in for one that comes  *)
(* before it and still holds something usable about the token.             *)
(***************************************************************************)
Usable(source) == Allowed(source) /\ Fresh(source) /\ cache[source].useful
Before(agent, source) ==
    LET chain == Chain(agent)
    IN  {chain[i] : i \in {n \in DOMAIN chain : \A m \in 1..n : chain[m] # source}}

EvidenceGrounded ==
    \A a \in Agents :
        LET source == evidence[a].source
        IN  /\ source \in Cached => evidence[a].age < Ttl(source)
            /\ source # "none" => \A s \in Before(a, source) : ~Usable(s)

=============================================================================
