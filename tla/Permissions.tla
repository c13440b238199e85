----------------------------- MODULE Permissions -----------------------------
(***************************************************************************)
(* What a peer may do: the rules of a trust type, the overrides of a       *)
(* trust, and their evaluation (permission_evaluator.py,                   *)
(* trust_permissions.py), and what the peer makes of the rules it is sent  *)
(* (peer_permissions.py).                                                  *)
(*                                                                         *)
(* Rules are a dictionary in which any key may be missing: a function from *)
(* a subset of RuleKeys.  A list of patterns is a set of patterns, as all  *)
(* of them are tried.  Whether a pattern matches a target is a constant    *)
(* relation, one for the evaluator and one for the peer: the evaluator has *)
(* a glob of its own, in which a pattern that ends with "://" is also a    *)
(* prefix, and the peer uses fnmatch, which knows brackets.                *)
(***************************************************************************)

CONSTANTS
    Targets,        \* Paths of properties, names of methods, tools, ...
    Listing,        \* The empty path: a request for a list.
    Patterns,
    Operations,     \* read, write, ...
    Categories,     \* properties, methods, actions, tools, ...
    Matches(_, _),  \* Does the target match the pattern? To the evaluator
    PeerMatches(_, _),  \* and to the peer.
    NoPermissions   \* There is no trust, or its type is not known.

RuleKeys == {"denied", "allowed", "patterns", "excluded_patterns", "operations"}
PatternKeys == RuleKeys \ {"operations"}

IsRules(rules) ==
    /\ DOMAIN rules \subseteq RuleKeys
    /\ \A k \in DOMAIN rules \cap PatternKeys : rules[k] \subseteq Patterns
    /\ "operations" \in DOMAIN rules
         => rules["operations"] \subseteq Operations

\* dict.get with a default of [].
Entry(rules, key) == IF key \in DOMAIN rules THEN rules[key] ELSE {}

MatchesAny(target, patterns) == \E p \in patterns : Matches(target, p)

PeerMatchesAny(target, patterns) == \E p \in patterns : PeerMatches(target, p)

HasPatterns(rules) == {"patterns", "operations"} \subseteq DOMAIN rules

-----------------------------------------------------------------------------
(* The evaluator.                                                          *)

EvaluatePatterns(rules, target, operation) ==
    IF operation \notin rules["operations"] THEN "denied"
    ELSE IF MatchesAny(target, rules["patterns"])
         THEN IF MatchesAny(target, Entry(rules, "excluded_patterns"))
              THEN "denied" ELSE "allowed"
         ELSE IF target = Listing THEN "not_found" ELSE "denied"

EvaluateRules(rules, target, operation) ==
    IF MatchesAny(target, Entry(rules, "denied")) THEN "denied"
    ELSE IF MatchesAny(target, Entry(rules, "allowed")) THEN "allowed"
    ELSE IF HasPatterns(rules) THEN EvaluatePatterns(rules, target, operation)
    ELSE "not_found"

\* merge_base = True.
UnionMergeFields == {"patterns", "excluded_patterns"}

MergeRules(base, overrides) ==
    [k \in DOMAIN base \cup DOMAIN overrides |->
        IF k \notin DOMAIN overrides THEN base[k]
        ELSE IF k \in UnionMergeFields THEN Entry(base, k) \cup overrides[k]
        ELSE overrides[k]]

MergePermissions(base, overrides) ==
    [c \in DOMAIN base \cup DOMAIN overrides |->
        IF c \notin DOMAIN overrides THEN base[c]
        ELSE IF c \in DOMAIN base THEN MergeRules(base[c], overrides[c])
        ELSE overrides[c]]

\* The stored override, if there is one, names the trust type; otherwise the
\* relationship of the trust does.  base is a function from the registered
\* types; override is a record of a type and of rules by category.
EffectivePermissions(base, relationship, override) ==
    IF override # NoPermissions
    THEN IF override.trust_type \notin DOMAIN base THEN NoPermissions
         ELSE MergePermissions(base[override.trust_type], override.rules)
    ELSE IF relationship \notin DOMAIN base THEN NoPermissions
         ELSE base[relationship]

EvaluatePermission(permissions, category, target, operation) ==
    IF permissions = NoPermissions \/ category \notin DOMAIN permissions
    THEN "not_found"
    ELSE EvaluateRules(permissions[category], target, operation)

\* What a client is told it may use, for discovery.
AllowedItems(rules, operation) ==
    Entry(rules, "allowed")
        \cup IF HasPatterns(rules) /\ operation \in rules["operations"]
             THEN rules["patterns"] ELSE {}

-----------------------------------------------------------------------------
(* The peer's copy.                                                        *)

\* A list of names stands for the permission to read them.
ShorthandRules(names) ==
    [k \in {"patterns", "operations"} |->
        IF k = "patterns" THEN names ELSE {"read"}]

HasPropertyAccess(rules, target, operation) ==
    IF PeerMatchesAny(target, Entry(rules, "excluded_patterns")) THEN "no"
    ELSE IF operation \in Entry(rules, "operations")
            /\ PeerMatchesAny(target, Entry(rules, "patterns")) THEN "yes"
    ELSE "unknown"

RevokedPatterns(old, new) == Entry(old, "patterns") \ Entry(new, "patterns")
GrantedPatterns(old, new) == Entry(new, "patterns") \ Entry(old, "patterns")
=============================================================================
