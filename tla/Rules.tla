------------------------------- MODULE Rules -------------------------------
(***************************************************************************)
(* The rule engine (core/src/rules.rs): the active rules of a kind, one    *)
(* after the other, each judged by the message as the rules before it left *)
(* it.  The read lock is held from the first to the last, so an edit of    *)
(* the rules comes before or after, and which rules a list has need not be *)
(* said before they are met.                                               *)
(*                                                                         *)
(* A body is a sequence of characters, of which "a" and "b" are text,      *)
(* "byte" is a byte that is not UTF-8 and "fffd" what a lossy decoding     *)
(* makes of one.  A pattern, simple or regular, is a character; "(" is the *)
(* one that does not compile.  The cache of compiled patterns answers as   *)
(* the compiler does and is left out.                                      *)
(***************************************************************************)
EXTENDS Integers, Sequences, SequencesExt, FiniteSetsExt

CONSTANTS
    MaxBody,    \* bound: characters of a body that arrives
    MaxRules    \* bound

ASSUME RulesAssumption == MaxBody \in Nat /\ MaxRules \in Nat

VARIABLES
    ruleCount,  \* the length of the list
    message,    \* the message under way, or NoMessage
    at,         \* the rule that is next
    foreign,    \* history: Content-Length was written last by one who did not see the body
    occurred    \* history: a rule was executed whose target occurred in the body

rulesVars == <<ruleCount, message, at, foreign, occurred>>

MessageTypes == {"Request", "Response"}
Characters == {"a", "b", "byte"}
Patterns == {"a", "("}
Replacements == {<<>>, <<"b", "b">>, <<"a", "b">>}
NoMessage == [type |-> "none"]

\* The headers are Content-Length, here a number, and X, here a pattern or one that
\* to_str refuses; either may be absent.
NoLength == -1
Absent == "absent"
Opaque == "opaque"

Conditions == [on : {"url", "header", "body"}, regex : BOOLEAN, pattern : Patterns]
Actions ==
    [do : {"replace body"}, regex : BOOLEAN, pattern : Patterns, by : Replacements]
        \cup [do : {"set", "remove", "edit"}, header : {"length", "x"}, pattern : Patterns]

----------------------------------------------------------------------------
Size(body) == FoldSeq(LAMBDA c, n : n + (IF c = "fffd" THEN 3 ELSE 1), 0, body)

\* String::from_utf8_lossy
Lossy(body) == [n \in DOMAIN body |-> IF body[n] = "byte" THEN "fffd" ELSE body[n]]

\* get_regex: what does not compile never matches and replaces nothing.
Compiles(part) == part.regex => part.pattern # "("

Occurs(body, pattern) == pattern \in ToSet(Lossy(body))

\* str::replace and Regex::replace_all
Replaced(body, pattern, by) ==
    FlattenSeq([n \in DOMAIN body |-> IF body[n] = pattern THEN by ELSE <<body[n]>>])

\* matches_request and matches_response; a response has no URL, and the header a
\* condition may be about is X.
Matches(c, m) ==
    /\ Compiles(c)
    /\ CASE c.on = "url" -> m.type = "Request" /\ m.url = c.pattern
         [] c.on = "header" -> m.x = c.pattern
         [] c.on = "body" -> Occurs(m.body, c.pattern)

\* Mutant: a length is corrected when the body grew.
WithBodyIfLonger(m, body) ==
    [m EXCEPT !.body = body,
              !.length = IF @ = NoLength \/ Size(body) <= Size(m.body) THEN @ ELSE Size(body)]

\* A new body, and Content-Length after it if there is one.
WithBody(m, body) ==
    [m EXCEPT !.body = body, !.length = IF @ = NoLength THEN @ ELSE Size(body)]

\* insert takes any number for a length and any text for X; RegexReplaceHeader
\* needs a pattern that compiles and a header that is there and readable.
WithHeader(m, a, n) ==
    CASE a.do = "remove" /\ a.header = "length" -> [m EXCEPT !.length = NoLength]
      [] a.do = "remove" /\ a.header = "x" -> [m EXCEPT !.x = Absent]
      [] a.do = "set" /\ a.header = "length" -> [m EXCEPT !.length = n]
      [] a.do = "set" /\ a.header = "x" -> [m EXCEPT !.x = a.pattern]
      [] a.do = "edit" /\ a.header = "length" ->
             [m EXCEPT !.length = IF @ = NoLength \/ a.pattern = "(" THEN @ ELSE n]
      [] a.do = "edit" /\ a.header = "x" ->
             [m EXCEPT !.x = IF @ = "a" /\ a.pattern = "a" THEN "b" ELSE @]

----------------------------------------------------------------------------
NotApplying == message = NoMessage

AddRule ==
    /\ NotApplying /\ ruleCount < MaxRules
    /\ ruleCount' = ruleCount + 1
    /\ UNCHANGED <<message, at, foreign, occurred>>

ClearRules ==
    /\ NotApplying
    /\ ruleCount' = 0
    /\ UNCHANGED <<message, at, foreign, occurred>>

\* apply_request_rules or apply_response_rules begins.  The transport has seen to
\* that a length is right, but that of a response to HEAD is of a body elsewhere.
Apply(type, body, x, length) ==
    /\ NotApplying
    /\ length \in {NoLength, Size(body)} \/ (type = "Response" /\ body = <<>>)
    /\ message' = [type |-> type, url |-> "a", body |-> body, arrived |-> body, x |-> x,
                   length |-> length]
    /\ at' = 1
    /\ foreign' = (length \notin {NoLength, Size(body)}) /\ occurred' = FALSE
    /\ UNCHANGED ruleCount

\* The next rule is for the other kind, inactive, or does not match.
Skip ==
    /\ message # NoMessage /\ at <= ruleCount
    /\ at' = at + 1
    /\ UNCHANGED <<ruleCount, message, foreign, occurred>>

\* execute_action of a rule that matches.
Execute(condition, action) ==
    /\ message # NoMessage /\ at <= ruleCount
    /\ Matches(condition, message)
    /\ IF action.do = "replace body"
       THEN IF Compiles(action)
            THEN /\ message' = WithBody(message,
                                       Replaced(Lossy(message.body), action.pattern, action.by))
                 /\ foreign' = FALSE
                 /\ occurred' = (occurred \/ Occurs(message.body, action.pattern))
            ELSE UNCHANGED <<message, foreign, occurred>>
       ELSE /\ \E n \in {0, 9} : message' = WithHeader(message, action, n)
            /\ foreign' = IF action.header = "length" THEN action.do # "remove" ELSE foreign
            /\ UNCHANGED occurred
    /\ at' = at + 1
    /\ UNCHANGED ruleCount

Applied ==
    /\ message # NoMessage /\ at > ruleCount
    /\ message' = NoMessage
    /\ at' = 1
    /\ foreign' = FALSE /\ occurred' = FALSE
    /\ UNCHANGED ruleCount

RulesInit ==
    /\ ruleCount = 0
    /\ message = NoMessage
    /\ at = 1
    /\ foreign = FALSE /\ occurred = FALSE

RulesNext ==
    \/ AddRule \/ ClearRules
    \/ \E type \in MessageTypes, body \in SeqOf(Characters, MaxBody), length \in NoLength..MaxBody :
           \E x \in {Absent, Opaque, "a"} : Apply(type, body, x, length)
    \/ \E c \in Conditions, a \in Actions : Execute(c, a)
    \/ Skip \/ Applied

----------------------------------------------------------------------------
\* Property

\* Whatever rules a message has met, its Content-Length is that of its body
\* unless a rule wrote the header after the body, or it came with a HEAD; and a
\* body in which no target occurred is as it arrived, but for the bytes that a rule
\* of bodies decoded (rules.rs:205, 217).
MessageIsSound ==
    message # NoMessage =>
        /\ ~foreign => message.length \in {NoLength, Size(message.body)}
        /\ ~occurred => message.body \in {message.arrived, Lossy(message.arrived)}
=============================================================================
