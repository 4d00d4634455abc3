----------------------------- MODULE ToolParse ------------------------------
(***************************************************************************)
(* Tool calls in the text of a model's answer (stems/tool_parse.rs): tags  *)
(* <tool_call>, with a name or with a JSON body, containers <tool_calls>,  *)
(* and, if there is none of these, fenced blocks that hold the JSON of a   *)
(* call, or else bare tags named like a tool.  A text is a sequence of     *)
(* tags, blocks and words; what is shown and what is called are positions  *)
(* in it.                                                                  *)
(***************************************************************************)
EXTENDS Naturals, Sequences, FiniteSets, SequencesExt, FiniteSetsExt

CONSTANTS MaxTokens     \* bound: length of an arbitrary answer

VARIABLES answer,       \* the text of an answer
          body          \* the JSON of one call

parseVars == <<answer, body>>

Alphabet == {"word", "json", "call", "named", "/call", "calls", "/calls", "raw", "/raw", "block"}

(* Mutant: <tool_call is looked for, and also finds <tool_calls.           *)
Singular_Prefix == {"call", "named", "calls"}

(* find_tag_prefix: the letter after the name tells one from the other.    *)
Singular == {"call", "named"}

(* In the search for a closing tag, though, <tool_calls counts as another  *)
(* <tool_call.                                                             *)
Opening(tag) == CASE tag = "call" -> {"call", "named", "calls"} [] tag = "calls" -> {"calls"} [] tag = "raw" -> {"raw"}
Closing(tag) == "/" \o tag

Count(s, a, b, set) == Cardinality({i \in a..b : s[i] \in set})

(* find_tag_body: the first closing tag at depth one, from position a on,  *)
(* or none.                                                                *)
find_tag_body(s, a, z, tag) ==
    LET ends == {i \in a..z : /\ s[i] = Closing(tag)
                              /\ Count(s, a, i, {Closing(tag)}) = Count(s, a, i, Opening(tag)) + 1}
    IN  IF ends = {} THEN 0 ELSE Min(ends)

(* find_next_tag                                                           *)
find_next_tag(s, a, z) ==
    LET tags == {i \in a..z : s[i] \in Singular \cup {"calls"}}
    IN  IF tags = {} THEN 0 ELSE Min(tags)

(* A body that is no JSON is dropped with a warning.                       *)
Parses(s, t, e) == s[t] = "named" \/ (e = t + 2 /\ s[t + 1] = "json")

(* What a stretch of text yields: positions shown, and calls made, each    *)
(* with the positions of its tags.                                         *)
Yield(shown, made) == [shown |-> shown, made |-> made]

Then(shown, made, rest) == Yield(shown \cup rest.shown, made \o rest.made)

(* Mutant: the search goes on behind the opening tag.                      *)
Resume_Inside(t, e) == t + 1

(* Where the search goes on after a call.                                  *)
Resume(t, e) == e + 1

(* parse_raw_tool_tags: an open tag takes the rest of the text.            *)
RECURSIVE parse_raw_tool_tags(_, _, _)
parse_raw_tool_tags(s, a, z) ==
    LET tags == {i \in a..z : s[i] = "raw"}
        t == Min(tags)
        e == find_tag_body(s, t + 1, z, "raw")
        last == IF e = 0 THEN z ELSE e
    IN  IF tags = {} THEN Yield(a..z, <<>>)
        ELSE Then(a..(t - 1), <<<<t, last>>>>, parse_raw_tool_tags(s, last + 1, z))

(* parse_markdown_tool_calls: one call for each block.                     *)
parse_markdown_tool_calls(s, a, z) ==
    LET blocks == SetToSortSeq({i \in a..z : s[i] = "block"}, <)
    IN  [n \in DOMAIN blocks |-> <<blocks[n], blocks[n]>>]

RECURSIVE Scan(_, _, _), Parse(_, _, _)

(* The loop over tags; what a container holds is parsed like an answer.    *)
Scan(s, a, z) ==
    LET t == find_next_tag(s, a, z)
        plain == Yield(a..z, <<>>)
    IN  IF t = 0 THEN plain
        ELSE IF s[t] \notin Singular
        THEN LET e == find_tag_body(s, t + 1, z, "calls")
                 inner == Parse(s, t + 1, IF e = 0 THEN z ELSE e - 1)
             IN  Then(a..(t - 1), inner.made, Scan(s, (IF e = 0 THEN z ELSE e) + 1, z))
        ELSE LET e == find_tag_body(s, t + 1, z, "call")
             IN  IF e = 0 THEN plain
                 ELSE Then(a..(t - 1), IF Parses(s, t, e) THEN <<<<t, e>>>> ELSE <<>>,
                           Scan(s, Resume(t, e), z))

(* Blocks, which stay in the text, are called only if no tag was, and bare *)
(* tags only if there was no block either.                                 *)
Parse(s, a, z) ==
    LET tagged == Scan(s, a, z)
        blocks == parse_markdown_tool_calls(s, a, z)
        bare == parse_raw_tool_tags(s, a, z)
    IN  IF tagged.made # <<>> THEN tagged
        ELSE IF blocks # <<>> THEN Yield(tagged.shown, blocks)
        ELSE IF bare.made # <<>> THEN bare ELSE tagged

parse_tool_calls(s) == Parse(s, 1, Len(s))

-----------------------------------------------------------------------------
(* The JSON object of a call: the kind of value under each key, and the    *)
(* keys of the object under "parameters".  serde_json keeps keys sorted.   *)
BodyKeys == <<"a", "name", "parameters", "tool", "z">>
NoBody == [keys |-> << >>, inner |-> {}]
Bodies == [keys : UNION {[K -> {"string", "object", "number"}] : K \in SUBSET ToSet(BodyKeys)},
           inner : SUBSET {"a", "z"}]

Holds(b, k, kind) == k \in DOMAIN b.keys /\ b.keys[k] = kind
FirstKey(b) == BodyKeys[Min({i \in DOMAIN BodyKeys : BodyKeys[i] \in DOMAIN b.keys})]

(* The key that names the tool, "" for none, and whether it is itself the  *)
(* name.                                                                   *)
tool_name(b) ==
    IF Holds(b, "tool", "string") THEN "tool"
    ELSE IF Holds(b, "name", "string") THEN "name"
    ELSE IF DOMAIN b.keys # {} THEN FirstKey(b) ELSE ""
name_from_key(b) == ~Holds(b, "tool", "string") /\ ~Holds(b, "name", "string")

extra(b) == DOMAIN b.keys \ ({"tool", "name", "parameters"}
                              \cup IF name_from_key(b) THEN {tool_name(b)} ELSE {})

(* Mutant: what stands beside "parameters" wins.                           *)
Merged_Over(inner, beside) == [k \in inner \cup beside |-> IF k \in beside THEN "beside" ELSE "inner"]
Merged(inner, beside) == [k \in inner \cup beside |-> IF k \in inner THEN "inner" ELSE "beside"]

(* The parameters: where each of them is from, or the value of one key.    *)
parse_tool_call_json(b) ==
    LET explicit == Holds(b, "parameters", "object")
    IN  IF explicit \/ extra(b) # {}
        THEN Merged(IF explicit THEN b.inner ELSE {}, extra(b))
        ELSE IF DOMAIN b.keys = {} THEN "null" ELSE FirstKey(b)

-----------------------------------------------------------------------------
(* Answers as models write them: words, calls, and containers of calls.    *)
Calls == {<<"call", "json", "/call">>, <<"named", "word", "/call">>, <<"named", "/call">>}
Pieces == Calls \cup {<<"word">>} \cup {<<"calls">> \o c \o <<"/calls">> : c \in Calls}
          \cup {<<"calls">> \o c \o d \o <<"/calls">> : c, d \in Calls}
WellFormed == {FlattenSeq(f) : f \in UNION {[1..n -> Pieces] : n \in 1..3}}

ParseInit == answer = <<>> /\ body = NoBody

(* The model answers with any text, and writes any JSON into a call.       *)
ParseNext ==
    /\ answer = <<>> /\ body = NoBody
    /\ \/ answer' \in UNION {[1..n -> Alphabet] : n \in 1..MaxTokens} \cup WellFormed /\ UNCHANGED body
       \/ body' \in Bodies /\ UNCHANGED answer

ParseSpec == ParseInit /\ [][ParseNext]_parseVars

Inside(made) == UNION {made[i][1]..made[i][2] : i \in DOMAIN made}

(* Whatever tags an answer opens and closes, what is called is not shown   *)
(* as well, fenced blocks apart, and calls are made in the order of the    *)
(* text, none twice.                                                       *)
CalledOrShown ==
    LET p == parse_tool_calls(answer)
    IN  /\ \A i \in Inside(p.made) \cap p.shown : answer[i] = "block" /\ <<i, i>> \in Range(p.made)
        /\ \A i, j \in DOMAIN p.made : i < j => p.made[i][2] < p.made[j][1]

(* Of a well-formed answer, alone or in containers, every call is made and *)
(* every word outside of calls is shown.                                   *)
CallsFound ==
    answer \in WellFormed =>
        LET p == parse_tool_calls(answer)
        IN  /\ {p.made[i][1] : i \in DOMAIN p.made} = {i \in DOMAIN answer : answer[i] \in {"call", "named"}}
            /\ p.shown = {i \in DOMAIN answer : answer[i] = "word" /\ (i = 1 \/ answer[i - 1] # "named")}

(* A call that names its tool keeps every argument, written under          *)
(* "parameters" or beside it, and the former wins where both give one.     *)
ArgumentsKept ==
    /\ Holds(body, "tool", "string") \/ Holds(body, "name", "string")
    /\ "parameters" \in DOMAIN body.keys => Holds(body, "parameters", "object")
    => LET inner == IF "parameters" \in DOMAIN body.keys THEN body.inner ELSE {}
           given == inner \cup (DOMAIN body.keys \cap {"a", "z"})
           params == parse_tool_call_json(body)
       IN  given # {} => /\ DOMAIN params = given
                         /\ \A k \in inner : params[k] = "inner"
=============================================================================
