----------------------------- MODULE ToolLayer -----------------------------
(***************************************************************************)
(* The other side of the grammar: how the tool layer reads the arguments   *)
(* that were written.  Reading JSON is serde_json's; Validate is           *)
(* ArgSchema::validate of the kernel.  A string is read to the sequence of *)
(* its characters, a number to its scaled value.                           *)
(***************************************************************************)
EXTENDS Grammar

NotJson == [ok |-> FALSE, value |-> [kind |-> "none"], next |-> 0]
Parsed(value, next) == [ok |-> TRUE, value |-> value, next |-> next]
At(i) == IF i \in DOMAIN written THEN written[i] ELSE "end"

Hex4(i) == FoldLeft(LAMBDA v, j : v * 16 + Worth(At(i + j)), 0, <<0, 1, 2, 3>>)

RECURSIVE ReadString(_, _)
ReadString(i, text) ==
    LET c == At(i) IN
    CASE c = Quote -> Parsed([kind |-> "string", text |-> text], i + 1)
      [] c \in {"end", "ctl"} -> NotJson
      [] c # "\\" /\ c \notin {"end", "ctl", Quote} -> ReadString(i + 1, Append(text, c))
      [] c = "\\" /\ At(i + 1) # "u" -> ReadString(i + 2, Append(text, At(i + 1)))
      [] OTHER ->
            LET unit == Hex4(i + 2) IN
            IF unit \in 56320..57343 THEN NotJson
            ELSE IF ~IsHigh(unit) THEN ReadString(i + 6, Append(text, "unit"))
            ELSE IF At(i + 6) = "\\" /\ At(i + 7) = "u" /\ Hex4(i + 8) \in 56320..57343
                 THEN ReadString(i + 12, Append(text, "pair"))
                 ELSE NotJson

NumberChars == Digits \union {"-", "+", ".", "e"}
NumberEnd(i) == Min({j \in i..Len(written) + 1 : At(j) \notin NumberChars})
Positions(i, j, chars) == {k \in i..j - 1 : At(k) \in chars}
DigitsValue(i, j) == FoldLeft(LAMBDA v, k : v * 10 + Worth(At(i + k - 1)), 0, [k \in 1..j - i |-> k])

ReadNumber(i) ==
    LET end == NumberEnd(i)
        neg == At(i) = "-"
        from == IF neg THEN i + 1 ELSE i
        exp == Min({end} \union Positions(i, end, {"e"}))
        dot == Min({exp} \union Positions(i, exp, {"."}))
        frac == IF dot = exp THEN 0 ELSE exp - dot - 1
        epos == IF exp < end /\ At(exp + 1) \in {"+", "-"} THEN exp + 2 ELSE exp + 1
        size == DigitsValue(from, dot) * One
                + (IF frac = 0 THEN 0 ELSE DigitsValue(dot + 1, exp) * 10^(MaxFraction - frac))
        small == exp < end /\ At(exp + 1) = "-"
    IN IF \/ from = dot \/ (At(from) = "0" /\ dot > from + 1)
          \/ (dot < exp /\ frac = 0) \/ (exp < end /\ epos >= end)
       THEN NotJson
       ELSE Parsed([kind |-> "number", integer |-> dot = end /\ ~(neg /\ size = 0),
                    value |-> IF neg THEN -size ELSE size,
                    finite |-> exp = end \/ small
                               \/ size <= (LargestFloat * One) \div 10^DigitsValue(epos, end)], end)

\* The members and items read so far are carried along.
RECURSIVE ReadValue(_), ReadMembers(_, _), ReadItems(_, _)
ReadValue(i) ==
    LET c == At(i) IN
    CASE c = "{" -> IF At(i + 1) = "}" THEN Parsed([kind |-> "object", members |-> <<>>], i + 2)
                    ELSE ReadMembers(i + 1, <<>>)
      [] c = "[" -> IF At(i + 1) = "]" THEN Parsed([kind |-> "array", items |-> <<>>], i + 2)
                    ELSE ReadItems(i + 1, <<>>)
      [] c = Quote -> ReadString(i + 1, <<>>)
      [] c = "t" -> IF SubSeq(written, i, i + 3) = <<"t", "r", "u", "e">>
                    THEN Parsed([kind |-> "bool"], i + 4) ELSE NotJson
      [] c = "f" -> IF SubSeq(written, i, i + 4) = <<"f", "a", "l", "s", "e">>
                    THEN Parsed([kind |-> "bool"], i + 5) ELSE NotJson
      [] c \in Digits \union {"-"} -> ReadNumber(i)
      [] OTHER -> NotJson

ReadMembers(i, members) ==
    LET key == IF At(i) = Quote THEN ReadString(i + 1, <<>>) ELSE NotJson
        member == IF key.ok /\ At(key.next) = ":" THEN ReadValue(key.next + 1) ELSE NotJson
        all == Append(members, <<key.value.text, member.value>>)
    IN CASE ~member.ok -> NotJson
         [] member.ok /\ At(member.next) = "," -> ReadMembers(member.next + 1, all)
         [] member.ok /\ At(member.next) = "}" -> Parsed([kind |-> "object", members |-> all], member.next + 1)
         [] OTHER -> NotJson

ReadItems(i, items) ==
    LET item == ReadValue(i)
        all == Append(items, item.value)
    IN CASE ~item.ok -> NotJson
         [] item.ok /\ At(item.next) = "," -> ReadItems(item.next + 1, all)
         [] item.ok /\ At(item.next) = "]" -> Parsed([kind |-> "array", items |-> all], item.next + 1)
         [] OTHER -> NotJson

\* number_value and the range.
ValidNumber(d, v) ==
    /\ v.finite
    /\ d.integer => v.integer /\ v.value \div One \in LowestInt..LargestInt
    /\ AtLeast(d, v.value) /\ AtMost(d, v.value)

\* ArgSchema::validate_path, against the schema as it was declared.
RECURSIVE Validate(_, _)
Validate(n, v) ==
    LET d == schema.nodes[n] IN
    CASE d.kind = "object" ->
            /\ v.kind = "object"
            /\ \A i \in DOMAIN d.fields :
                 LET given == {k \in DOMAIN v.members : v.members[k][1] = d.fields[i].key} IN
                 /\ d.fields[i].required => given # {}
                 /\ \A k \in given : Validate(d.fields[i].node, v.members[k][2])
      [] d.kind = "array" ->
            /\ v.kind = "array"
            /\ \A m \in d.min : Len(v.items) >= m
            /\ \A m \in d.max : Len(v.items) <= m
            /\ \A k \in DOMAIN v.items : Validate(d.item, v.items[k])
      [] d.kind = "text" -> v.kind = "string" /\ \A m \in d.max : Len(v.text) <= m
      [] d.kind = "choice" -> v.kind = "string" /\ v.text \in d.values
      [] d.kind = "number" -> v.kind = "number" /\ ValidNumber(d, v)
      [] OTHER -> v.kind = "bool"

\* No key is written twice, and none the schema does not have.
RECURSIVE OwnKeysOnce(_, _)
OwnKeysOnce(n, v) ==
    LET d == schema.nodes[n] IN
    CASE d.kind = "object" ->
            /\ \A j, k \in DOMAIN v.members : v.members[j][1] = v.members[k][1] => j = k
            /\ \A k \in DOMAIN v.members : \E i \in DOMAIN d.fields :
                 d.fields[i].key = v.members[k][1] /\ OwnKeysOnce(d.fields[i].node, v.members[k][2])
      [] d.kind = "array" -> \A k \in DOMAIN v.items : OwnKeysOnce(d.item, v.items[k])
      [] OTHER -> TRUE

\* What was written is one JSON value that the schema at a node accepts.
Accepted(root) ==
    \E read \in {ReadValue(1)} :
        /\ read.ok /\ read.next = Len(written) + 1
        /\ Validate(root, read.value)
        /\ OwnKeysOnce(root, read.value)

\* Arguments the grammar let be completed are JSON, and the tool layer accepts
\* them: required fields are there, numbers in range, choices in their set.
CompleteIsValid == IsDone(state) => Accepted(schema.root)
=============================================================================
