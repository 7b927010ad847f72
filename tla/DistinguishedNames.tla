------------------------- MODULE DistinguishedNames -------------------------
(***************************************************************************)
(* Distinguished names in an issuer's spec: how ParseDistinguishedName     *)
(* reads one, and how it is compared with the sender of an answer.         *)
(*                                                                         *)
(* An operator copies the name of the authority, attribute by attribute,   *)
(* as a tool prints it.  Texts are sequences of characters; the keys CN    *)
(* and OU count as one character each.  CN stands for the attributes that  *)
(* a name has once and OU for those it has any number of times.            *)
(***************************************************************************)
EXTENDS Naturals, SequencesExt

CONSTANTS
    Character,      \* characters of a value
    MaxLength,      \* of a value
    MaxAttributes   \* of a name

Values == UNION {[1..n -> Character] : n \in 1..MaxLength}
Attribute == [key : {"CN", "OU"}, value : Values]

VARIABLES
    name,       \* the authority's name, as the sender of its answers
    reversed,   \* does the tool print the last attribute first?
    spaced      \* does it print a space after a comma?

vars == <<name, reversed, spaced>>

Init == name = << >> /\ reversed \in BOOLEAN /\ spaced \in BOOLEAN

AddAttribute ==
    /\ Len(name) < MaxAttributes
    /\ \E a \in Attribute : name' = Append(name, a)
    /\ UNCHANGED <<reversed, spaced>>

Next == AddAttribute

Spec == Init /\ [][Next]_vars

-----------------------------------------------------------------------------
(* The tool: RFC 4514 with single-character escapes. *)

NeedsEscape(value, i) ==
    value[i] \in {",", "\\"} \/ (value[i] = " " /\ i \in {1, Len(value)})

Escaped(value) ==
    FlattenSeq([i \in DOMAIN value |->
                  IF NeedsEscape(value, i) THEN <<"\\", value[i]>> ELSE <<value[i]>>])

Separator == IF spaced THEN <<",", " ">> ELSE <<",">>

Printed ==
    LET shown == IF reversed THEN Reverse(name) ELSE name
        Text(i) == <<shown[i].key, "=">> \o Escaped(shown[i].value)
    IN  FlattenSeq([i \in DOMAIN shown |-> IF i = 1 THEN Text(i) ELSE Separator \o Text(i)])

-----------------------------------------------------------------------------
(* parse.go.  The result for a text that is not accepted is empty, as no     *)
(* accepted one has an empty result.                                         *)

Failure == << >>

TrimSpace(text) ==
    LET kept == {i \in DOMAIN text : text[i] # " "}
    IN  IF kept = {} THEN << >> ELSE SubSeq(text, Min(kept), Max(kept))

\* Mutant of SplitStep: a comma separates even when it is escaped.
SplitAnywhere(s, c) ==
    IF c = ","
    THEN [s EXCEPT !.parts = Append(@, TrimSpace(s.part)), !.part = << >>, !.escaped = FALSE]
    ELSE [s EXCEPT !.part = Append(@, c), !.escaped = (c = "\\" /\ ~s.escaped)]

\* One character in the loop of splitDN.
SplitStep(s, c) ==
    IF c = "," /\ ~s.escaped
    THEN [s EXCEPT !.parts = Append(@, TrimSpace(s.part)), !.part = << >>]
    ELSE [s EXCEPT !.part = Append(@, c), !.escaped = (c = "\\" /\ ~s.escaped)]

splitDN(text) ==
    LET end == FoldLeft(SplitStep, [parts |-> << >>, part |-> << >>, escaped |-> FALSE], text)
        parts == Append(end.parts, TrimSpace(end.part))
    IN  IF TrimSpace(text) = << >> \/ end.escaped \/ Contains(parts, << >>) THEN Failure ELSE parts

\* One character in the loop of unescapeDNValue.
UnescapeStep(s, c) ==
    IF ~s.escaped /\ c = "\\" THEN [s EXCEPT !.escaped = TRUE]
    ELSE [text |-> Append(s.text, c), escaped |-> FALSE]

unescapeDNValue(text) ==
    LET end == FoldLeft(UnescapeStep, [text |-> << >>, escaped |-> FALSE], text)
    IN  IF end.escaped THEN Failure ELSE end.text

BadComponent == [key |-> "", value |-> << >>]

\* One component: the text before the first "=" and the decoded rest.
parseComponent(part) ==
    LET equals == {i \in DOMAIN part : part[i] = "="}
        key == TrimSpace(SubSeq(part, 1, Min(equals) - 1))
        value == unescapeDNValue(TrimSpace(SubSeq(part, Min(equals) + 1, Len(part))))
    IN  IF equals # {} /\ value # Failure /\ key \in {<<"CN">>, <<"OU">>}
        THEN [key |-> key[1], value |-> value] ELSE BadComponent

\* A second CN replaces the first.
addNameAttribute(parsed, a) ==
    IF a.key = "CN" THEN Append(SelectSeq(parsed, LAMBDA b : b.key # "CN"), a) ELSE Append(parsed, a)

ParseDistinguishedName(text) ==
    LET parts == splitDN(text)
        attributes == [i \in DOMAIN parts |-> parseComponent(parts[i])]
    IN  IF parts = Failure \/ Contains(attributes, BadComponent) THEN Failure
        ELSE FoldLeft(addNameAttribute, << >>, attributes)

\* The attributes without their order.
attributeSet(sequence) ==
    [a \in Range(sequence) |-> Cardinality({i \in DOMAIN sequence : sequence[i] = a})]

senderMatchesRecipient(sender, recipient) ==
    sender # << >> /\ (recipient # << >> => attributeSet(sender) = attributeSet(recipient))

-----------------------------------------------------------------------------
(* Properties. *)

CommonNames == Cardinality({i \in DOMAIN name : name[i].key = "CN"})
TrailingSpace == \E i \in DOMAIN name : Last(name[i].value) = " "

\* A printed name is read as the name it was printed from, whichever way the tool
\* prints it and whatever its values contain, so that the answers of the authority
\* are taken for those of the recipient
\* (ParseDistinguishedName, senderMatchesRecipient).
Recognized ==
    name # << >> /\ CommonNames <= 1 /\ ~TrailingSpace =>
      /\ ParseDistinguishedName(Printed) # Failure
      /\ senderMatchesRecipient(name, ParseDistinguishedName(Printed))
=============================================================================
