------------------------------- MODULE AuthHeader -------------------------------
(***************************************************************************)
(* How credentials travel in the Sec-WebSocket-Protocol header: the client *)
(* encodes a request with encode_header (endpoint.rs), the upgrader splits *)
(* the header at its commas, trims and joins it again (upgrader.rs), and   *)
(* EndpointAuthController::auth (headers.rs) takes it apart.               *)
(*                                                                         *)
(* A token of the header is its digits and the value after them.  A value  *)
(* is known by its parameter and its class.  "plain" text is its own URL   *)
(* encoding, "special" text (a comma, a blank) is not.  "quoted" text      *)
(* holds a double quote and "backslash" text a backslash or a control      *)
(* character: the JSON text of either is not the text itself.              *)
(***************************************************************************)
EXTENDS Naturals, Sequences

CONSTANT None

\* A type is [base, optional], after the types parse_ty has a case for.  "Enum"
\* stands for all that are kept as text: enums, UUID, NanoId and addresses.
Supported == {"String", "Int64", "Boolean", "Enum"}

Classes == {"plain", "special", "quoted", "backslash", "stripped", "doubled", "null"}
Values == [of : Nat, class : Classes, escaped : BOOLEAN]
Value(i, class) == [of |-> i, class |-> class, escaped |-> FALSE]
Null == [of |-> 0, class |-> "null", escaped |-> FALSE]

\* value.to_string() without its double quotes: a backslash stands before what
\* was a quote, and is doubled or put for a control character.
JsonText(v) ==
  [v EXCEPT !.class = IF @ = "quoted" THEN "stripped" ELSE IF @ = "backslash" THEN "doubled" ELSE @]

\* urlencoding::encode and decode.
UrlEncode(v) == [v EXCEPT !.escaped = (v.class # "plain")]
\* Mutant of UrlDecode: a string is taken as it stands.
NotDecoded(v) == v
UrlDecode(v) == [v EXCEPT !.escaped = FALSE]
EncodeValue(v) == UrlEncode(JsonText(v))

\* The decimal digits of i + 1, for up to 99 parameters.
Digits(n) == IF n < 10 THEN <<n>> ELSE <<n \div 10, n % 10>>

\* encode_header: "0" and the lower-case name, then each parameter that is not null.
EncodeHeader(name, values) ==
  LET token(i) == IF values[i] = Null THEN <<>>
                  ELSE <<Digits(i) \o <<EncodeValue(values[i])>> >>
      tokens[i \in 0..Len(values)] ==
        IF i = 0 THEN << <<0, [lower |-> name]>> >> ELSE tokens[i - 1] \o token(i)
  IN tokens[Len(values)]

\* split_at(1): one digit is the key, the rest the value.
Key(token) == Head(token)

\* parse_protocol_header: of two tokens with one key the later counts.
ParseProtocolHeader(tokens) ==
  LET last(k) == CHOOSE i \in DOMAIN tokens :
                   /\ Key(tokens[i]) = k
                   /\ \A j \in DOMAIN tokens : Key(tokens[j]) = k => j <= i
  IN [k \in {Key(tokens[i]) : i \in DOMAIN tokens} |-> Tail(tokens[last(k)])]

\* parse_ty of what follows the key, None when it fails; an optional is parsed as
\* its inner type.  Only a string is decoded.
ParseTy(type, text) ==
  CASE type.base = "String" -> IF Len(text) = 1 THEN UrlDecode(text[1]) ELSE text
    [] type.base \in {"Int64", "Enum"} -> IF Len(text) = 1 THEN text[1] ELSE text
    [] type.base = "Boolean" -> IF Len(text) = 1 THEN text[1] ELSE None
    [] type.base \notin Supported -> None

\* auth, up to the handler: the parameters by position, or None for an error.
Auth(endpoints, types, tokens) ==
  LET splits == ParseProtocolHeader(tokens)
      given == {i \in DOMAIN types : i \in DOMAIN splits}
      parsed == [i \in given |-> ParseTy(types[i], splits[i])]
  IN IF \/ 0 \notin DOMAIN splits
        \/ splits[0][1].lower \notin endpoints
        \/ \E i \in DOMAIN types : i \notin given /\ ~types[i].optional
        \/ \E i \in given : parsed[i] = None
     THEN None ELSE parsed

\* What a client sends arrives, for an endpoint of at most nine parameters of
\* supported types: no parameter is lost, moved to another or taken for the
\* method, whatever it holds, and exactly those arrive unchanged whose JSON text
\* is the text itself, since parse_ty undoes the URL encoding but not the JSON one.
HeaderRoundTrip(name, types, values) ==
  Len(types) <= 9 /\ (\A i \in DOMAIN types : types[i].base \in Supported) =>
    LET seen == Auth({name}, types, EncodeHeader(name, values))
    IN /\ seen \in [{i \in DOMAIN types : values[i] # Null} -> Values]
       /\ \A i \in DOMAIN seen :
            seen[i].of = i /\ (values[i].class \in {"plain", "special"} <=> seen[i] = values[i])
================================================================================
