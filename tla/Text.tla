-------------------------------- MODULE Text --------------------------------
(***************************************************************************)
(* The two text formats of the repository: registry entries (registry.cpp) *)
(* and credentials (credentials.cpp).  Both are lines "key=value", read    *)
(* with getline; a value is written as it is, so one with a line break in  *)
(* it becomes several lines.                                               *)
(*                                                                         *)
(* A text is a sequence of tokens.  A token is a tuple: <<"w">> for a word *)
(* or a separator, <<"key", n>> for a key in hex, <<"sig", k, bytes>> for  *)
(* a signature in hex.                                                     *)
(***************************************************************************)
EXTENDS Integers, Sequences, SequencesExt

CONSTANTS Numbers,   \* tokens that stoi, stol and stoull read as a number
          LivePids   \* the process ids among them that kill(pid, 0) finds

NL == <<"\n">>
EQ == <<"=">>
Word(w) == <<w>>

ASSUME TextAssumption ==
  /\ LivePids \subseteq Numbers /\ Word("1") \in Numbers
  /\ \A x \in Numbers : Len(x) = 1 /\ x # NL

IsKey(v) == Len(v) = 1 /\ Len(v[1]) = 2          \* from_hex of 32 bytes
IsSig(v) == Len(v) = 1 /\ Len(v[1]) = 3          \* from_hex of 64 bytes
IsNumber(v) == v # << >> /\ v[1] \in Numbers     \* else stoi throws

\* getline(text, sep): the positions at which a string begins, and the string
\* from there up to the next separator.  None begins after a final separator.
Starts(text, sep) == {a \in 1 .. Len(text) : a = 1 \/ text[a - 1] = sep}

End(text, sep, a) ==
  CHOOSE b \in a .. Len(text) + 1 : /\ b = Len(text) + 1 \/ text[b] = sep
                                    /\ \A i \in a .. b - 1 : text[i] # sep

Getline(text, sep, a) == SubSeq(text, a, End(text, sep, a) - 1)

\* Items in no order: what is read from them has none.
split(s, sep) == {Getline(s, sep, a) : a \in Starts(s, sep)} \ {<< >>}

join(v, sep) ==
  LET out[n \in 0 .. Len(v)] == IF n = 0 THEN << >>
                                ELSE IF n = 1 THEN v[1] ELSE out[n - 1] \o <<sep>> \o v[n]
  IN out[Len(v)]

Line(key, val) == << Word(key), EQ >> \o val \o << NL >>

\* A line is cut at its first '='.  One without is skipped.
Equals(line) == SelectInSeq(line, LAMBDA c : c = EQ)

\* The lines with a key, by their positions, and the value of one.
Fields(text, key) ==
  {a \in Starts(text, NL) : LET l == Getline(text, NL, a)
                            IN Equals(l) # 0 /\ SubSeq(l, 1, Equals(l) - 1) = << Word(key) >>}

FieldValue(text, a) == LET l == Getline(text, NL, a) IN SubSeq(l, Equals(l) + 1, Len(l))

\* Of several lines with a key the last one stays.
Value(text, key) ==
  LET f == Fields(text, key) IN IF f = {} THEN << >> ELSE FieldValue(text, Max(f))

---------------------------------------------------------------------------
(* Registry entries.                                                       *)

EndpointKind == {"Receive", "Send", "StreamReceive", "StreamSend", "Topic"}

kind_to_string(k) ==
  CASE k = "Receive" -> <<"receive">> [] k = "Send" -> <<"send">>
    [] k = "StreamReceive" -> <<"stream_receive">> [] k = "StreamSend" -> <<"stream_send">>
    [] k = "Topic" -> <<"topic">>

\* What registry::publish writes.
publish(e) ==
  Line("version", << Word("1") >>) \o Line("service", e.service) \o Line("address", e.address)
    \o Line("pubkey", <<e.key>>) \o Line("pid", <<e.pid>>)
    \o Line("endpoints", join(e.endpoints, <<",">>)) \o Line("description", e.description)

\* found: the entry reads and its process is alive; stale: it reads, its
\* process is dead, and lookup unpublishes it.
lookup(text) ==
  LET bad == \/ \E a \in Fields(text, "version") \cup Fields(text, "pid") : ~IsNumber(FieldValue(text, a))
             \/ \E a \in Fields(text, "pubkey") : ~IsKey(FieldValue(text, a))
      pid == Value(text, "pid")
  IN IF bad THEN [found |-> FALSE, stale |-> FALSE]
     ELSE IF pid = << >> \/ pid[1] \notin LivePids THEN [found |-> FALSE, stale |-> TRUE]
     ELSE [found |-> TRUE, stale |-> FALSE,
           key |-> Value(text, "pubkey"), pid |-> pid[1],
           endpoints |-> split(Value(text, "endpoints"), <<",">>),
           description |-> Value(text, "description")]

\* Mutant: "name:kind" is cut at the first ':'.
EndpointFirstColon(ep) ==
  LET colon == SelectInSeq(ep, LAMBDA c : c = <<":">>)
      named == {k \in EndpointKind : SubSeq(ep, colon + 1, Len(ep)) = << kind_to_string(k) >>}
  IN [name |-> SubSeq(ep, 1, colon - 1),
      kind |-> IF named = {} THEN "Receive" ELSE CHOOSE k \in named : TRUE]

\* "name:kind", cut at the last ':'.
Endpoint(ep) ==
  LET colon == SelectLastInSeq(ep, LAMBDA c : c = <<":">>)
      kind == IF colon = 0 THEN << <<"receive">> >> ELSE SubSeq(ep, colon + 1, Len(ep))
      named == {k \in EndpointKind : kind = << kind_to_string(k) >>}
  IN [name |-> IF colon = 0 THEN ep ELSE SubSeq(ep, 1, colon - 1),
      kind |-> IF named = {} THEN "Receive" ELSE CHOOSE k \in named : TRUE]

describe(e) ==
  [description |-> e.description, pid |-> e.pid, key |-> e.key,
   endpoints |-> {Endpoint(ep) : ep \in e.endpoints}]

---------------------------------------------------------------------------
(* Credentials: [peer, scope, expires, issuer].                            *)

\* Mutant: the scope is left out of what is signed.
SignedWithoutScope(c) == << <<"EPX-credential-v1">>, c.peer, c.issuer, c.expires >>

signed_bytes(c) == << <<"EPX-credential-v1">>, c.peer, c.issuer, c.expires >> \o c.scope

Signature(c) == <<"sig", c.issuer, signed_bytes(c)>>

make_credential(c) ==
  << Word("epx-credential-v1"), NL >>
    \o Line("peer", <<c.peer>>) \o Line("scope", c.scope) \o Line("expires", <<c.expires>>)
    \o Line("issuer", <<c.issuer>>) \o Line("sig", <<Signature(c)>>)

\* ok: all five fields are there.
parse(text) ==
  IF text = << >> \/ Getline(text, NL, 1) # << Word("epx-credential-v1") >> THEN [ok |-> FALSE]
  ELSE IF /\ IsKey(Value(text, "peer")) /\ IsKey(Value(text, "issuer")) /\ IsSig(Value(text, "sig"))
          /\ Value(text, "scope") # << >>
          /\ Fields(text, "expires") # {}
          /\ \A a \in Fields(text, "expires") : IsNumber(FieldValue(text, a))
       THEN [ok |-> TRUE, peer |-> Value(text, "peer")[1], scope |-> Value(text, "scope"),
             expires |-> Value(text, "expires")[1], issuer |-> Value(text, "issuer")[1],
             signature |-> Value(text, "sig")[1]]
       ELSE [ok |-> FALSE]

signature_valid(c) == c.signature = Signature(c)
=============================================================================
