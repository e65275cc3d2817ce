----------------------------- MODULE AuthHeader -----------------------------
(***************************************************************************)
(* The Authorization header between two adapters: the sign step of the     *)
(* sender formats it (signStep.generateAuthHeader, step.go) and the        *)
(* validateSign step of the receiver parses its keyId (parseHeader) to     *)
(* look up the sender's public key.  A header is a sequence of characters  *)
(* and tokens: each literal of the format string is one token, the        *)
(* decimal created/expires values are the token "N" and the base64         *)
(* signature is "S" (none of them holds a '"' or a '|').  Subscriber and   *)
(* key ids are arbitrary short strings over IdChars.                       *)
(***************************************************************************)
EXTENDS GoStrings

CONSTANTS
    IdChars,         \* characters of subscriber and key ids
    MaxIdLen,        \* longest id considered
    ForeignHeaders   \* Authorization values not made by generateAuthHeader

ASSUME MaxIdLenAssumption == MaxIdLen \in Nat

Q == "\""
Ids == BoundedSeq(IdChars, MaxIdLen)

\* The headers parameter of the Signature header, one literal.
SignedHeaders == "(created) (expires) digest"

\* fmt.Sprintf of the Signature header in generateAuthHeader.
GenerateAuthHeader(subID, keyID) ==
    <<"Signature", Space, "keyId=", Q>> \o subID \o <<"|">> \o keyID \o
    <<"|", "ed25519", Q, ",algorithm=", Q, "ed25519", Q,
      ",created=", Q, "N", Q, ",expires=", Q, "N", Q,
      ",headers=", Q, SignedHeaders, Q, ",signature=", Q, "S", Q>>

\* Mutant: the closing quote is searched from the start of the header.
KeyIDPartFromStart(header) ==
    LET start == Index(header, <<"keyId=", Q>>)
        end   == Index(header, <<Q>>)
    IN  IF start = 0 \/ end = 0 THEN <<>>
        ELSE TrimSpace(SubSeq(header, start + 2, start + 2 + end - 2))

\* parseHeader: the trimmed text between keyId=" and the next '"'.
KeyIDPart(header) ==
    LET start == Index(header, <<"keyId=", Q>>)
        rest  == SubSeq(header, start + 2, Len(header))
        end   == Index(rest, <<Q>>)
    IN  IF start = 0 \/ end = 0 THEN <<>> ELSE TrimSpace(SubSeq(rest, 1, end - 1))

ParseResults ==
    [status : {"none", "ok", "keyIdNotFound", "badFormat"},
     sub : Seq(IdChars), kid : Seq(IdChars), alg : Seq({"ed25519"} \cup IdChars)]
ParseError(status) == [status |-> status, sub |-> <<>>, kid |-> <<>>, alg |-> <<>>]
NoParse == ParseError("none")

\* Mutant: the whole header is split instead of the keyId value.
ParseHeaderWholeHeader(header) ==
    LET part  == KeyIDPart(header)
        comps == Split(header, "|")
    IN  CASE part = <<>>     -> ParseError("keyIdNotFound")
          [] Len(comps) # 3 -> ParseError("badFormat")
          [] OTHER -> [status |-> "ok", sub |-> TrimSpace(comps[1]),
                       kid |-> TrimSpace(comps[2]), alg |-> TrimSpace(comps[3])]

\* parseHeader: keyId must hold three '|'-separated components.
ParseHeader(header) ==
    LET part  == KeyIDPart(header)
        comps == Split(part, "|")
    IN  CASE part = <<>>     -> ParseError("keyIdNotFound")
          [] Len(comps) # 3 -> ParseError("badFormat")
          [] OTHER -> [status |-> "ok", sub |-> TrimSpace(comps[1]),
                       kid |-> TrimSpace(comps[2]), alg |-> TrimSpace(comps[3])]

NoSigner == [sub |-> <<>>, kid |-> <<>>]

VARIABLES
    phase,    \* "idle", "sent" (header on the wire), "checked" (parsed)
    header,   \* the Authorization value the receiver gets
    signer,   \* the subscriber and key id the sender signed with
    parsed    \* what the receiver's parseHeader returned

vars == <<phase, header, signer, parsed>>

TypeOK ==
    /\ phase \in {"idle", "sent", "checked"}
    /\ header \in Seq(STRING)
    /\ signer \in [sub : Ids, kid : Ids]
    /\ parsed \in ParseResults

Init ==
    /\ phase = "idle"
    /\ header = <<>>
    /\ signer = NoSigner
    /\ parsed = NoParse

\* signStep.Run with ctx.SubID set and the key set found: the header is
\* generated and set on the outgoing request.
Sign ==
    /\ phase = "idle"
    /\ \E sub \in Ids \ {<<>>}, kid \in Ids :
          /\ signer' = [sub |-> sub, kid |-> kid]
          /\ header' = GenerateAuthHeader(sub, kid)
    /\ phase' = "sent"
    /\ UNCHANGED parsed

\* A request signed by some other party.
ReceiveForeign ==
    /\ phase = "idle"
    /\ \E h \in ForeignHeaders : header' = h
    /\ phase' = "sent"
    /\ UNCHANGED <<signer, parsed>>

\* validateSignStep.validate: parse the header; on success its ids are
\* passed to KeyManager.LookupNPKeys.
Validate ==
    /\ phase = "sent"
    /\ parsed' = ParseHeader(header)
    /\ phase' = "checked"
    /\ UNCHANGED <<header, signer>>

Next == Sign \/ ReceiveForeign \/ Validate

Spec == Init /\ [][Next]_vars

-----------------------------------------------------------------------------
\* An id keyId can carry: non-empty, no surrounding space (so TrimSpace
\* keeps it whole), no '|' or '"'.
LegalId(x) ==
    /\ x # <<>>
    /\ x[1] # Space /\ x[Len(x)] # Space
    /\ \A i \in DOMAIN x : x[i] \notin {"|", Q}

\* The receiver looks up the key the sender signed with: parseHeader of a
\* header generateAuthHeader made from legal ids gives back exactly those
\* ids and ed25519.
KeyIdRoundTrip ==
    (phase = "checked" /\ signer # NoSigner /\ LegalId(signer.sub) /\ LegalId(signer.kid))
        => parsed = [status |-> "ok", sub |-> signer.sub, kid |-> signer.kid,
                     alg |-> <<"ed25519">>]
=============================================================================
