---------------------------- MODULE MC_AuthHeader ----------------------------
EXTENDS AuthHeader

\* Ids of up to two characters over a letter, the separator, a quote and a
\* space: legal ids and every way of breaking the keyId format.
MCIdChars == {"a", "b", "|", "\"", " "}

\* Foreign headers: no keyId at all, and a keyId with no closing quote.
MCForeignHeaders ==
    { <<"Signature", " ", ",algorithm=", "\"", "ed25519", "\"">>,
      <<"Signature", " ", "keyId=", "\"", "a", "|", "b", "|", "ed25519">> }
=============================================================================
