--------------------------- MODULE MC_SchemaIndex ---------------------------
EXTENDS SchemaIndex

\* The characters of the model in byte order: ' ' < '.' < '/' < '1' < ':'
\* < 'A' < '_' < 'a' < 'b' < 'v' < 'x' < 'y'.
MCByteOrder == <<" ", ".json", "/", "1", ":", "A", "_", "a", "b", "v", "x", "y">>
MCUpperToLower == "A" :> "a"

\* Schema directories:
\*  - a well-formed one: a colon-free domain directory "a_b", a padded
\*    " a", a non-schema file, and an upper-case domain "A";
\*  - one whose schemas sit a level deeper (a/v1/x/y.json) than the
\*    domain/version/name layout;
\*  - one with a stray schema at the top (fails initialise), and one whose
\*    version directory is only a space (fails initialise);
\*  - one whose schema name has a space after ".json" (not indexed).
MCTrees ==
    { { << <<"a","_","b">>, <<"v","1">>, <<"x",".json">> >>,
        << <<" ","a">>, <<"v","1">>, <<"x",".json">> >>,
        << <<"a">>, <<"v","1">>, <<"y">> >>,
        << <<"A">>, <<"v","1">>, <<"y",".json">> >> },
      { << <<"a">>, <<"v","1">>, <<"x">>, <<"y",".json">> >>,
        << <<"a">>, <<"v","1">>, <<"x",".json">> >>,
        << <<"a">>, <<"v","1">>, <<"y">>, <<"x",".json">> >> },
      { << <<"x",".json">> >>,
        << <<"a">>, <<"v","1">>, <<"x",".json">> >> },
      { << <<"a">>, <<" ">>, <<"x",".json">> >> },
      { << <<"a">>, <<"v","1">>, <<"x",".json"," ">> >> } }

Req(j, d, v, cv, u) == [json |-> j, domain |-> d, version |-> v, coreVersion |-> cv, url |-> u]

\* Requests: an upper-case domain with a colon, a version only in
\* core_version with a trailing slash on the URL, an endpoint with no
\* schema, a body that is not JSON, no domain, and no version at all.
MCRequests ==
    { Req(TRUE, <<"A",":","b">>, <<"1">>, <<>>, <<"/","a","/","x">>),
      Req(TRUE, <<"a">>, <<>>, <<"1">>, <<"/","b","/","y","/">>),
      Req(TRUE, <<"a">>, <<"1">>, <<"1">>, <<"/","x">>),
      Req(FALSE, <<>>, <<>>, <<>>, <<"/","x">>),
      Req(TRUE, <<>>, <<"1">>, <<>>, <<"/","x">>),
      Req(TRUE, <<"a">>, <<>>, <<>>, <<"/","x">>) }
=============================================================================
