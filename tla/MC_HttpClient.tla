--------------------------- MODULE MC_HttpClient ---------------------------
EXTENDS HttpClient, TLC

CONSTANTS t1, t2

\* The refresher and one request thread share the client.
MCThreads == {t1, t2}

\* The authority URL and the vault's resource URI, as two-letter strings.
MCAuthority == <<"l", "o">>
MCVaultResource == <<"v", "t">>
MCResources == {MCVaultResource}

\* Header values the vault sends with a 401, as received after the colon:
\*   ' Br az="lo", rs="vt"'    a Bearer challenge naming "authorization";
\*   'Br au="lo",rs="vt" '     the "authorization_uri" form, unspaced;
\*   'Bs rs="vt"'              a challenge of another scheme.
MCChallenges ==
    { <<" ", "B", "r", " ", "a", "z", "=", "\"", "l", "o", "\"", ",",
        " ", "r", "s", "=", "\"", "v", "t", "\"">>,
      <<"B", "r", " ", "a", "u", "=", "\"", "l", "o", "\"", ",",
        "r", "s", "=", "\"", "v", "t", "\"", " ">>,
      <<"B", "s", " ", "r", "s", "=", "\"", "v", "t", "\"">> }

\* The threads are interchangeable.
ThreadSymmetry == Permutations(MCThreads)
=============================================================================
