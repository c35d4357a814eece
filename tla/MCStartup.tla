------------------------------ MODULE MCStartup ------------------------------
(* Instances of Startup for TLC. *)
EXTENDS Startup

\* Every combination of settings; the values themselves do not matter.
MCSettings == Setting

\* A complete deployment on ECS: no browser, the token in the environment.
Headless ==
    [client : {TRUE}, tokenJson : {"set"}, browser : {FALSE}, excel : {"none"},
     folder : {TRUE}, salesforce : {FALSE}, jira : {TRUE}, database : {TRUE}, keys : {"set"}]

\* The token of the one local consent, with and without its refresh token.
MCEnvTokens ==
    {Consented({"gmail", "calendar"}),
     [Consented({"gmail", "calendar"}) EXCEPT !.refreshable = FALSE]}

LocalConsent == {Consented({"gmail", "calendar"})}
=============================================================================
