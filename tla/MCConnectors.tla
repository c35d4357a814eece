---------------------------- MODULE MCConnectors ----------------------------
(* Instances of Connectors for TLC. *)
EXTENDS Connectors

With(tools, source) == [tools |-> tools, source |-> source]

\* A server for each set of connectors whose calls meet in the workbook, the
\* Drive file or a token.
MCConfigurations ==
    {With({"gmail", "google_calendar"}, "file"),
     With({"excel_file"}, "google"),
     With({"excel_file"}, "file"),
     With({"drive"}, "file"),
     With({"salesforce"}, "file"),
     With({"jira"}, "file")}

OnSalesforce == {With({"salesforce"}, "file")}

MCMessages == {1}
=============================================================================
