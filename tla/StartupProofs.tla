---------------------------- MODULE StartupProofs ----------------------------
(***************************************************************************)
(* Proofs about Startup: its inductive invariant, and the properties that  *)
(* follow from it for all settings, tokens and faults.                     *)
(***************************************************************************)
EXTENDS StartupInv, TLAPS

-----------------------------------------------------------------------------
(***************************************************************************)
(* What load_credentials returns                                           *)
(***************************************************************************)

\* The three ways to succeed.
AsCached(r, path) == Cached(path).fresh /\ r.token = Cached(path)
Renewed(r, scopes, path) ==
    /\ Cached(path).refreshable /\ scopes \subseteq Cached(path).grant
    /\ r.token = [Cached(path) EXCEPT !.access = scopes, !.fresh = TRUE]
Anew(r, scopes) ==
    /\ settings.tokenJson = "unset" /\ settings.client
    /\ r.token = Consented(scopes)

\* No token that works or can be refreshed.
NothingCached(path) ==
    /\ settings.tokenJson = "unset"
    /\ ~Cached(path).fresh /\ ~Cached(path).refreshable /\ ~Cached(path).torn

Loaded(r, scopes, path) ==
    \/ /\ r.error = "none" /\ ~Unreadable(path)
       /\ AsCached(r, path) \/ Renewed(r, scopes, path) \/ Anew(r, scopes)
    \/ r.error = "ValueError" /\ Unreadable(path)
    \/ /\ r.error = "RefreshError" /\ ~Unreadable(path)
       /\ Cached(path).refreshable /\ ~(scopes \subseteq Cached(path).grant)
    \/ r.error = "RuntimeError" /\ NothingCached(path) /\ ~settings.client
    \/ r.error = "no browser" /\ NothingCached(path) /\ settings.client
    \/ r.error = "declined" /\ settings.client /\ settings.tokenJson = "unset"
    \/ r.error = "network" /\ Cached(path).refreshable

LEMMA SettingType ==
    ASSUME TypeOK
    PROVE  settings \in Setting
BY StartupAssumption DEF TypeOK

LEMMA CachedType ==
    ASSUME TypeOK, NEW path \in Path
    PROVE  Cached(path) \in Token
BY DEF TypeOK, Cached

LEMMA Outcomes ==
    /\ \A k : Returns(k).error = "none" /\ Returns(k).token = k
    /\ \A e : Raises(e).error = e
BY DEF Returns, Raises

LEMMA RefreshIs ==
    ASSUME NEW k, k.refreshable, NEW scopes, NEW r \in Refresh(k, scopes)
    PROVE  \/ /\ r.error = "none" /\ scopes \subseteq k.grant
              /\ r.token = [k EXCEPT !.access = scopes, !.fresh = TRUE]
           \/ r.error = "RefreshError" /\ ~(scopes \subseteq k.grant)
           \/ r.error = "network"
<1>1. CASE r = Returns([k EXCEPT !.access = scopes, !.fresh = TRUE]) /\ scopes \subseteq k.grant
  BY <1>1, Outcomes
<1>2. CASE r = Raises("RefreshError") /\ ~(scopes \subseteq k.grant)
  BY <1>2, Outcomes
<1>3. CASE r = Raises("network")
  BY <1>3, Outcomes
<1> QED
  BY <1>1, <1>2, <1>3 DEF Refresh

LEMMA ConsentIs ==
    ASSUME NEW scopes, NEW r \in Consent(scopes)
    PROVE  \/ r.error = "none" /\ r.token = Consented(scopes)
           \/ r.error = "declined"
           \/ r.error = "no browser"
<1>1. r \in {Returns(Consented(scopes)), Raises("declined"), Raises("no browser")}
  BY DEF Consent
<1> QED
  BY <1>1, Outcomes

LEMMA LoadIs ==
    ASSUME TypeOK, NEW path \in Path, NEW scopes,
           NEW r \in LoadCredentials(scopes, path)
    PROVE  Loaded(r, scopes, path)
<1> DEFINE k == Cached(path)
<1> settings.tokenJson \in {"unset", "set", "malformed"} /\ k \in Token
  BY SettingType, CachedType DEF Setting
<1>1. CASE Unreadable(path)
  <2>1. r \in {Raises("ValueError")}
    BY <1>1 DEF LoadCredentials
  <2> QED
    BY <1>1, <2>1, Outcomes DEF Loaded
<1>2. CASE ~Unreadable(path) /\ k.fresh
  <2>1. r \in {Returns(k)}
    BY <1>2 DEF LoadCredentials
  <2> QED
    BY <1>2, <2>1, Outcomes DEF Loaded, AsCached
<1>3. CASE ~Unreadable(path) /\ ~k.fresh /\ k.refreshable
  <2>1. r \in Refresh(k, scopes)
    BY <1>3 DEF LoadCredentials
  <2> HIDE DEF k
  <2>2. \/ /\ r.error = "none" /\ scopes \subseteq k.grant
           /\ r.token = [k EXCEPT !.access = scopes, !.fresh = TRUE]
        \/ r.error = "RefreshError" /\ ~(scopes \subseteq k.grant)
        \/ r.error = "network"
    BY <1>3, <2>1, RefreshIs
  <2> QED
    BY <1>3, <2>2 DEF k, Loaded, Renewed
<1>4. CASE ~Unreadable(path) /\ ~k.fresh /\ ~k.refreshable
  <2>1. r \in IF settings.client THEN Consent(scopes) ELSE {Raises("RuntimeError")}
    BY <1>4 DEF LoadCredentials
  <2>2. NothingCached(path)
    BY <1>4 DEF NothingCached, Unreadable, Cached
  <2>3. CASE ~settings.client
    BY <1>4, <2>1, <2>2, <2>3, Outcomes DEF Loaded
  <2>4. CASE settings.client
    <3>1. r \in Consent(scopes) /\ settings.tokenJson = "unset"
      BY <2>1, <2>2, <2>4 DEF NothingCached
    <3> QED
      BY <1>4, <2>2, <2>4, <3>1, ConsentIs DEF Loaded, Anew
  <2> QED
    BY <2>3, <2>4
<1> QED
  BY <1>1, <1>2, <1>3, <1>4

-----------------------------------------------------------------------------
(***************************************************************************)
(* What is kept in the token files                                         *)
(***************************************************************************)

\* A token that was loaded, by the way it was.
LEMMA LoadedToken ==
    ASSUME TypeOK, NEW path \in Path, NEW scopes \in SUBSET Scope, NEW r,
           Loaded(r, scopes, path), r.error = "none"
    PROVE  /\ r.token \in Token
           /\ r.token.fresh
           /\ r.token.refreshable \/ AsCached(r, path)
           /\ AsCached(r, path) \/ r.token.access = scopes
           /\ \/ r.token.grant = scopes
              \/ r.token.grant = Cached(path).grant /\ Cached(path).refreshable
              \/ AsCached(r, path)
           /\ Cached(path).refreshable => r.token.refreshable
<1> Cached(path) \in Token
  BY CachedType
<1>1. CASE AsCached(r, path)
  BY <1>1 DEF AsCached
<1>2. CASE Renewed(r, scopes, path)
  BY <1>2 DEF Renewed, Token
<1>3. CASE Anew(r, scopes)
  BY <1>3 DEF Anew, Consented, Token
<1> QED
  BY <1>1, <1>2, <1>3 DEF Loaded

\* A load does not repair a truncated file.
LEMMA TornStays ==
    ASSUME TypeOK, FilesRefresh, NEW path \in Path, NEW scopes \in SUBSET Scope,
           NEW r \in LoadCredentials(scopes, path), Saved(path, r)
    PROVE  \A p \in Path : tokenFile[p].torn => tokenFile'[p].torn
<1>1. Loaded(r, scopes, path) /\ tokenFile \in [Path -> Token]
  BY LoadIs DEF TypeOK
<1>2. settings.tokenJson = "unset" /\ tokenFile[path].torn => r.error # "none"
  BY <1>1 DEF Loaded, Unreadable
<1>3. settings.tokenJson \in {"unset", "set", "malformed"}
  BY SettingType DEF Setting
<1>4. settings.tokenJson = "malformed" => r.error # "none"
  BY <1>1 DEF Loaded, Unreadable
<1> QED
  BY <1>1, <1>2, <1>3, <1>4 DEF Saved

\* A load and what follows of it.
Load(scopes, path) ==
    \E r \in LoadCredentials(scopes, path) : Saved(path, r)

LEMMA FileAfterLoad ==
    ASSUME TypeOK, FilesRefresh, NEW path \in Path, NEW scopes \in SUBSET Scope,
           NEW r \in LoadCredentials(scopes, path), Saved(path, r)
    PROVE  /\ tokenFile' \in [Path -> Token]
           /\ FilesRefresh'
           /\ \A p \in Path : p # path => tokenFile'[p] = tokenFile[p]
           /\ OnFile(path) => OnFile(path)'
           /\ tokenFile[path].torn => r.error = "none" \/ tokenFile'[path].torn
           /\ r.error = "none" /\ settings.tokenJson = "unset" =>
                  tokenFile'[path].refreshable /\ tokenFile'[path] = r.token
           /\ \/ tokenFile'[path] = tokenFile[path]
              \/ /\ r.error = "none" /\ settings.tokenJson = "unset"
                 /\ tokenFile'[path].access = scopes
                 /\ \/ tokenFile'[path].grant = scopes
                    \/ tokenFile'[path].grant = tokenFile[path].grant /\ tokenFile[path].refreshable
<1> Loaded(r, scopes, path) /\ tokenFile \in [Path -> Token]
  BY LoadIs DEF TypeOK
<1> settings.tokenJson \in {"unset", "set", "malformed"}
  BY SettingType DEF Setting
<1>1. CASE r.error = "none" /\ settings.tokenJson = "unset"
  <2>1. Cached(path) = tokenFile[path]
    BY <1>1 DEF Cached
  <2>2. tokenFile' = [tokenFile EXCEPT ![path] = r.token]
    BY <1>1 DEF Saved
  <2>3. /\ r.token \in Token
        /\ r.token.fresh
        /\ r.token.refreshable \/ AsCached(r, path)
        /\ AsCached(r, path) \/ r.token.access = scopes
        /\ \/ r.token.grant = scopes
           \/ r.token.grant = Cached(path).grant /\ Cached(path).refreshable
           \/ AsCached(r, path)
    BY <1>1, LoadedToken
  <2>4. r.token.refreshable
    BY <2>1, <2>3 DEF AsCached, FilesRefresh
  <2>5. AsCached(r, path) => tokenFile'[path] = tokenFile[path]
    BY <2>1, <2>2 DEF AsCached
  <2> QED
    BY <1>1, <2>1, <2>2, <2>3, <2>4, <2>5 DEF FilesRefresh, OnFile
<1>2. CASE ~(r.error = "none" /\ settings.tokenJson # "set")
  BY <1>2 DEF Saved, FilesRefresh, OnFile
<1>3. ~(r.error = "none" /\ settings.tokenJson = "malformed")
  BY DEF Loaded, Unreadable
<1> QED
  BY <1>1, <1>2, <1>3

-----------------------------------------------------------------------------
(***************************************************************************)
(* What holds whatever scripts are run                                     *)
(***************************************************************************)

Phases == {"down", "google", "excel", "named", "drive", "salesforce", "jira", "up", "failed"}
ToolRecord == [name : ToolNames, needs : SUBSET Scope, access : SUBSET Scope]

AnyScripts == TypeOK /\ BuiltSoFar /\ SettingsAreGood /\ FilesRefresh /\ FailedWhy

\* The tokens have their types, and those in files can be refreshed.
TokensOK == envToken \in Token /\ tokenFile \in [Path -> Token] /\ FilesRefresh

\* What does not change in GOOGLE_TOKEN_JSON, and what does not vanish from
\* the token files.
EnvStays == envToken'.refreshable = envToken.refreshable
FilesStay == \A p \in Path : OnFile(p) => OnFile(p)'

\* GOOGLE_TOKEN_JSON can be parsed, if it is set.
EnvReadable ==
    settings.tokenJson # "malformed" /\ (settings.tokenJson = "set" => envToken.refreshable)

LEMMA ToolType ==
    ASSUME NEW name \in ToolNames, NEW needs \in SUBSET Scope, NEW k \in Token
    PROVE  Tool(name, needs, k) \in ToolRecord /\ Tool(name, needs, k).name = name
BY DEF Tool, ToolRecord, Token

LEMMA NoTokenType == NoToken \in Token /\ ~NoToken.fresh
BY DEF NoToken, Token, Scope

\* An exception that leaves get_tools leaves the invariant.
LEMMA FailKeeps ==
    ASSUME AnyScripts, NEW error, Fail(error), TokensOK' /\ EnvStays,
           \/ error \in Outside
           \/ ~settings.database \/ settings.keys = "malformed" \/ settings.excel = "both"
           \/ settings.tokenJson # "unset" \/ settings.client \/ NeedsDrive
           \/ \E p \in Path : OnFile(p)'
    PROVE  AnyScripts'
<1> /\ settings' = settings /\ tools' = tools /\ cameUp' = cameUp /\ phase' = "failed"
    /\ TypeOK
  BY DEF Fail, AnyScripts
<1>0. trouble' = (trouble \/ error \in Outside)
  BY DEF Fail
<1>1. trouble' \in BOOLEAN /\ (error \in Outside => trouble')
  BY <1>0 DEF TypeOK
<1>2. TypeOK'
  BY <1>1 DEF TypeOK, TokensOK, EnvStays
<1>3. BuiltSoFar'
  BY DEF AnyScripts, BuiltSoFar, BuiltTools
<1>4. SettingsAreGood'
  BY DEF AnyScripts, SettingsAreGood, EnvStays, PastGoogle, PastExcel
<1>5. FailedWhy'
  BY <1>1 DEF FailedWhy, OnFile, NeedsDrive
<1> QED
  BY <1>2, <1>3, <1>4, <1>5 DEF AnyScripts, TokensOK, EnvStays

\* A factory's result is put into the dictionary.
LEMMA BuiltIs ==
    ASSUME AnyScripts, NEW new \in SUBSET ToolRecord, NEW next \in Phases \ {"failed"},
           Built(new, next), TokensOK' /\ EnvStays
    PROVE  /\ TypeOK' /\ FilesRefresh' /\ FailedWhy'
           /\ settings' = settings /\ cameUp' = cameUp /\ trouble' = trouble /\ phase' = next
           /\ BuiltTools' = BuiltTools \cup {t.name : t \in new}
<1>1. /\ settings' = settings /\ cameUp' = cameUp /\ trouble' = trouble /\ phase' = next
      /\ tools' = tools \cup new
  BY DEF Built
<1>2. TypeOK' /\ FilesRefresh' /\ FailedWhy'
  BY <1>1 DEF TypeOK, TokensOK, EnvStays, FailedWhy, OnFile, AnyScripts, ToolRecord, Phases
<1>3. BuiltTools' = BuiltTools \cup {t.name : t \in new}
  BY <1>1 DEF BuiltTools
<1> QED
  BY <1>1, <1>2, <1>3

LEMMA BootKeeps == AnyScripts /\ Boot => AnyScripts'
<1> SUFFICES ASSUME AnyScripts, Boot PROVE AnyScripts'
  OBVIOUS
<1>1. TokensOK' /\ EnvStays
  BY DEF Boot, tokens, AnyScripts, TypeOK, TokensOK, EnvStays, FilesRefresh
<1>2. CASE settings.database /\ settings.keys # "malformed" /\ Built({}, "google")
  <2>1. {} \in SUBSET ToolRecord /\ "google" \in Phases \ {"failed"}
    BY DEF Phases
  <2>2. /\ TypeOK' /\ FilesRefresh' /\ FailedWhy'
        /\ settings' = settings /\ cameUp' = cameUp /\ phase' = "google"
        /\ BuiltTools' = BuiltTools
    BY <1>1, <1>2, <2>1, BuiltIs
  <2>3. tools' = {} /\ BuiltTools = {}
    BY <1>2 DEF Built, Boot, AnyScripts, BuiltSoFar, BuiltTools
  <2>4. BuiltSoFar'
    BY <2>2, <2>3 DEF BuiltSoFar, PastExcel, PastDrive, PastSalesforce
  <2>5. SettingsAreGood'
    BY <1>1, <1>2, <2>2 DEF AnyScripts, SettingsAreGood, EnvStays, PastGoogle, PastExcel
  <2> QED
    BY <2>2, <2>4, <2>5 DEF AnyScripts
<1>3. CASE ~settings.database /\ Fail("RuntimeError")
  BY <1>1, <1>3, FailKeeps
<1>4. CASE settings.keys = "malformed" /\ Fail("ValueError")
  BY <1>1, <1>4, FailKeeps
<1>5. ASSUME NEW f \in Faults \cap {"network"}, Fail(f)
      PROVE  AnyScripts'
  BY <1>1, <1>5, FailKeeps DEF Outside
<1> QED
  BY <1>2, <1>3, <1>4, <1>5 DEF Boot

\* A load leaves the token files in order, and tells why it fails.
LEMMA LoadKeeps ==
    ASSUME AnyScripts, NEW path \in Path, NEW scopes \in SUBSET Scope,
           NEW r \in LoadCredentials(scopes, path), Saved(path, r), UNCHANGED envToken
    PROVE  /\ TokensOK' /\ EnvStays /\ Loaded(r, scopes, path)
           /\ r.error \in {"none", "RuntimeError"} => EnvReadable
           /\ r.error \notin Outside \cup {"none", "RuntimeError"} =>
                  \/ settings.tokenJson # "unset" \/ settings.client
                  \/ \E p \in Path : OnFile(p)'
<1> TypeOK /\ FilesRefresh
  BY DEF AnyScripts
<1>1. Loaded(r, scopes, path) /\ tokenFile' \in [Path -> Token] /\ FilesRefresh'
      /\ (OnFile(path) => OnFile(path)')
  BY LoadIs, FileAfterLoad
<1>2. /\ settings.tokenJson = "unset" => Cached(path) = tokenFile[path]
      /\ Cached(path).refreshable /\ settings.tokenJson = "unset" => OnFile(path)
  BY DEF Cached, OnFile
<1>3. Unreadable(path) => settings.tokenJson # "unset" \/ OnFile(path)
  BY DEF Unreadable, OnFile
<1>4. ~Unreadable(path) \/ NothingCached(path) => EnvReadable
  BY DEF Unreadable, NothingCached, EnvReadable
<1> QED
  BY <1>1, <1>2, <1>3, <1>4 DEF TypeOK, TokensOK, EnvStays, Loaded, Outside

LEMMA GmailAndCalendarKeeps == AnyScripts /\ BuildGmailAndCalendar => AnyScripts'
<1> SUFFICES ASSUME AnyScripts, BuildGmailAndCalendar PROVE AnyScripts'
  OBVIOUS
<1> "default" \in Path /\ {"gmail", "calendar"} \in SUBSET Scope /\ phase = "google"
  BY DEF Path, Scope, BuildGmailAndCalendar
<1>1. PICK r \in LoadCredentials({"gmail", "calendar"}, "default") :
          /\ Saved("default", r)
          /\ \/ /\ r.error = "none"
                /\ Built({Tool("gmail", {"gmail"}, r.token),
                          Tool("google_calendar", {"calendar"}, r.token)}, "excel")
             \/ r.error = "RuntimeError" /\ Built({}, "excel")
             \/ r.error \notin {"none", "RuntimeError"} /\ Fail(r.error)
  BY DEF BuildGmailAndCalendar
<1>2. /\ TokensOK' /\ EnvStays /\ Loaded(r, {"gmail", "calendar"}, "default")
      /\ r.error \in {"none", "RuntimeError"} => EnvReadable
      /\ r.error \notin Outside \cup {"none", "RuntimeError"} =>
             \/ settings.tokenJson # "unset" \/ settings.client
             \/ \E p \in Path : OnFile(p)'
  BY <1>1, LoadKeeps DEF BuildGmailAndCalendar
<1>3. ASSUME NEW new \in SUBSET ToolRecord, Built(new, "excel"),
             {t.name : t \in new} = {} \/ {t.name : t \in new} = {"gmail", "google_calendar"},
             r.error \in {"none", "RuntimeError"}
      PROVE  AnyScripts'
  <2>1. "excel" \in Phases \ {"failed"}
    BY DEF Phases
  <2>2. /\ TypeOK' /\ FilesRefresh' /\ FailedWhy'
        /\ settings' = settings /\ cameUp' = cameUp /\ phase' = "excel"
        /\ BuiltTools' = BuiltTools \cup {t.name : t \in new}
    BY <1>2, <1>3, <2>1, BuiltIs
  <2>3. BuiltSoFar'
    BY <1>3, <2>2 DEF AnyScripts, BuiltSoFar, PastExcel, PastDrive, PastSalesforce
  <2>4. EnvReadable
    BY <1>2, <1>3
  <2>5. SettingsAreGood'
    BY <1>2, <2>2, <2>4 DEF AnyScripts, SettingsAreGood, EnvReadable, EnvStays, PastGoogle, PastExcel
  <2> QED
    BY <2>2, <2>3, <2>5 DEF AnyScripts
<1>4. CASE r.error = "none" /\ Built({Tool("gmail", {"gmail"}, r.token),
                                     Tool("google_calendar", {"calendar"}, r.token)}, "excel")
  <2> DEFINE a == Tool("gmail", {"gmail"}, r.token)
             b == Tool("google_calendar", {"calendar"}, r.token)
  <2>1. r.token \in Token
    BY <1>2, <1>4, LoadedToken DEF AnyScripts
  <2>2. /\ a \in ToolRecord /\ a.name = "gmail"
        /\ b \in ToolRecord /\ b.name = "google_calendar"
    BY <2>1, ToolType DEF ToolNames, Scope
  <2>3. Built({a, b}, "excel")
    BY <1>4
  <2> HIDE DEF a, b
  <2> QED
    BY <1>3, <1>4, <2>2, <2>3
<1>5. CASE r.error = "RuntimeError" /\ Built({}, "excel")
  BY <1>3, <1>5
<1>6. CASE r.error \notin {"none", "RuntimeError"} /\ Fail(r.error)
  BY <1>2, <1>6, FailKeeps
<1> QED
  BY <1>1, <1>4, <1>5, <1>6

\* A connector on Drive is built, or the start fails.
LEMMA OnDrive ==
    ASSUME AnyScripts, NEW name \in ToolNames, NEW next, BuildOnDrive(name, next)
    PROVE  /\ TokensOK' /\ EnvStays
           /\ \/ \E t \in ToolRecord : t.name = name /\ Built({t}, next)
              \/ \E error : Fail(error)
<1> "drive" \in Path /\ {"drive"} \in SUBSET Scope /\ DriveTokenPath = "drive"
  BY DEF Path, Scope, DriveTokenPath
<1>1. PICK r \in LoadCredentials({"drive"}, "drive") :
          /\ \/ r.error = "none" /\ Built({Tool(name, {"drive"}, r.token)}, next)
             \/ r.error # "none" /\ Fail(r.error)
          /\ Saved("drive", r)
          /\ UNCHANGED envToken
  BY DEF BuildOnDrive
<1>2. TokensOK' /\ EnvStays /\ Loaded(r, {"drive"}, "drive")
  BY <1>1, LoadKeeps
<1>3. CASE r.error = "none" /\ Built({Tool(name, {"drive"}, r.token)}, next)
  <2>1. r.token \in Token
    BY <1>2, <1>3, LoadedToken DEF AnyScripts
  <2>2. Tool(name, {"drive"}, r.token) \in ToolRecord /\ Tool(name, {"drive"}, r.token).name = name
    BY <2>1, ToolType
  <2> QED
    BY <1>2, <1>3, <2>2
<1> QED
  BY <1>1, <1>2, <1>3

\* What building does to what is built so far, for the four factories that
\* come after Gmail and Calendar.
LEMMA NextBuilt ==
    ASSUME AnyScripts, TokensOK' /\ EnvStays, NEW new \in SUBSET ToolRecord, NEW next, Built(new, next),
           \/ /\ phase = "excel" /\ next = "named" /\ settings.excel = "name" /\ new = {}
           \/ /\ phase = "excel" \/ phase = "named"
              /\ next = "drive" /\ settings.excel # "both"
              /\ {t.name : t \in new} = IF settings.excel = "none" THEN {} ELSE {"excel_file"}
           \/ /\ phase = "drive" /\ next = "salesforce"
              /\ {t.name : t \in new} = IF settings.folder THEN {"drive"} ELSE {}
           \/ /\ phase = "salesforce" /\ next = "jira"
              /\ {t.name : t \in new} = IF settings.salesforce THEN {"salesforce"} ELSE {}
    PROVE  AnyScripts'
<1>1. next \in Phases \ {"failed"}
  BY DEF Phases
<1>2. /\ TypeOK' /\ FilesRefresh' /\ FailedWhy'
      /\ settings' = settings /\ cameUp' = cameUp /\ phase' = next
      /\ BuiltTools' = BuiltTools \cup {t.name : t \in new}
  BY <1>1, BuiltIs
<1>3. SettingsAreGood'
  BY <1>2 DEF AnyScripts, SettingsAreGood, EnvStays, PastGoogle, PastExcel
<1> DEFINE names == {t.name : t \in new}
<1> HIDE DEF names
<1>4. BuiltTools' = BuiltTools \cup names
  BY <1>2 DEF names
<1>5. BuiltSoFar'
  <2>0. CASE phase = "excel" /\ next = "named" /\ new = {}
    <3>1. names = {}
      BY <2>0 DEF names
    <3> QED
      BY <1>2, <1>4, <2>0, <3>1 DEF AnyScripts, BuiltSoFar, PastExcel, PastDrive, PastSalesforce
  <2>1. CASE phase \in {"excel", "named"} /\ next = "drive" /\ settings.excel # "both"
             /\ names = IF settings.excel = "none" THEN {} ELSE {"excel_file"}
    BY <1>2, <1>4, <2>1 DEF AnyScripts, BuiltSoFar, PastExcel, PastDrive, PastSalesforce
  <2>2. CASE phase = "drive" /\ next = "salesforce"
             /\ names = IF settings.folder THEN {"drive"} ELSE {}
    BY <1>2, <1>4, <2>2 DEF AnyScripts, BuiltSoFar, PastExcel, PastDrive, PastSalesforce
  <2>3. CASE phase = "salesforce" /\ next = "jira"
             /\ names = IF settings.salesforce THEN {"salesforce"} ELSE {}
    BY <1>2, <1>4, <2>3 DEF AnyScripts, BuiltSoFar, PastExcel, PastDrive, PastSalesforce
  <2> QED
    BY <2>0, <2>1, <2>2, <2>3 DEF names
<1> QED
  BY <1>2, <1>3, <1>5 DEF AnyScripts

LEMMA ExcelOnDriveKeeps ==
    ASSUME AnyScripts, phase \in {"excel", "named"}, settings.excel \in {"id", "name"},
           BuildOnDrive("excel_file", "drive")
    PROVE  AnyScripts'
<1>1. /\ TokensOK' /\ EnvStays
      /\ \/ \E t \in ToolRecord : t.name = "excel_file" /\ Built({t}, "drive")
         \/ \E error : Fail(error)
  BY OnDrive DEF ToolNames
<1>2. ASSUME NEW t \in ToolRecord, t.name = "excel_file", Built({t}, "drive")
      PROVE  AnyScripts'
  <2>1. {u.name : u \in {t}} = {"excel_file"}
    BY <1>2
  <2> QED
    BY <1>1, <1>2, <2>1, NextBuilt
<1>3. ASSUME NEW error, Fail(error)
      PROVE  AnyScripts'
  BY <1>1, <1>3, FailKeeps DEF NeedsDrive
<1> QED
  BY <1>1, <1>2, <1>3

LEMMA ExcelKeeps == AnyScripts /\ BuildExcel => AnyScripts'
<1> SUFFICES ASSUME AnyScripts, BuildExcel PROVE AnyScripts'
  OBVIOUS
<1> phase = "excel"
  BY DEF BuildExcel
<1>0. UNCHANGED tokens => TokensOK' /\ EnvStays
  BY DEF tokens, AnyScripts, TypeOK, TokensOK, EnvStays, FilesRefresh
<1>1. CASE settings.excel = "none" /\ Built({}, "drive") /\ UNCHANGED tokens
  BY <1>0, <1>1, NextBuilt
<1>2. CASE settings.excel = "both" /\ Fail("ValueError") /\ UNCHANGED tokens
  BY <1>0, <1>2, FailKeeps
<1>3. CASE settings.excel = "path" /\ Built({Tool("excel_file", {}, NoToken)}, "drive")
           /\ UNCHANGED tokens
  <2> DEFINE t == Tool("excel_file", {}, NoToken)
  <2>1. t \in ToolRecord /\ t.name = "excel_file"
    BY ToolType, NoTokenType DEF ToolNames
  <2>2. Built({t}, "drive")
    BY <1>3
  <2> HIDE DEF t
  <2>3. {u.name : u \in {t}} = {"excel_file"}
    BY <2>1
  <2> QED
    BY <1>0, <1>3, <2>1, <2>2, <2>3, NextBuilt
<1>4. CASE settings.excel = "id" /\ BuildOnDrive("excel_file", "drive")
  BY <1>4, ExcelOnDriveKeeps
<1> QED
  BY <1>1, <1>2, <1>3, <1>4 DEF BuildExcel

LEMMA NamedExcelKeeps == AnyScripts /\ BuildNamedExcel => AnyScripts'
<1> SUFFICES ASSUME AnyScripts, BuildNamedExcel PROVE AnyScripts'
  OBVIOUS
<1>1. phase = "named" /\ BuildOnDrive("excel_file", "drive")
  BY DEF BuildNamedExcel
<1>2. settings.excel = "name"
  BY <1>1 DEF AnyScripts, SettingsAreGood
<1> QED
  BY <1>1, <1>2, ExcelOnDriveKeeps

LEMMA ResolveKeeps == AnyScripts /\ ResolveWorkbook => AnyScripts'
<1> SUFFICES ASSUME AnyScripts, ResolveWorkbook PROVE AnyScripts'
  OBVIOUS
<1> "drive" \in Path /\ {"drive"} \in SUBSET Scope /\ DriveTokenPath = "drive"
  BY DEF Path, Scope, DriveTokenPath
<1>0. phase = "excel" /\ settings.excel = "name"
  BY DEF ResolveWorkbook
<1>1. PICK r \in LoadCredentials({"drive"}, "drive") :
          /\ Built({}, "named") \/ \E error : Fail(error)
          /\ Saved("drive", r)
          /\ UNCHANGED envToken
  BY DEF ResolveWorkbook
<1>2. TokensOK' /\ EnvStays
  BY <1>1, LoadKeeps
<1>3. CASE Built({}, "named")
  BY <1>0, <1>2, <1>3, NextBuilt
<1>4. ASSUME NEW error, Fail(error)
      PROVE  AnyScripts'
  BY <1>0, <1>2, <1>4, FailKeeps DEF NeedsDrive
<1> QED
  BY <1>1, <1>3, <1>4

LEMMA DriveKeeps == AnyScripts /\ BuildDrive => AnyScripts'
<1> SUFFICES ASSUME AnyScripts, BuildDrive PROVE AnyScripts'
  OBVIOUS
<1> phase = "drive"
  BY DEF BuildDrive
<1>1. CASE ~settings.folder /\ Built({}, "salesforce") /\ UNCHANGED tokens
  <2>1. TokensOK' /\ EnvStays
    BY <1>1 DEF tokens, AnyScripts, TypeOK, TokensOK, EnvStays, FilesRefresh
  <2> QED
    BY <1>1, <2>1, NextBuilt
<1>2. CASE settings.folder /\ BuildOnDrive("drive", "salesforce")
  <2>1. /\ TokensOK' /\ EnvStays
        /\ \/ \E t \in ToolRecord : t.name = "drive" /\ Built({t}, "salesforce")
           \/ \E error : Fail(error)
    BY <1>2, OnDrive DEF ToolNames
  <2>2. ASSUME NEW t \in ToolRecord, t.name = "drive", Built({t}, "salesforce")
        PROVE  AnyScripts'
    <3>1. {u.name : u \in {t}} = {"drive"}
      BY <2>2
    <3> QED
      BY <1>2, <2>1, <2>2, <3>1, NextBuilt
  <2>3. ASSUME NEW error, Fail(error)
        PROVE  AnyScripts'
    BY <1>2, <2>1, <2>3, FailKeeps DEF NeedsDrive
  <2> QED
    BY <2>1, <2>2, <2>3
<1> QED
  BY <1>1, <1>2 DEF BuildDrive

LEMMA SalesforceKeeps == AnyScripts /\ BuildSalesforce => AnyScripts'
<1> SUFFICES ASSUME AnyScripts, BuildSalesforce PROVE AnyScripts'
  OBVIOUS
<1> phase = "salesforce"
  BY DEF BuildSalesforce
<1>0. TokensOK' /\ EnvStays
  BY DEF BuildSalesforce, tokens, AnyScripts, TypeOK, TokensOK, EnvStays, FilesRefresh
<1>1. CASE ~settings.salesforce /\ Built({}, "jira")
  BY <1>0, <1>1, NextBuilt
<1>2. CASE settings.salesforce /\ Built({Tool("salesforce", {}, NoToken)}, "jira")
  <2> DEFINE t == Tool("salesforce", {}, NoToken)
  <2>1. t \in ToolRecord /\ t.name = "salesforce"
    BY ToolType, NoTokenType DEF ToolNames
  <2>2. Built({t}, "jira")
    BY <1>2
  <2> HIDE DEF t
  <2>3. {u.name : u \in {t}} = {"salesforce"}
    BY <2>1
  <2> QED
    BY <1>0, <1>2, <2>1, <2>2, <2>3, NextBuilt
<1>3. ASSUME NEW f \in Faults \cap {"network"}, Fail(f)
      PROVE  AnyScripts'
  BY <1>0, <1>3, FailKeeps DEF Outside
<1> QED
  BY <1>1, <1>2, <1>3 DEF BuildSalesforce

LEMMA JiraKeeps == AnyScripts /\ BuildJira => AnyScripts'
<1> SUFFICES ASSUME AnyScripts, BuildJira PROVE AnyScripts'
  OBVIOUS
<1> DEFINE new == IF settings.jira THEN {Tool("jira", {}, NoToken)} ELSE {}
           names == IF settings.jira THEN {"jira"} ELSE {}
<1>1. /\ phase = "jira" /\ phase' = "up" /\ cameUp' = TRUE /\ tools' = tools \cup new
      /\ UNCHANGED <<settings, envToken, tokenFile, trouble>>
  BY DEF BuildJira, tokens
<1>2. Tool("jira", {}, NoToken) \in ToolRecord /\ Tool("jira", {}, NoToken).name = "jira"
  BY ToolType, NoTokenType DEF ToolNames
<1>3. new \subseteq ToolRecord /\ {t.name : t \in new} = names
  BY <1>2
<1> HIDE DEF new
<1>4. TypeOK' /\ FilesRefresh' /\ FailedWhy'
  BY <1>1, <1>3 DEF AnyScripts, TypeOK, FilesRefresh, FailedWhy, OnFile, ToolRecord
<1>5. BuiltTools' = BuiltTools \cup names
  BY <1>1, <1>3 DEF BuiltTools
<1>6. BuiltSoFar'
  BY <1>1, <1>5 DEF AnyScripts, BuiltSoFar, PastExcel, PastDrive, PastSalesforce
<1>7. SettingsAreGood'
  BY <1>1 DEF AnyScripts, SettingsAreGood, EnvStays, PastGoogle, PastExcel
<1> QED
  BY <1>4, <1>6, <1>7 DEF AnyScripts

-----------------------------------------------------------------------------
LEMMA StopKeeps == AnyScripts /\ Stop => AnyScripts'
BY DEF Stop, tokens, AnyScripts, TypeOK, BuiltSoFar, BuiltTools, SettingsAreGood, EnvStays, FilesRefresh,
       FailedWhy, OnFile, PastGoogle, PastExcel, PastDrive, PastSalesforce

\* A file that is truncated is still there.
LEMMA TruncatedIs ==
    /\ Truncated \in Token
    /\ ~Truncated.fresh /\ ~Truncated.refreshable /\ Truncated.torn /\ Truncated.grant = {}
BY DEF Truncated, NoToken, Token, Scope

LEMMA TruncatedFile ==
    ASSUME TypeOK, FilesRefresh, NEW path \in Path, NEW scopes, DiesWhileSaving(scopes, path)
    PROVE  /\ TokensOK' /\ EnvStays /\ FilesStay
           /\ tokenFile' = [tokenFile EXCEPT ![path] = Truncated] /\ envToken' = envToken
           /\ settings.tokenJson = "unset"
<1>1. /\ tokenFile' = [tokenFile EXCEPT ![path] = Truncated] /\ envToken' = envToken
      /\ settings.tokenJson = "unset"
  BY DEF DiesWhileSaving
<1> HIDE DEF DiesWhileSaving
<1> QED
  BY <1>1, TruncatedIs DEF TypeOK, TokensOK, EnvStays, FilesStay, FilesRefresh, OnFile

LEMMA StopWhileSavingKeeps == AnyScripts /\ StopWhileSaving => AnyScripts'
<1> SUFFICES ASSUME AnyScripts, StopWhileSaving PROVE AnyScripts'
  OBVIOUS
<1>1. PICK path \in Path : \E scopes : DiesWhileSaving(scopes, path)
  BY DEF StopWhileSaving, Path, DriveTokenPath
<1>2. phase' = "down" /\ tools' = {} /\ UNCHANGED <<settings, cameUp, trouble>>
  BY DEF StopWhileSaving
<1>3. TokensOK' /\ EnvStays
  BY <1>1, TruncatedFile DEF AnyScripts
<1> QED
  BY <1>2, <1>3 DEF AnyScripts, TypeOK, TokensOK, EnvStays, BuiltSoFar, BuiltTools, SettingsAreGood,
     FailedWhy, OnFile, PastGoogle, PastExcel, PastDrive, PastSalesforce

\* The tokens change, and nothing else that matters.
LEMMA TokensChange ==
    ASSUME AnyScripts, TokensOK' /\ EnvStays, UNCHANGED <<settings, phase, tools, cameUp>>,
           \/ trouble'
           \/ /\ trouble' = trouble
              /\ FilesStay,
           trouble' \in BOOLEAN
    PROVE  AnyScripts'
<1>1. TypeOK' /\ FilesRefresh'
  BY DEF AnyScripts, TypeOK, TokensOK, EnvStays
<1>2. BuiltSoFar' /\ SettingsAreGood'
  BY DEF AnyScripts, BuiltSoFar, BuiltTools, SettingsAreGood, EnvStays
<1>3. FailedWhy'
  BY DEF AnyScripts, FailedWhy, FilesStay, OnFile, NeedsDrive
<1> QED
  BY <1>1, <1>2, <1>3 DEF AnyScripts

LEMMA ScriptKeeps ==
    ASSUME AnyScripts, NEW script \in Scripts, RunScript(script)
    PROVE  AnyScripts'
<1> TypeOK /\ FilesRefresh
  BY DEF AnyScripts
<1>1. ScopesOf(script) \in SUBSET Scope /\ PathOf(script) \in Path
  <2>1. script \in {"gmail", "calendar", "excel"}
    BY StartupAssumption
  <2> QED
    BY <2>1 DEF ScopesOf, PathOf, DriveTokenPath, Path, Scope
<1>2. UNCHANGED <<settings, envToken, phase, tools, cameUp, trouble>>
  BY DEF RunScript
<1>3. TokensOK' /\ EnvStays /\ FilesStay
  <2>1. ASSUME NEW r \in LoadCredentials(ScopesOf(script), PathOf(script)), Saved(PathOf(script), r)
        PROVE  TokensOK' /\ EnvStays /\ FilesStay
    <3>1. TokensOK' /\ EnvStays
      BY <1>1, <1>2, <2>1, LoadKeeps
    <3>2. FilesStay
      BY <1>1, <2>1, FileAfterLoad DEF FilesStay, OnFile
    <3> QED
      BY <3>1, <3>2
  <2>2. CASE DiesWhileSaving(ScopesOf(script), PathOf(script))
    BY <1>1, <2>2, TruncatedFile
  <2> QED
    BY <2>1, <2>2 DEF RunScript
<1> QED
  BY <1>2, <1>3, TokensChange DEF TypeOK

LEMMA AroundKeeps ==
    ASSUME AnyScripts, Expire \/ Revoke \/ \E path \in Path : DeleteTokenFile(path)
    PROVE  AnyScripts'
<1> envToken \in Token /\ tokenFile \in [Path -> Token] /\ trouble \in BOOLEAN /\ FilesRefresh
  BY DEF AnyScripts, TypeOK
<1>1. ASSUME NEW k \in Token
      PROVE  /\ [k EXCEPT !.fresh = FALSE] \in Token
             /\ [k EXCEPT !.fresh = FALSE].refreshable = k.refreshable
             /\ [k EXCEPT !.fresh = FALSE].torn = k.torn
             /\ ~[k EXCEPT !.fresh = FALSE].fresh
             /\ [k EXCEPT !.grant = {}] \in Token
             /\ [k EXCEPT !.grant = {}].refreshable = k.refreshable
             /\ [k EXCEPT !.grant = {}].fresh = k.fresh
  BY DEF Token
<1>2. CASE Expire
  <2>1. /\ envToken' = [envToken EXCEPT !.fresh = FALSE]
        /\ tokenFile' = [p \in Path |-> [tokenFile[p] EXCEPT !.fresh = FALSE]]
        /\ UNCHANGED <<settings, phase, tools, cameUp, trouble>>
    BY <1>2 DEF Expire
  <2>2. TokensOK' /\ EnvStays /\ FilesStay
    <3>1. \A p \in Path :
              /\ tokenFile'[p] \in Token /\ ~tokenFile'[p].fresh
              /\ tokenFile'[p].refreshable = tokenFile[p].refreshable
              /\ tokenFile'[p].torn = tokenFile[p].torn
      BY <1>1, <2>1
    <3>2. tokenFile' \in [Path -> Token]
      BY <2>1, <3>1
    <3>3. envToken' \in Token /\ envToken'.refreshable = envToken.refreshable
      BY <1>1, <2>1
    <3> QED
      BY <3>1, <3>2, <3>3 DEF TokensOK, EnvStays, FilesStay, OnFile, FilesRefresh
  <2> QED
    BY <2>1, <2>2, TokensChange
<1>3. CASE Revoke
  <2>1. /\ envToken' = [envToken EXCEPT !.grant = {}]
        /\ tokenFile' = [p \in Path |-> [tokenFile[p] EXCEPT !.grant = {}]]
        /\ UNCHANGED <<settings, phase, tools, cameUp>> /\ trouble' = TRUE
    BY <1>3 DEF Revoke
  <2>2. TokensOK' /\ EnvStays
    BY <1>1, <2>1 DEF TokensOK, EnvStays, FilesRefresh
  <2> QED
    BY <2>1, <2>2, TokensChange
<1>4. ASSUME NEW path \in Path, DeleteTokenFile(path)
      PROVE  AnyScripts'
  <2>1. /\ tokenFile' = [tokenFile EXCEPT ![path] = NoToken] /\ envToken' = envToken
        /\ UNCHANGED <<settings, phase, tools, cameUp>> /\ trouble' = TRUE
    BY <1>4 DEF DeleteTokenFile
  <2>2. TokensOK' /\ EnvStays
    BY <2>1, NoTokenType DEF TokensOK, EnvStays, FilesRefresh
  <2> QED
    BY <2>1, <2>2, TokensChange
<1> QED
  BY <1>2, <1>3, <1>4

LEMMA NextKeepsAnyScripts ==
    ASSUME AnyScripts, [Next]_vars
    PROVE  AnyScripts'
<1>1. CASE UNCHANGED vars
  BY <1>1 DEF vars, tokens, AnyScripts, TypeOK, BuiltSoFar, BuiltTools, SettingsAreGood, EnvStays,
     FilesRefresh, FailedWhy, OnFile, NeedsDrive
<1> QED
  BY <1>1, BootKeeps, GmailAndCalendarKeeps, ResolveKeeps, ExcelKeeps, NamedExcelKeeps, DriveKeeps,
     SalesforceKeeps, JiraKeeps, StopKeeps, StopWhileSavingKeeps, ScriptKeeps, AroundKeeps DEF Next

LEMMA ConsentedIs ==
    ASSUME NEW scopes \in SUBSET Scope
    PROVE  /\ Consented(scopes) \in Token
           /\ Consented(scopes).fresh /\ Consented(scopes).refreshable
           /\ Consented(scopes).access = scopes /\ Consented(scopes).grant = scopes
BY DEF Consented, Token

LEMMA InitTokens ==
    ASSUME Init
    PROVE  TokensOK
<1>1. ASSUME NEW p \in Path
      PROVE  tokenFile[p] \in Token /\ (tokenFile[p].fresh => tokenFile[p].refreshable)
  <2>1. tokenFile[p] \in {NoToken, Consented({"gmail", "calendar"}), Consented({"drive"})}
    BY DEF Init
  <2>2. {"gmail", "calendar"} \in SUBSET Scope /\ {"drive"} \in SUBSET Scope
    BY DEF Scope
  <2> QED
    BY <2>1, <2>2, ConsentedIs, NoTokenType
<1>2. tokenFile \in [Path -> Token] /\ envToken \in Token
  BY <1>1, StartupAssumption DEF Init
<1> QED
  BY <1>1, <1>2 DEF TokensOK, EnvStays, FilesRefresh

LEMMA InitAnyScripts == Init => AnyScripts
BY InitTokens, StartupAssumption
   DEF Init, AnyScripts, TypeOK, TokensOK, EnvStays, BuiltSoFar, BuiltTools, SettingsAreGood, EnvStays, FailedWhy, OnFile,
       PastGoogle, PastExcel, PastDrive, PastSalesforce

-----------------------------------------------------------------------------
(***************************************************************************)
(* What holds as long as the server and the workbook demo use the tokens   *)
(***************************************************************************)

All == AnyScripts /\ ServerAndWorkbook

LEMMA PathScopes ==
    /\ "default" \in Path /\ "drive" \in Path
    /\ \A p \in Path : ScopesAt(p) \in SUBSET Scope
    /\ ScopesAt("default") = Mailbox /\ ScopesAt("drive") = {"drive"}
    /\ Mailbox = {"gmail", "calendar"}
BY DEF Path, ScopesAt, Mailbox, Scope

\* A token file that is in use and cannot be read.
Unread(path) == settings.tokenJson = "unset" /\ tokenFile[path].torn

\* What a load for the scopes of its file leaves, and why it fails on a
\* server that was up.
LEMMA OwnLoad ==
    ASSUME All, NEW path \in Path, NEW r \in LoadCredentials(ScopesAt(path), path),
           Saved(path, r), UNCHANGED <<settings, envToken>>, trouble => trouble'
    PROVE  /\ TokensCover' /\ GrantsLast'
           /\ FilesStay
           /\ r.error = "none" /\ settings.tokenJson = "unset" =>
                  OnFile(path)' /\ (~trouble => ScopesAt(path) \subseteq r.token.grant)
           /\ r.error = "none" /\ (settings.tokenJson = "unset" \/ path = "default") =>
                  ScopesAt(path) \subseteq r.token.access
           /\ (EnvReadable /\ ~trouble /\ r.error \notin Outside \cup {"none"}
               /\ (settings.tokenJson = "unset" \/ path = "default")) =>
                  Unread(path)' \/ (NothingCached(path) /\ (r.error = "RuntimeError" <=> ~settings.client))
<1> DEFINE scopes == ScopesAt(path)
<1> /\ TypeOK /\ FilesRefresh /\ TokensCover /\ GrantsLast /\ scopes \in SUBSET Scope
    /\ tokenFile \in [Path -> Token] /\ envToken \in Token
  BY PathScopes DEF All, AnyScripts, ServerAndWorkbook, TypeOK
<1> settings.tokenJson \in {"unset", "set", "malformed"}
  BY SettingType DEF Setting
<1>1. /\ tokenFile' \in [Path -> Token]
      /\ \A p \in Path : p # path => tokenFile'[p] = tokenFile[p]
      /\ OnFile(path) => OnFile(path)'
      /\ tokenFile[path].torn => r.error = "none" \/ tokenFile'[path].torn
      /\ r.error = "none" /\ settings.tokenJson = "unset" =>
             tokenFile'[path].refreshable /\ tokenFile'[path] = r.token
      /\ \/ tokenFile'[path] = tokenFile[path]
         \/ /\ tokenFile'[path].access = scopes
            /\ \/ tokenFile'[path].grant = scopes
               \/ tokenFile'[path].grant = tokenFile[path].grant /\ tokenFile[path].refreshable
  BY FileAfterLoad
<1>2. Loaded(r, scopes, path)
  BY LoadIs
<1> HIDE DEF scopes
<1>3. TokensCover'
  BY <1>1 DEF TokensCover, scopes
<1>4. GrantsLast'
  BY <1>1 DEF GrantsLast, scopes
<1>5. ASSUME settings.tokenJson = "unset" \/ (path = "default" /\ settings.tokenJson = "set")
      PROVE  /\ Cached(path).fresh => scopes \subseteq Cached(path).access
             /\ ~trouble /\ Cached(path).refreshable => scopes \subseteq Cached(path).grant
  BY <1>5, PathScopes DEF Cached, TokensCover, GrantsLast, scopes
<1>6. ASSUME r.error = "none", settings.tokenJson = "unset" \/ path = "default"
      PROVE  scopes \subseteq r.token.access
  <2>1. settings.tokenJson # "malformed"
    BY <1>2, <1>6 DEF Loaded, Unreadable
  <2>2. AsCached(r, path) \/ r.token.access = scopes
    BY <1>2, <1>6, LoadedToken
  <2> QED
    BY <1>5, <1>6, <2>1, <2>2 DEF AsCached
<1>7. ASSUME EnvReadable, ~trouble, r.error \notin Outside \cup {"none"},
             settings.tokenJson = "unset" \/ path = "default"
      PROVE  Unread(path)' \/ (NothingCached(path) /\ (r.error = "RuntimeError" <=> ~settings.client))
  <2>1. Unreadable(path) => settings.tokenJson = "unset" /\ tokenFile[path].torn
    BY <1>7 DEF Unreadable, EnvReadable
  <2>2. Unreadable(path) => Unread(path)'
    BY <1>1, <1>7, <2>1 DEF Unread
  <2>3. Unreadable(path) \/ (NothingCached(path) /\ (r.error = "RuntimeError" <=> ~settings.client))
    BY <1>2, <1>5, <1>7 DEF Loaded, Outside, EnvReadable
  <2> QED
    BY <2>2, <2>3
<1>8. FilesStay
  BY <1>1 DEF FilesStay, OnFile
<1>9. ASSUME r.error = "none", settings.tokenJson = "unset"
      PROVE  OnFile(path)' /\ (~trouble => scopes \subseteq r.token.grant)
  <2>1. OnFile(path)' /\ tokenFile'[path].refreshable /\ tokenFile'[path] = r.token
    BY <1>1, <1>9 DEF OnFile
  <2>2. ~trouble => ScopesAt(path) \subseteq tokenFile'[path].grant
    BY <1>1, <2>1 DEF GrantsLast, scopes
  <2> QED
    BY <2>1, <2>2 DEF scopes
<1> QED
  BY <1>1, <1>3, <1>4, <1>6, <1>7, <1>8, <1>9 DEF scopes

\* A start that fails, on a server that had not been up or with something
\* wrong outside it.
LEMMA FailCovers ==
    ASSUME All, NEW error, Fail(error), TokensCover', GrantsLast',
           FilesStay,
           cameUp => \/ error \in Outside \/ trouble
                     \/ settings.tokenJson = "set" /\ NeedsDrive
                     \/ \E p \in Path : Unread(p)'
    PROVE  ServerAndWorkbook'
<1>1. /\ settings' = settings /\ tools' = tools /\ cameUp' = cameUp /\ phase' = "failed"
      /\ trouble' = (trouble \/ error \in Outside)
  BY DEF Fail
<1> TokensLast /\ ToolsCovered
  BY DEF All, ServerAndWorkbook
<1>2. ToolsCovered'
  BY <1>1 DEF ToolsCovered, CredentialsCoverScopes
<1>3. TokensLast'
  BY <1>1, PathScopes DEF TokensLast, FilesStay, NeedsDrive, PastExcel, PastDrive, PastGoogle
<1>4. RestartsComeUp'
  BY <1>1 DEF RestartsComeUp, NeedsDrive, Unread
<1> QED
  BY <1>2, <1>3, <1>4 DEF ServerAndWorkbook

\* A step that adds covered connectors.
LEMMA BuiltCovers ==
    ASSUME All, NEW new, NEW next, Built(new, next), next # "failed", TokensCover', GrantsLast',
           TokensLast',
           \A t \in new :
               settings.tokenJson = "unset" \/ t.needs # {"drive"} => t.needs \subseteq t.access
    PROVE  ServerAndWorkbook'
<1>1. /\ settings' = settings /\ tools' = tools \cup new /\ cameUp' = cameUp /\ phase' = next
      /\ trouble' = trouble
  BY DEF Built
<1>2. ToolsCovered'
  BY <1>1 DEF All, ServerAndWorkbook, ToolsCovered, CredentialsCoverScopes
<1>3. RestartsComeUp'
  BY <1>1 DEF RestartsComeUp
<1> QED
  BY <1>2, <1>3 DEF ServerAndWorkbook

\* Token files that do not change.
LEMMA SameTokens ==
    ASSUME All, UNCHANGED tokens, trouble => trouble'
    PROVE  /\ TokensCover' /\ GrantsLast'
           /\ FilesStay
BY DEF All, ServerAndWorkbook, tokens, TokensCover, GrantsLast, FilesStay, OnFile

LEMMA ToolNeeds ==
    ASSUME NEW name, NEW needs, NEW k
    PROVE  Tool(name, needs, k).needs = needs /\ Tool(name, needs, k).access = k.access
BY DEF Tool

LEMMA BootCovers == All /\ Boot => ServerAndWorkbook'
<1> SUFFICES ASSUME All, Boot PROVE ServerAndWorkbook'
  OBVIOUS
<1>1. CASE settings.database /\ settings.keys # "malformed" /\ Built({}, "google")
  <2>1. UNCHANGED tokens /\ trouble' = trouble /\ settings' = settings /\ cameUp' = cameUp
        /\ phase' = "google"
    BY <1>1 DEF Boot, Built
  <2>2. TokensCover' /\ GrantsLast'
    BY <2>1, SameTokens
  <2>3. TokensLast'
    BY <2>1 DEF All, ServerAndWorkbook, TokensLast, OnFile, tokens, NeedsDrive, PastExcel, PastDrive,
       PastGoogle
  <2> QED
    BY <1>1, <2>2, <2>3, BuiltCovers
<1>2. ASSUME NEW error, Fail(error),
             error \in Outside \/ ~settings.database \/ settings.keys = "malformed"
      PROVE  ServerAndWorkbook'
  <2>1. UNCHANGED tokens /\ (trouble => trouble')
    BY <1>2 DEF Boot, Fail
  <2>2. /\ TokensCover' /\ GrantsLast'
        /\ FilesStay
    BY <2>1, SameTokens
  <2>3. cameUp => settings.database /\ settings.keys # "malformed"
    BY DEF All, AnyScripts, SettingsAreGood, EnvStays
  <2> QED
    BY <1>2, <2>2, <2>3, FailCovers
<1>3. ~settings.database /\ Fail("RuntimeError") => ServerAndWorkbook'
  BY <1>2
<1>4. settings.keys = "malformed" /\ Fail("ValueError") => ServerAndWorkbook'
  BY <1>2
<1>5. ASSUME NEW f \in Faults \cap {"network"}, Fail(f)
      PROVE  ServerAndWorkbook'
  BY <1>2, <1>5 DEF Outside
<1> QED
  BY <1>1, <1>3, <1>4, <1>5 DEF Boot

LEMMA GmailAndCalendarCovers == All /\ BuildGmailAndCalendar => ServerAndWorkbook'
<1> SUFFICES ASSUME All, BuildGmailAndCalendar PROVE ServerAndWorkbook'
  OBVIOUS
<1>1. PICK r \in LoadCredentials(ScopesAt("default"), "default") :
          /\ Saved("default", r)
          /\ \/ /\ r.error = "none"
                /\ Built({Tool("gmail", {"gmail"}, r.token),
                          Tool("google_calendar", {"calendar"}, r.token)}, "excel")
             \/ r.error = "RuntimeError" /\ Built({}, "excel")
             \/ r.error \notin {"none", "RuntimeError"} /\ Fail(r.error)
  BY PathScopes DEF BuildGmailAndCalendar
<1>2. UNCHANGED <<settings, envToken>> /\ (trouble => trouble')
  <2>1. envToken' = envToken
    BY DEF BuildGmailAndCalendar
  <2>2. ASSUME NEW new, Built(new, "excel")
        PROVE  settings' = settings /\ (trouble => trouble')
    BY <2>2 DEF Built
  <2>3. ASSUME Fail(r.error)
        PROVE  settings' = settings /\ (trouble => trouble')
    BY <2>3 DEF Fail
  <2> QED
    BY <1>1, <2>1, <2>2, <2>3
<1>3. /\ TokensCover' /\ GrantsLast'
      /\ FilesStay
      /\ r.error = "none" /\ settings.tokenJson = "unset" => OnFile("default")'
      /\ r.error = "none" => Mailbox \subseteq r.token.access
      /\ EnvReadable /\ ~trouble /\ r.error \notin Outside \cup {"none"} =>
             \/ Unread("default")'
             \/ NothingCached("default") /\ (r.error = "RuntimeError" <=> ~settings.client)
  BY <1>1, <1>2, OwnLoad, PathScopes
<1>4. ASSUME NEW new, Built(new, "excel"), r.error \in {"none", "RuntimeError"}
      PROVE  TokensLast'
  <2>1. UNCHANGED <<settings, cameUp, trouble>> /\ phase' = "excel"
    BY <1>4 DEF Built
  <2>2. ~trouble /\ settings.tokenJson = "unset" /\ settings.client => OnFile("default")'
    BY <1>2, <1>3, <1>4 DEF Outside, EnvReadable, Unread, OnFile
  <2> QED
    BY <1>3, <2>1, <2>2, PathScopes DEF All, ServerAndWorkbook, TokensLast, FilesStay, NeedsDrive,
       PastExcel, PastDrive, PastGoogle
<1>5. CASE r.error = "none" /\ Built({Tool("gmail", {"gmail"}, r.token),
                                     Tool("google_calendar", {"calendar"}, r.token)}, "excel")
  <2> DEFINE a == Tool("gmail", {"gmail"}, r.token)
             b == Tool("google_calendar", {"calendar"}, r.token)
  <2>1. a.needs \subseteq a.access /\ b.needs \subseteq b.access
    BY <1>3, <1>5, ToolNeeds, PathScopes
  <2>2. Built({a, b}, "excel")
    BY <1>5
  <2> HIDE DEF a, b
  <2>3. TokensLast'
    BY <1>4, <1>5, <2>2
  <2> QED
    BY <1>3, <2>1, <2>2, <2>3, BuiltCovers
<1>6. CASE r.error = "RuntimeError" /\ Built({}, "excel")
  <2>1. TokensLast'
    BY <1>4, <1>6
  <2> QED
    BY <1>3, <1>6, <2>1, BuiltCovers
<1>7. CASE r.error \notin {"none", "RuntimeError"} /\ Fail(r.error)
  <2>1. cameUp => EnvReadable
    BY DEF All, AnyScripts, SettingsAreGood, EnvReadable
  <2>2. ASSUME cameUp, ~trouble, settings.client
        PROVE  ~NothingCached("default")
    BY <2>2 DEF All, ServerAndWorkbook, TokensLast, NothingCached, Cached, OnFile
  <2>3. cameUp => r.error \in Outside \/ trouble \/ \E p \in Path : Unread(p)'
    BY <1>3, <1>7, <2>1, <2>2, PathScopes
  <2> QED
    BY <1>3, <1>7, <2>3, FailCovers
<1> QED
  BY <1>1, <1>5, <1>6, <1>7

\* A load for Drive, of a server that needs it.
LEMMA LoadForDrive ==
    ASSUME All, NeedsDrive, NEW r \in LoadCredentials({"drive"}, "drive"), Saved("drive", r),
           UNCHANGED <<settings, envToken>>, trouble => trouble'
    PROVE  /\ TokensCover' /\ GrantsLast' /\ FilesStay
           /\ r.error = "none" /\ settings.tokenJson = "unset" =>
                  /\ OnFile("drive")' /\ {"drive"} \subseteq r.token.access
                  /\ ~trouble => {"drive"} \subseteq r.token.grant
           /\ cameUp /\ r.error # "none" =>
                  \/ r.error \in Outside \/ trouble
                  \/ settings.tokenJson = "set" /\ NeedsDrive
                  \/ \E p \in Path : Unread(p)'
<1>1. /\ TokensCover' /\ GrantsLast' /\ FilesStay
      /\ r.error = "none" /\ settings.tokenJson = "unset" =>
             /\ OnFile("drive")' /\ {"drive"} \subseteq r.token.access
             /\ ~trouble => {"drive"} \subseteq r.token.grant
      /\ EnvReadable /\ ~trouble /\ r.error \notin Outside \cup {"none"}
         /\ settings.tokenJson = "unset" => Unread("drive")' \/ NothingCached("drive")
  BY OwnLoad, PathScopes
<1>2. cameUp => EnvReadable /\ settings.tokenJson \in {"unset", "set"}
  BY SettingType DEF All, AnyScripts, SettingsAreGood, EnvReadable, Setting
<1>3. ASSUME cameUp, ~trouble, settings.tokenJson = "unset"
      PROVE  ~NothingCached("drive")
  BY <1>3 DEF All, ServerAndWorkbook, TokensLast, NothingCached, Cached, OnFile
<1> QED
  BY <1>1, <1>2, <1>3, PathScopes

\* A connector on Drive: its load is for the scopes of its own token file.
LEMMA OnDriveCovers ==
    ASSUME All, NeedsDrive, phase \in PastGoogle, NEW name, NEW next \in PastExcel \ {"up"},
           BuildOnDrive(name, next)
    PROVE  ServerAndWorkbook'
<1>1. PICK r \in LoadCredentials({"drive"}, "drive") :
          /\ \/ r.error = "none" /\ Built({Tool(name, {"drive"}, r.token)}, next)
             \/ r.error # "none" /\ Fail(r.error)
          /\ Saved("drive", r)
          /\ UNCHANGED envToken
  BY DEF BuildOnDrive, DriveTokenPath
<1>2. UNCHANGED <<settings, envToken>> /\ (trouble => trouble')
  <2>1. ASSUME NEW new, Built(new, next)
        PROVE  settings' = settings /\ (trouble => trouble')
    BY <2>1 DEF Built
  <2>2. ASSUME Fail(r.error)
        PROVE  settings' = settings /\ (trouble => trouble')
    BY <2>2 DEF Fail
  <2> QED
    BY <1>1, <2>1, <2>2
<1>3. /\ TokensCover' /\ GrantsLast' /\ FilesStay
      /\ r.error = "none" /\ settings.tokenJson = "unset" =>
             OnFile("drive")' /\ {"drive"} \subseteq r.token.access
      /\ cameUp /\ r.error # "none" =>
             \/ r.error \in Outside \/ trouble
             \/ settings.tokenJson = "set" /\ NeedsDrive
             \/ \E p \in Path : Unread(p)'
  BY <1>1, <1>2, LoadForDrive
<1>4. CASE r.error = "none" /\ Built({Tool(name, {"drive"}, r.token)}, next)
  <2> DEFINE t == Tool(name, {"drive"}, r.token)
  <2>1. settings.tokenJson = "unset" \/ t.needs # {"drive"} => t.needs \subseteq t.access
    BY <1>3, <1>4, ToolNeeds
  <2>2. Built({t}, next) /\ next # "failed"
    BY <1>4 DEF PastExcel
  <2> HIDE DEF t
  <2>3. UNCHANGED <<settings, cameUp, trouble>> /\ phase' = next
    BY <2>2 DEF Built
  <2>4. TokensLast'
    BY <1>3, <1>4, <2>3, PathScopes DEF All, ServerAndWorkbook, TokensLast, FilesStay
  <2> QED
    BY <1>3, <2>1, <2>2, <2>4, BuiltCovers
<1>5. CASE r.error # "none" /\ Fail(r.error)
  BY <1>3, <1>5, FailCovers
<1> QED
  BY <1>1, <1>4, <1>5

LEMMA ResolveCovers == All /\ ResolveWorkbook => ServerAndWorkbook'
<1> SUFFICES ASSUME All, ResolveWorkbook PROVE ServerAndWorkbook'
  OBVIOUS
<1>1. phase = "excel" /\ settings.excel = "name" /\ NeedsDrive
  BY DEF ResolveWorkbook, NeedsDrive
<1>2. PICK r \in LoadCredentials({"drive"}, "drive") :
          /\ \/ r.error # "none" /\ Fail(r.error)
             \/ r.error = "none" /\ "drive" \notin r.token.access \cap r.token.grant /\ Fail("HttpError")
             \/ r.error = "none" /\ "drive" \in r.token.access \cap r.token.grant /\ Built({}, "named")
             \/ r.error = "none" /\ \E f \in Faults \cap {"network", "name"} : Fail(f)
          /\ Saved("drive", r)
          /\ UNCHANGED envToken
  BY DEF ResolveWorkbook, DriveTokenPath
<1>3. UNCHANGED <<settings, envToken>> /\ (trouble => trouble')
  <2>1. ASSUME Built({}, "named")
        PROVE  settings' = settings /\ (trouble => trouble')
    BY <2>1 DEF Built
  <2>2. ASSUME NEW error, Fail(error)
        PROVE  settings' = settings /\ (trouble => trouble')
    BY <2>2 DEF Fail
  <2> QED
    BY <1>2, <2>1, <2>2
<1>4. /\ TokensCover' /\ GrantsLast' /\ FilesStay
      /\ r.error = "none" /\ settings.tokenJson = "unset" =>
             /\ OnFile("drive")' /\ {"drive"} \subseteq r.token.access
             /\ ~trouble => {"drive"} \subseteq r.token.grant
      /\ cameUp /\ r.error # "none" =>
             \/ r.error \in Outside \/ trouble
             \/ settings.tokenJson = "set" /\ NeedsDrive
             \/ \E p \in Path : Unread(p)'
  BY <1>1, <1>2, <1>3, LoadForDrive
<1>5. cameUp => settings.tokenJson \in {"unset", "set"}
  BY SettingType DEF All, AnyScripts, SettingsAreGood, Setting
<1>6. CASE r.error # "none" /\ Fail(r.error)
  BY <1>4, <1>6, FailCovers
<1>7. CASE r.error = "none" /\ "drive" \notin r.token.access \cap r.token.grant /\ Fail("HttpError")
  <2>1. cameUp => trouble \/ (settings.tokenJson = "set" /\ NeedsDrive)
    BY <1>1, <1>4, <1>5, <1>7
  <2> QED
    BY <1>4, <1>7, <2>1, FailCovers
<1>8. CASE Built({}, "named")
  <2>1. UNCHANGED <<settings, cameUp, trouble>> /\ phase' = "named"
    BY <1>8 DEF Built
  <2>2. TokensLast'
    BY <1>1, <1>4, <2>1, PathScopes DEF All, ServerAndWorkbook, TokensLast, FilesStay, NeedsDrive,
       PastExcel, PastDrive, PastGoogle
  <2> QED
    BY <1>4, <1>8, <2>2, BuiltCovers
<1>9. ASSUME NEW f \in Faults \cap {"network", "name"}, Fail(f)
      PROVE  ServerAndWorkbook'
  BY <1>4, <1>9, FailCovers DEF Outside
<1> QED
  BY <1>2, <1>6, <1>7, <1>8, <1>9

\* A connector that is not on Drive, or none, and the token files as they are.
LEMMA OthersCover ==
    ASSUME All, UNCHANGED tokens, NEW new, NEW next, Built(new, next),
           \A t \in new : t.needs = {},
           \/ phase = "excel" /\ next = "drive" /\ settings.excel \notin {"id", "name"}
           \/ phase = "drive" /\ next = "salesforce" /\ ~settings.folder
           \/ phase = "salesforce" /\ next = "jira"
    PROVE  ServerAndWorkbook'
<1>1. UNCHANGED <<settings, cameUp, trouble>> /\ phase' = next /\ next # "failed"
  BY DEF Built
<1>2. TokensCover' /\ GrantsLast'
  BY <1>1, SameTokens
<1>3. TokensLast'
  BY <1>1 DEF All, ServerAndWorkbook, TokensLast, OnFile, tokens, NeedsDrive, PastExcel, PastDrive,
     PastGoogle
<1> QED
  BY <1>1, <1>2, <1>3, BuiltCovers

\* A failure that the settings of a server that was up exclude, or that comes
\* from outside.
LEMMA OtherFailures ==
    ASSUME All, UNCHANGED tokens, NEW error, Fail(error),
           error \in Outside \/ settings.excel = "both"
    PROVE  ServerAndWorkbook'
<1>1. trouble => trouble'
  BY DEF Fail
<1>2. cameUp => settings.excel # "both"
  BY DEF All, AnyScripts, SettingsAreGood, EnvStays
<1> QED
  BY <1>1, <1>2, SameTokens, FailCovers

LEMMA NoNeeds ==
    ASSUME NEW name, NEW k
    PROVE  \A t \in {Tool(name, {}, k)} : t.needs = {}
BY DEF Tool

LEMMA ExcelCovers == All /\ BuildExcel => ServerAndWorkbook'
<1> SUFFICES ASSUME All, BuildExcel PROVE ServerAndWorkbook'
  OBVIOUS
<1>1. CASE settings.excel = "none" /\ Built({}, "drive") /\ UNCHANGED tokens
  BY <1>1, OthersCover DEF BuildExcel
<1>2. CASE settings.excel = "both" /\ Fail("ValueError") /\ UNCHANGED tokens
  BY <1>2, OtherFailures
<1>3. CASE /\ settings.excel = "path"
           /\ Built({Tool("excel_file", {}, NoToken)}, "drive")
           /\ UNCHANGED tokens
  BY <1>3, OthersCover, NoNeeds DEF BuildExcel
<1>4. CASE settings.excel = "id" /\ BuildOnDrive("excel_file", "drive")
  BY <1>4, OnDriveCovers DEF BuildExcel, NeedsDrive, PastGoogle, PastExcel
<1> QED
  BY <1>1, <1>2, <1>3, <1>4 DEF BuildExcel

LEMMA NamedExcelCovers == All /\ BuildNamedExcel => ServerAndWorkbook'
<1> SUFFICES ASSUME All, BuildNamedExcel PROVE ServerAndWorkbook'
  OBVIOUS
<1>1. phase = "named" /\ BuildOnDrive("excel_file", "drive")
  BY DEF BuildNamedExcel
<1>2. settings.excel = "name"
  BY <1>1 DEF All, AnyScripts, SettingsAreGood
<1> QED
  BY <1>1, <1>2, OnDriveCovers DEF NeedsDrive, PastGoogle, PastExcel

LEMMA DriveCovers == All /\ BuildDrive => ServerAndWorkbook'
<1> SUFFICES ASSUME All, BuildDrive PROVE ServerAndWorkbook'
  OBVIOUS
<1>1. CASE ~settings.folder /\ Built({}, "salesforce") /\ UNCHANGED tokens
  BY <1>1, OthersCover DEF BuildDrive
<1>2. CASE settings.folder /\ BuildOnDrive("drive", "salesforce")
  BY <1>2, OnDriveCovers DEF BuildDrive, NeedsDrive, PastGoogle, PastExcel
<1> QED
  BY <1>1, <1>2 DEF BuildDrive

LEMMA SalesforceCovers == All /\ BuildSalesforce => ServerAndWorkbook'
<1> SUFFICES ASSUME All, BuildSalesforce PROVE ServerAndWorkbook'
  OBVIOUS
<1> phase = "salesforce" /\ UNCHANGED tokens
  BY DEF BuildSalesforce
<1>1. Built({}, "jira") => ServerAndWorkbook'
  BY OthersCover
<1>2. Built({Tool("salesforce", {}, NoToken)}, "jira") => ServerAndWorkbook'
  BY OthersCover, NoNeeds
<1>3. ASSUME NEW f \in Faults \cap {"network"}, Fail(f)
      PROVE  ServerAndWorkbook'
  BY <1>3, OtherFailures DEF Outside
<1> QED
  BY <1>1, <1>2, <1>3 DEF BuildSalesforce

LEMMA JiraCovers == All /\ BuildJira => ServerAndWorkbook'
<1> SUFFICES ASSUME All, BuildJira PROVE ServerAndWorkbook'
  OBVIOUS
<1>1. /\ UNCHANGED <<settings, tokens, trouble>>
      /\ phase = "jira" /\ phase' = "up" /\ cameUp' = TRUE
      /\ tools' = tools \cup (IF settings.jira THEN {Tool("jira", {}, NoToken)} ELSE {})
  BY DEF BuildJira
<1>2. TokensCover' /\ GrantsLast'
  BY <1>1, SameTokens
<1>3. TokensLast'
  BY <1>1 DEF All, ServerAndWorkbook, TokensLast, OnFile, tokens, NeedsDrive, PastExcel, PastDrive,
     PastGoogle
<1>4. ToolsCovered'
  <2>1. \A t \in tools' : t \in tools \/ t.needs = {}
    BY <1>1, NoNeeds
  <2> QED
    BY <1>1, <2>1 DEF All, ServerAndWorkbook, ToolsCovered, CredentialsCoverScopes
<1>5. RestartsComeUp'
  BY <1>1 DEF RestartsComeUp
<1> QED
  BY <1>2, <1>3, <1>4, <1>5 DEF ServerAndWorkbook

LEMMA StopCovers == All /\ Stop => ServerAndWorkbook'
<1> SUFFICES ASSUME All, Stop PROVE ServerAndWorkbook'
  OBVIOUS
<1>1. /\ UNCHANGED <<settings, tokens, cameUp, trouble>>
      /\ phase' = "down" /\ tools' = {}
  BY DEF Stop
<1>2. TokensCover' /\ GrantsLast'
  BY <1>1, SameTokens
<1>3. TokensLast'
  BY <1>1 DEF All, ServerAndWorkbook, TokensLast, OnFile, tokens, NeedsDrive, PastExcel, PastDrive,
     PastGoogle
<1>4. ToolsCovered' /\ RestartsComeUp'
  BY <1>1 DEF ToolsCovered, CredentialsCoverScopes, RestartsComeUp
<1> QED
  BY <1>2, <1>3, <1>4 DEF ServerAndWorkbook

\* Nothing but the tokens changes.
LEMMA AroundCovers ==
    ASSUME All, UNCHANGED <<settings, phase, tools, cameUp>>, TokensCover', GrantsLast',
           trouble => trouble',
           trouble' \/ (FilesStay /\ \A p \in Path : tokenFile[p].torn => tokenFile'[p].torn)
    PROVE  ServerAndWorkbook'
<1>1. ToolsCovered' /\ RestartsComeUp'
  BY DEF All, ServerAndWorkbook, ToolsCovered, CredentialsCoverScopes, RestartsComeUp, NeedsDrive
<1>2. TokensLast'
  BY PathScopes DEF All, ServerAndWorkbook, TokensLast, FilesStay, NeedsDrive
<1> QED
  BY <1>1, <1>2 DEF ServerAndWorkbook

\* A file that is truncated is for no scopes.
LEMMA TruncatedCovers ==
    ASSUME All, NEW path \in Path, NEW scopes, DiesWhileSaving(scopes, path),
           UNCHANGED settings, trouble' = trouble
    PROVE  TokensCover' /\ GrantsLast' /\ FilesStay
<1>1. /\ FilesStay /\ envToken' = envToken
      /\ tokenFile' = [tokenFile EXCEPT ![path] = Truncated] /\ tokenFile \in [Path -> Token]
  BY TruncatedFile DEF All, AnyScripts, TypeOK
<1> QED
  BY <1>1, TruncatedIs DEF All, ServerAndWorkbook, TokensCover, GrantsLast

LEMMA StopWhileSavingCovers == All /\ StopWhileSaving => ServerAndWorkbook'
<1> SUFFICES ASSUME All, StopWhileSaving PROVE ServerAndWorkbook'
  OBVIOUS
<1>1. PICK path \in Path : \E scopes : DiesWhileSaving(scopes, path)
  BY DEF StopWhileSaving, Path, DriveTokenPath
<1>2. phase' = "down" /\ tools' = {} /\ UNCHANGED <<settings, cameUp, trouble>>
  BY DEF StopWhileSaving
<1>3. TokensCover' /\ GrantsLast' /\ FilesStay
  BY <1>1, <1>2, TruncatedCovers
<1>4. TokensLast'
  BY <1>2, <1>3, PathScopes DEF All, ServerAndWorkbook, TokensLast, FilesStay, NeedsDrive,
     PastExcel, PastDrive, PastGoogle
<1>5. ToolsCovered' /\ RestartsComeUp'
  BY <1>2 DEF ToolsCovered, CredentialsCoverScopes, RestartsComeUp
<1> QED
  BY <1>3, <1>4, <1>5 DEF ServerAndWorkbook

LEMMA ScriptCovers ==
    ASSUME All, Scripts \subseteq {"excel"}, NEW script \in Scripts, RunScript(script)
    PROVE  ServerAndWorkbook'
<1>1. PathOf(script) = "drive" /\ ScopesOf(script) = ScopesAt("drive")
  BY PathScopes DEF PathOf, ScopesOf, DriveTokenPath
<1>2. UNCHANGED <<settings, envToken, phase, tools, cameUp, trouble>>
  BY DEF RunScript
<1>3. /\ TokensCover' /\ GrantsLast' /\ FilesStay
      /\ \A p \in Path : tokenFile[p].torn => tokenFile'[p].torn
  <2>1. ASSUME NEW r \in LoadCredentials(ScopesAt("drive"), "drive"), Saved("drive", r)
        PROVE  /\ TokensCover' /\ GrantsLast' /\ FilesStay
               /\ \A p \in Path : tokenFile[p].torn => tokenFile'[p].torn
    <3>1. TokensCover' /\ GrantsLast' /\ FilesStay
      BY <1>2, <2>1, OwnLoad, PathScopes
    <3>2. \A p \in Path : tokenFile[p].torn => tokenFile'[p].torn
      BY <2>1, TornStays, PathScopes DEF All, AnyScripts
    <3> QED
      BY <3>1, <3>2
  <2>2. CASE DiesWhileSaving(ScopesAt("drive"), "drive")
    <3>1. TokensCover' /\ GrantsLast' /\ FilesStay
      BY <1>2, <2>2, TruncatedCovers, PathScopes
    <3>2. tokenFile' = [tokenFile EXCEPT !["drive"] = Truncated] /\ tokenFile \in [Path -> Token]
      BY <2>2, TruncatedFile, PathScopes DEF All, AnyScripts, TypeOK
    <3> QED
      BY <3>1, <3>2, TruncatedIs
  <2> QED
    BY <1>1, <2>1, <2>2 DEF RunScript
<1> QED
  BY <1>2, <1>3, AroundCovers

LEMMA EventsCover ==
    ASSUME All, Expire \/ Revoke \/ \E path \in Path : DeleteTokenFile(path)
    PROVE  ServerAndWorkbook'
<1> /\ envToken \in Token /\ tokenFile \in [Path -> Token]
    /\ FilesRefresh /\ TokensCover /\ GrantsLast
  BY DEF All, AnyScripts, TypeOK, ServerAndWorkbook
<1>1. ASSUME NEW k \in Token
      PROVE  /\ [k EXCEPT !.fresh = FALSE].refreshable = k.refreshable
             /\ [k EXCEPT !.fresh = FALSE].torn = k.torn
             /\ [k EXCEPT !.fresh = FALSE].access = k.access
             /\ [k EXCEPT !.fresh = FALSE].grant = k.grant
             /\ ~[k EXCEPT !.fresh = FALSE].fresh
             /\ [k EXCEPT !.grant = {}].fresh = k.fresh
             /\ [k EXCEPT !.grant = {}].access = k.access
  BY DEF Token
<1>2. CASE Expire
  <2>1. /\ envToken' = [envToken EXCEPT !.fresh = FALSE]
        /\ tokenFile' = [p \in Path |-> [tokenFile[p] EXCEPT !.fresh = FALSE]]
        /\ UNCHANGED <<settings, phase, tools, cameUp, trouble>>
    BY <1>2 DEF Expire
  <2>2. \A p \in Path : /\ tokenFile'[p].refreshable = tokenFile[p].refreshable
                       /\ tokenFile'[p].torn = tokenFile[p].torn
                       /\ tokenFile'[p].grant = tokenFile[p].grant
                       /\ ~tokenFile'[p].fresh
    BY <1>1, <2>1
  <2>3. envToken'.access = envToken.access /\ envToken'.grant = envToken.grant
    BY <1>1, <2>1
  <2>4. TokensCover'
    BY <2>2, <2>3 DEF TokensCover
  <2>5. GrantsLast'
    BY <2>1, <2>2, <2>3 DEF GrantsLast
  <2> QED
    BY <2>1, <2>2, <2>4, <2>5, AroundCovers DEF FilesStay, OnFile
<1>3. CASE Revoke
  <2>1. /\ envToken' = [envToken EXCEPT !.grant = {}]
        /\ tokenFile' = [p \in Path |-> [tokenFile[p] EXCEPT !.grant = {}]]
        /\ UNCHANGED <<settings, phase, tools, cameUp>> /\ trouble' = TRUE
    BY <1>3 DEF Revoke
  <2>2. TokensCover' /\ GrantsLast'
    BY <1>1, <2>1 DEF TokensCover, GrantsLast
  <2> QED
    BY <2>1, <2>2, AroundCovers
<1>4. ASSUME NEW path \in Path, DeleteTokenFile(path)
      PROVE  ServerAndWorkbook'
  <2>1. /\ tokenFile' = [tokenFile EXCEPT ![path] = NoToken] /\ envToken' = envToken
        /\ UNCHANGED <<settings, phase, tools, cameUp>> /\ trouble' = TRUE
    BY <1>4 DEF DeleteTokenFile
  <2>2. ~NoToken.fresh
    BY DEF NoToken
  <2>3. TokensCover' /\ GrantsLast'
    BY <2>1, <2>2 DEF TokensCover, GrantsLast
  <2> QED
    BY <2>1, <2>3, AroundCovers
<1> QED
  BY <1>2, <1>3, <1>4

LEMMA NextCovers ==
    ASSUME All, Scripts \subseteq {"excel"}, [Next]_vars
    PROVE  ServerAndWorkbook'
<1>1. CASE UNCHANGED vars
  <2>1. UNCHANGED <<settings, tokens, phase, tools, cameUp, trouble>>
    BY <1>1 DEF vars
  <2>2. tokenFile' = tokenFile
    BY <2>1 DEF tokens
  <2> QED
    BY <2>1, <2>2, SameTokens, AroundCovers
<1>2. ASSUME NEW script \in Scripts, RunScript(script)
      PROVE  ServerAndWorkbook'
  BY <1>2, ScriptCovers
<1> QED
  BY <1>1, <1>2, BootCovers, GmailAndCalendarCovers, ResolveCovers, ExcelCovers, NamedExcelCovers,
     DriveCovers, SalesforceCovers, JiraCovers, StopCovers, StopWhileSavingCovers, EventsCover
     DEF Next

LEMMA InitCovers == Init => ServerAndWorkbook
<1> SUFFICES ASSUME Init PROVE ServerAndWorkbook
  OBVIOUS
<1>1. ASSUME NEW p \in Path
      PROVE  /\ tokenFile[p].fresh => ScopesAt(p) \subseteq tokenFile[p].access
             /\ tokenFile[p].refreshable => ScopesAt(p) \subseteq tokenFile[p].grant
  <2>1. tokenFile[p] \in {NoToken, Consented(Mailbox), Consented({"drive"})}
    BY DEF Init, Mailbox
  <2>2. Mailbox \in SUBSET Scope /\ {"drive"} \in SUBSET Scope
    BY DEF Scope, Mailbox
  <2>3. ~NoToken.fresh /\ ~NoToken.refreshable /\ NoToken.grant = {}
    BY DEF NoToken
  <2>4. CASE tokenFile[p] = NoToken
    BY <2>3, <2>4
  <2>5. CASE tokenFile[p] = Consented(Mailbox)
    <3>1. tokenFile[p].access = Mailbox /\ tokenFile[p].grant = Mailbox
      BY <2>2, <2>5, ConsentedIs
    <3>2. p # "drive"
      BY <3>1 DEF Init, Mailbox
    <3> QED
      BY <3>1, <3>2, PathScopes DEF Path
  <2>6. CASE tokenFile[p] = Consented({"drive"})
    <3>1. tokenFile[p].access = {"drive"} /\ tokenFile[p].grant = {"drive"}
      BY <2>2, <2>6, ConsentedIs
    <3>2. p # "default"
      BY <3>1 DEF Init
    <3> QED
      BY <3>1, <3>2, PathScopes DEF Path
  <2> QED
    BY <2>1, <2>4, <2>5, <2>6
<1>2. Mailbox \subseteq envToken.access /\ Mailbox \subseteq envToken.grant
  BY StartupAssumption DEF Init, Mailbox
<1>3. TokensCover /\ GrantsLast
  BY <1>1, <1>2 DEF TokensCover, GrantsLast
<1>4. phase = "down" /\ ~cameUp /\ tools = {}
  BY DEF Init
<1>5. TokensLast /\ ToolsCovered /\ RestartsComeUp
  BY <1>4 DEF TokensLast, ToolsCovered, CredentialsCoverScopes, RestartsComeUp, PastExcel,
     PastDrive, PastGoogle
<1> QED
  BY <1>3, <1>5 DEF ServerAndWorkbook

-----------------------------------------------------------------------------
(***************************************************************************)
(* The theorems                                                            *)
(***************************************************************************)

\* The inductive invariant holds in every reachable state, whichever settings,
\* faults and scripts there are.
THEOREM InvariantHolds == Spec => []IInv
<1>1. Init => IInv
  BY InitAnyScripts, InitCovers DEF IInv, AnyScripts
<1>2. IInv /\ [Next]_vars => IInv'
  <2> SUFFICES ASSUME IInv, [Next]_vars PROVE IInv'
    OBVIOUS
  <2>1. AnyScripts
    BY DEF IInv, AnyScripts
  <2>2. AnyScripts'
    BY <2>1, NextKeepsAnyScripts
  <2>3. Scripts \subseteq {"excel"} => ServerAndWorkbook'
    BY <2>1, NextCovers DEF IInv, All
  <2> QED
    BY <2>2, <2>3 DEF IInv, AnyScripts
<1> QED
  BY <1>1, <1>2, PTL DEF Spec

\* Every variable keeps its type: above all, a connector in the dictionary is
\* a connector, never what a factory returned for "not configured".
THEOREM TypeCorrect == Spec => []TypeOK
<1>1. IInv => TypeOK
  BY DEF IInv
<1> QED
  BY <1>1, InvariantHolds, PTL

\* A server that is up has exactly the connectors its settings ask for, and
\* Gmail and Calendar together or not at all (get_tools).
THEOREM ConnectorsHold == Spec => []ConnectorsMatchSettings
<1>1. IInv => ConnectorsMatchSettings
  BY DEF IInv, BuiltSoFar, ConnectorsMatchSettings, PastExcel, PastDrive, PastSalesforce
<1> QED
  BY <1>1, InvariantHolds, PTL

\* A server without a Google account starts: only something outside it can
\* stop it (get_tools catches build_gmail_and_calendar_tools' RuntimeError).
THEOREM StartsHold == Spec => []StartsWithoutGoogle
<1>1. IInv => StartsWithoutGoogle
  <2> SUFFICES ASSUME IInv, NoGoogle, settings.database, settings.keys # "malformed",
                      settings.excel # "both", phase = "failed", ~trouble
               PROVE  FALSE
    BY DEF StartsWithoutGoogle, IInv, TypeOK
  <2>1. \A p \in Path : ~OnFile(p)
    BY DEF NoGoogle, NoToken, OnFile
  <2> QED
    BY <2>1 DEF IInv, FailedWhy, OnFile, NoGoogle
<1> QED
  BY <1>1, InvariantHolds, PTL

\* The credentials each Google connector was built with were issued for the
\* scopes it uses, when no demo script writes to the mailbox's token file
\* (load_credentials takes a token that is valid whatever it is for).
THEOREM CredentialsHold ==
    ASSUME Scripts \subseteq {"excel"}
    PROVE  Spec => []CredentialsCoverScopes
<1>1. IInv => CredentialsCoverScopes
  BY DEF IInv, ServerAndWorkbook, ToolsCovered
<1> QED
  BY <1>1, InvariantHolds, PTL

\* A server that was up comes up again after a restart, without anybody at a
\* browser, unless something went wrong outside it, GOOGLE_TOKEN_JSON has to
\* serve for Drive or a token file is truncated; again when no demo script writes the mailbox's token file.
THEOREM RestartsHold ==
    ASSUME Scripts \subseteq {"excel"}
    PROVE  Spec => []RestartsComeUp
<1>1. IInv => RestartsComeUp
  BY DEF IInv, ServerAndWorkbook
<1> QED
  BY <1>1, InvariantHolds, PTL
=============================================================================
