--------------------------- MODULE MCConsolePage ---------------------------
EXTENDS ConsolePage

CONSTANTS edited,     \* the account that other operators edit
          plain, other, padded \* cleaning turns padded into plain

MCClean == [w \in {Empty, plain, other, padded} |-> IF w = padded THEN plain ELSE w]

\* No group; one; two; one whose name is those two and a comma; one that repeats itself
\* after a comma.
MCLists ==
  LET name(w) == [text |-> w, inner |-> FALSE]
      rest(w) == [text |-> w, inner |-> TRUE]
  IN {<<>>, <<name(plain)>>, <<name(plain), name(other)>>,
      <<name(plain), rest(other)>>, <<name(plain), rest(padded)>>}

\* No role; one; one that is listed twice.
MCRoleMaps == {<<>>} \cup [{"client"} -> {<<plain>>, <<plain, plain>>}]

\* The operator moves over all the pages and registers clients, acts on accounts, fills
\* in forms, or edits an account while others change one field of it.  After the first
\* case only the directory is visited, and a page's requests are answered in turn.
VARIABLE scenario

MCInit ==
  /\ BrowserInit /\ scenario \in {"pages", "actions", "forms"} \cup Fields
  /\ hash.page = "users" /\ (scenario \in Fields => hash.user = edited)

InTurn ==
  \A l \in loads' : l.route.user # Nothing =>
    /\ l.need["user"] # "done" => l.need["credentials"] = "waiting"
    /\ l.need["credentials"] # "done" => l.need["identities"] = "waiting"

Directory == hash'.page = "users" /\ configuration' = configuration /\ InTurn

\* The kinds that differ in nothing but their name occur for one account.
SomeKinds(k, u) == k \in {"registerKey", "removeKey"} => u = edited

\* On its page, the operator types in the field that others change, or the name.
Edits ==
  /\ scenario \in Fields /\ BrowserNext
  /\ Directory /\ UNCHANGED <<prompt, totp>>
  /\ hash'.user = edited
  /\ form' # NoForm =>
       /\ form'.kind = "user" /\ form'.user = edited
       /\ form'.touched \subseteq {scenario, "name"}
       /\ scenario # "name" /\ "name" \in form'.touched => form'.values["name"] = plain
  /\ \A c \in calls' : c.kind = "user" /\ c.user = edited
  /\ \A u \in Users, f \in Fields :
       account'[u][f] # account[u][f] => u = edited /\ (f = scenario \/ calls' # calls)

MCNext ==
  /\ UNCHANGED scenario
  /\ \/ /\ scenario = "pages" /\ BrowserNext
        /\ UNCHANGED <<prompt, totp, account>>
        /\ form'.kind \in {Nothing, "client"} /\ \A c \in calls' : c.kind = "client"
     \/ /\ scenario = "actions" /\ (PageNext \/ ActionNext)
        /\ Directory /\ \A c \in calls' : SomeKinds(c.kind, c.user)
        /\ prompt'.pc # "closed" =>
             prompt'.kind \notin {"disable", "unlink"} /\ SomeKinds(prompt'.kind, prompt'.user)
     \/ /\ scenario = "forms" /\ BrowserNext
        /\ Directory /\ UNCHANGED <<prompt, totp, account>>
        /\ \A c \in calls' : c.kind \in Forms \ {"client"}
        /\ form'.kind = "user" => form'.user = Nothing
     \/ Edits

MCSpec == MCInit /\ [][MCNext]_<<browserVars, scenario>> /\ Fairness
============================================================================
