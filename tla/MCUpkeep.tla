------------------------------ MODULE MCUpkeep ------------------------------
(* Small instances of what an administrator's pages and the tasks that reach out *)
(* keep up: the mirror of a signed channel, the country database, the settings.  *)
(* The three share no state, so a behaviour is one of them at work.              *)
EXTENDS BundleMirror, CountryDatabase, Settings, TLC

VARIABLE part

partVars == <<vars, countryVars, settingsVars, part>>

MCLists == <<"a">>

MCFirst ==
    [r \in Rows |->
        CASE r = "cert" -> "own" [] r = "profile" -> "compatible" [] r = "ciphers" -> "1.2"
          [] r = "enabled" -> "1" [] OTHER -> "one"]

MCOther ==
    [r \in Rows |->
        CASE r = "cert" -> "default" [] r = "profile" -> "modern" [] r = "ciphers" -> "1.3"
          [] r = "enabled" -> "0" [] OTHER -> "two"]

\* Two forms that are saved, one of both kinds of suites, and one that is refused
\* at each of the checks.
MCForms ==
    {MCFirst, MCOther,
     [MCFirst EXCEPT !["host"] = "two", !["ciphers"] = "both"],
     [MCOther EXCEPT !["retention"] = "bad"],
     [MCOther EXCEPT !["ciphers"] = "1.2"],
     [MCFirst EXCEPT !["ciphers"] = "bad"],
     [MCOther EXCEPT !["cert"] = "gone"],
     [MCOther EXCEPT !["proxies"] = "bad"],
     [MCOther EXCEPT !["kb"] = "bad", !["cert"] = "own"],
     [MCOther EXCEPT !["enabled"] = "1", !["host"] = ""]}

Symmetry == Permutations(Installers) \cup Permutations(Admins) \cup Permutations(Hands)

Parts == {"mirror", "mirrors", "country", "countries", "settings"}

MCInit ==
    /\ part \in Parts
    /\ Init /\ CountryInit /\ SettingsInit
    /\ part \notin {"mirror", "mirrors"} => live = Absent
    /\ part # "country" => ~named
    /\ part \notin {"country", "countries"} => ~applies

\* One at a time, and all that may go wrong; or two at once, and nothing else.
OneMirror == ~overlapped'
TwoMirrors == faults' = 0 /\ crashes' = 0
OneCountry == ~crossed'
TwoCountries ==
    offers' <= 2 /\ published' <= 1 /\ uploads' = 0 /\ trips' = 0 /\ stops' = 0 /\ ~switched'

MCNext ==
    \/ part = "mirror" /\ Next /\ OneMirror /\ UNCHANGED <<countryVars, settingsVars>>
    \/ part = "mirrors" /\ Next /\ TwoMirrors /\ UNCHANGED <<countryVars, settingsVars>>
    \/ part = "country" /\ CountryNext /\ OneCountry /\ UNCHANGED <<vars, settingsVars>>
    \/ part = "countries" /\ CountryNext /\ TwoCountries /\ UNCHANGED <<vars, settingsVars>>
    \/ part = "settings" /\ SettingsNext /\ UNCHANGED <<vars, countryVars>>

MCSpec == MCInit /\ [][MCNext /\ UNCHANGED part]_partVars
=============================================================================
