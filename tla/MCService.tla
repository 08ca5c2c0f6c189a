----------------------------- MODULE MCService ------------------------------
EXTENDS Service, TLC

\* POST /entries: two corrections of one entry, work on an aircraft only an upload brings.
Post(writer, entry) == [op |-> "post", writer |-> writer, entry |-> entry]
Part == [kind |-> "register", of |-> "part"]
Work == [kind |-> "work", of |-> "new"]
Retract(n) == [kind |-> "retraction", of |-> n]

\* POST /ingest: over the limit within the allowance, over both, undeclared, unreadable.
Upload(size, declares, name) ==
    [op |-> "upload", writer |-> TRUE, aircraft |-> "new", size |-> size,
     declares |-> declares, log |-> name]

Sound ==
    {Post(TRUE, Part), Post(TRUE, Work), Post(TRUE, Retract(2)), Upload(1, TRUE, "log")}
Refusable ==
    {Post(FALSE, Part), Upload(2, TRUE, "log"), Upload(3, TRUE, "log"), Upload(3, FALSE, "log"),
     Upload(1, FALSE, "unreadable"), Upload(1, TRUE, "unsupported")}

CONSTANTS r1, r2
TwoRequests == r1 :> (Sound \cup Refusable \cup {[op |-> "list"]}) @@ r2 :> Sound

AnyCommand ==
    {[op |-> "seed"], [op |-> "record", entry |-> Part], [op |-> "record", entry |-> Work],
     [op |-> "record", entry |-> Retract(2)],
     [op |-> "ingest logs", aircraft |-> "new", logs |-> <<"unreadable", "log">>],
     [op |-> "ingest logs", aircraft |-> "new", logs |-> <<"log">>]}

=============================================================================
