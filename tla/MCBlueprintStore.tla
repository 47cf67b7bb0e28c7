---------------------------- MODULE MCBlueprintStore ----------------------------
(* A global template, and templates and blueprints of an organization.      *)
EXTENDS BlueprintStore, TLC

CONSTANTS base, dev, h1, h2, w1

\* Expressions: one that evaluates to a quantity, one that fails.
Texts == [x \in {"small", "broken"} |-> IF x = "small" THEN "1Gi" ELSE None]

Cpu     == <<"resources", "cpu">> :> Str("1")
Home(f) == <<"storages", "home", f>>
Child(t) == <<"template">> :> Str(t)
Disk(type) == Home("type") :> Str(type) @@ Home("enabled") :> Str("true")
Scripts(s) == <<"initScripts">> :> List(s)
Unlisted == <<"isTemplate">> :> Str("true")

Big == <<"resources", "cpu">> :> Str("2")

\* A template with a scratch disk and two scripts, one of them an expression.
BaseDoc == Unlisted @@ Cpu @@ Disk("emptyDir")
             @@ Scripts(<<Item("a", "cel", "small"), Script("b", "1")>>)
\* A child that limits the disk, overrides one script and adds one.
DevDoc == Child(base) @@ Home("sizeLimit") :> Cel("small")
            @@ Scripts(<<Script("b", "2"), Item("c", "cel", "small")>>)

\* Documents of clients: one of its own, DevDoc as an editor shows it with the
\* scripts in another order, which merges to the same list, one whose limit is
\* no quantity and which inherits the scripts, and a child of dev, which is
\* circular when it is stored as dev.
Submitted == {Cpu @@ Disk("local"),
              Child(base) @@ Home("sizeLimit") :> Shown("small")
                @@ Scripts(<<Item("c", "shown", "small"), Script("b", "2")>>),
              Child(base) @@ Home("sizeLimit") :> Str(Junk),
              Child(dev) @@ <<"env", "HOME">> :> Str("x")}
Repositories == {Child(base) @@ <<"env", "HOME">> :> Str("x")}

\* One document for every check, which it fails, and some that pass.
Plain == Cpu @@ Disk("memory")
Trial(q, leaf) == q :> leaf @@ Plain
Single == {
    Plain, Child(base), Disk("memory"),
    Trial(<<Junk>>, Str("1")),
    Trial(<<"storages", "home", Junk>>, Str("1")),
    Trial(Home("fsOwnerUid"), Str(Junk)),
    Trial(Home("fsOwnerGid"), Str("1000")),
    Trial(Home("fsOwnerGid"), Str(Fraction)),
    Trial(<<"network", "webProxy", "port">>, Str(Fraction)),
    Trial(<<"initScripts">>, List(<<Item("a", "cel", "broken")>>)),
    Trial(Home("type"), Str("nfs")),
    Trial(Home("sizeLimit"), Cel("small")),
    Trial(Home("sizeLimit"), Cel("broken")),
    Trial(<<"podman", "storages", "data", "type">>, Str("nfs")),
    Trial(<<"storages", "home", "claimSpec", Junk>>, Str("1")),
    Trial(<<"storages", "home", "claimSpec", "resources", "requests", "storage">>, Str("1Gi")),
    Trial(<<"storages", "home", "claimSpec", "resources", "limits", "disk">>, Str("1Gi")),
    Trial(<<"resources", "memory">>, Str(Junk)),
    Trial(<<"podman", "resources", "overcommit">>, Str("2")),
    Trial(<<"network", "webProxy", "port">>, Str(WorkspacePort)),
    Trial(<<"env", Junk>>, Str("x")),
    Trial(<<"k8shelld", "ignoreOrphans">>, List(<<Word(".*"), Word(Junk)>>)),
    Trial(<<"podman", "profile">>, Str(Junk)),
    Trial(<<"securityContext", Junk>>, Str("x")),
    Trial(<<"securityContext", "runAsUser">>, Str("1000")),
    Trial(<<"securityContext", "capabilities", "drop">>, List(<<Word("CHOWN")>>)),
    Trial(<<"podman", "securityContext", "capabilities", "drop">>, List(<<Word("CHOWN")>>)),
    Trial(<<"securityContext", "capabilities", "drop">>, List(<<Word("ALL")>>))
        @@ <<"securityContext", "capabilities", "add">> :> List(<<Word("SETUID"), Word("SETGID")>>)}

\* Files change the quantity, or the disk so that a limit is an error.
FileEdits == {Unlisted @@ Big @@ Disk("emptyDir"), Cpu @@ Disk("local")}

GlobalFiles == [n \in Names |-> IF n = base THEN BaseDoc ELSE None]
ChildRows   == [n \in Names |-> IF n = dev THEN DevDoc ELSE None]

HandlerSymmetry == Permutations(Handlers)

\* What the theorem on the round trip assumes of the documents.
ASSUME TidyDocuments == Tidy
=============================================================================
