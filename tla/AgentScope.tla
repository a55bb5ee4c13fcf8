------------------------------- MODULE AgentScope -------------------------------
(***************************************************************************)
(* The scope of an agent (agents/*/agent.py, base.py, runner.py): the      *)
(* patterns of its contract, the files a pattern reads (Path.glob) and the *)
(* files it lets the agent write (fnmatch).                                *)
(*                                                                         *)
(* A path is a string to this code, here its segments, the last without    *)
(* its extensions, and the extensions: what the dots of its name separate. *)
(* A pattern is written the same way, with "*" and "**" for segments and   *)
(* "*" for extensions.  Nothing here normalises a path: "." and ".." are   *)
(* segments like others.                                                   *)
(***************************************************************************)
EXTENDS Naturals, Sequences

Pat(segments, exts) == [segs |-> segments, exts |-> exts]

NameOf(path) == path.segs[Len(path.segs)]

Py(dir)   == Pat(<<dir, "**", "*">>, <<"py">>)
All(dir)  == Pat(<<dir, "**">>, <<"*">>)
Docs(dir) == Pat(<<"docs", dir, "**", "*">>, <<"md">>)

\* allowed_files of each agent's contract, in the order of the source.
Architect ==
    <<Pat(<<"system", "core", "planning", "**", "*">>, <<"py">>),
      Pat(<<"system", "core", "specification", "**", "*">>, <<"py">>),
      Docs("architecture"), Docs("adr"),
      Pat(<<"infra", "**", "*">>, <<"tf">>), Pat(<<"infra", "**", "*">>, <<"yaml">>),
      Pat(<<"infra", "**", "*">>, <<"yml">>), Pat(<<"infra", "helm", "**", "*">>, <<"yaml">>)>>

Backend ==
    <<Py("system"), Py("tests"), Py("alembic"), Pat(<<"alembic", "versions", "**", "*">>, <<"py">>),
      Pat(<<"alembic", "env">>, <<"py">>), Pat(<<"alembic", "script">>, <<"py", "mako">>),
      Pat(<<"pyproject">>, <<"toml">>), Pat(<<"alembic">>, <<"ini">>)>>

Frontend ==
    <<Pat(<<"frontend", "src", "**", "*">>, <<"tsx">>),
      Pat(<<"frontend", "src", "**", "*">>, <<"ts">>),
      Pat(<<"frontend", "public", "**">>, <<"*">>), Pat(<<"frontend", "*">>, <<"config", "ts">>),
      Pat(<<"frontend", "*">>, <<"config", "js">>), Pat(<<"frontend", "*">>, <<"config", "mjs">>),
      Pat(<<"frontend", "package">>, <<"json">>), Pat(<<"frontend", "tsconfig">>, <<"json">>),
      Pat(<<"frontend", ".eslintrc">>, <<"json">>), Pat(<<"frontend", ".eslintrc">>, <<"js">>)>>

Infra ==
    <<All("infra"), Pat(<<"docker-compose">>, <<"yml">>), Pat(<<"docker-compose">>, <<"*", "yml">>),
      Pat(<<".github", "workflows", "**">>, <<"*">>), Pat(<<"Makefile">>, <<>>),
      Pat(<<"Dockerfile">>, <<>>), Pat(<<"Dockerfile">>, <<"*">>), Pat(<<".dockerignore">>, <<>>),
      All("helm")>>

Qa ==
    <<Py("tests"), Pat(<<"tests", "conftest">>, <<"py">>),
      Pat(<<"tests", "unit", "**", "*">>, <<"py">>),
      Pat(<<"tests", "integration", "**", "*">>, <<"py">>),
      Pat(<<"tests", "e2e", "**", "*">>, <<"py">>),
      Pat(<<"pytest">>, <<"ini">>), Pat(<<"pyproject">>, <<"toml">>), Py("system")>>

Security ==
    <<Py("system"), All("infra"), Pat(<<".github", "workflows", "**">>, <<"*">>),
      Pat(<<"frontend", "src", "**", "*">>, <<"ts">>),
      Pat(<<"frontend", "src", "**", "*">>, <<"tsx">>),
      Docs("security"), Docs("adr")>>

DocsAgent ==
    <<Pat(<<"docs", "**", "*">>, <<"md">>), Docs("architecture"), Docs("api"), Docs("runbooks"),
      Docs("adr"), Docs("security"), Pat(<<"README">>, <<"md">>), Pat(<<"CONTRIBUTING">>, <<"md">>),
      Pat(<<"CHANGELOG">>, <<"md">>), Py("system")>>

\* A refactoring is given target files and adds the test modules named after them,
\* ".py" taken from the name and put back.
Refactor(targets) ==
    IF targets = <<>> THEN <<Py("system"), Py("tests")>>
    ELSE targets \o [i \in DOMAIN targets |->
            Pat(<<"tests", "**", "test_" \o NameOf(targets[i])>>,
                SelectSeq(targets[i].exts, LAMBDA e : e # "py") \o <<"py">>)]

Agents == {"architect", "backend", "frontend", "infra", "qa", "security", "docs", "refactor"}

\* The registry's agents and their contracts.
Contract(agent, targets) ==
    CASE agent = "architect" -> Architect
      [] agent = "backend"   -> Backend
      [] agent = "frontend"  -> Frontend
      [] agent = "infra"     -> Infra
      [] agent = "qa"        -> Qa
      [] agent = "security"  -> Security
      [] agent = "docs"      -> DocsAgent
      [] agent = "refactor"  -> Refactor(targets)

-----------------------------------------------------------------------------

\* A star stands for one or more extensions, and the star of a name for those that its
\* pattern has no place for; "**" is any name.
ExtMatches(pattern, path) ==
    LET extra == Len(path.exts) - Len(pattern.exts) IN
    \/ NameOf(pattern) = "**"
    \/ /\ \/ extra = 0
          \/ extra > 0 /\ NameOf(pattern) = "*"
          \/ extra > 0 /\ pattern.exts # <<>> /\ pattern.exts[1] = "*"
       /\ \A i \in DOMAIN pattern.exts : pattern.exts[i] \in {"*", path.exts[extra + i]}

\* The ways to cut a path into the pieces that the segments of a pattern match.
Cuts(pattern, path) ==
    LET n == Len(path.segs)
        m == Len(pattern.segs)
    IN  {cut \in [0..m -> 0..n] :
            cut[0] = 0 /\ cut[m] = n /\ \A i \in 1..m : cut[i - 1] <= cut[i]}

IsSegment(segment, path, cut, i) ==
    cut[i] = cut[i - 1] + 1 /\ segment \in {"*", path.segs[cut[i]]}

\* fnmatch: a star crosses slashes, so that "**/" is one directory or more.  The
\* regular expression that is tried after it matches nothing more.
Fnmatch(pattern, path) ==
    /\ ExtMatches(pattern, path)
    /\ \E cut \in Cuts(pattern, path) : \A i \in DOMAIN pattern.segs :
          \/ pattern.segs[i] \in {"*", "**"} /\ cut[i - 1] < cut[i]
          \/ IsSegment(pattern.segs[i], path, cut, i)

\* Path.glob: "**/" is any number of directories, none included, a star one
\* segment; "**" at the end matches directories, which are not read.
Glob(pattern, path) ==
    /\ ExtMatches(pattern, path)
    /\ NameOf(pattern) # "**"
    /\ \E cut \in Cuts(pattern, path) : \A i \in DOMAIN pattern.segs :
          pattern.segs[i] = "**" \/ IsSegment(pattern.segs[i], path, cut, i)

\* _READABLE_EXTENSIONS, of the last extension of a name.
Readable(path) ==
    path.exts # <<>> /\ path.exts[Len(path.exts)] \in
        {"py", "ts", "tsx", "yaml", "yml", "json", "md", "toml", "tf", "sh", "sql"}

\* _validate_file_access: the string is matched as it is.
MayWrite(contract, path) == \E i \in DOMAIN contract : Fnmatch(contract[i], path)

\* The patterns that read the path.
ReadBy(contract, path) ==
    {i \in DOMAIN contract : Readable(path) /\ Glob(contract[i], path)}
===============================================================================
