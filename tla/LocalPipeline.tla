----------------------------- MODULE LocalPipeline -----------------------------
(***************************************************************************)
(* Running the pipelines on the developer's machine, beside CloudEnv.  The *)
(* pipelines take the path of their data from .env when they run, but the  *)
(* endpoint and credentials that Spark opens it with from a file rendered  *)
(* from .env earlier, and the SQL variant its path from a rendered spec.   *)
(*                                                                         *)
(* Spark is code outside the repository.  It resolves every query of a     *)
(* pipeline before it executes any, so a run that cannot read one of its   *)
(* paths changes nothing; such a run is left out.                          *)
(***************************************************************************)
EXTENDS CloudEnv

CONSTANT NotYet    \* a file that was not rendered, a table that was not read

VARIABLES
  conf,     \* spark-defaults.conf
  spec,     \* the scheme of the dimension's path in each rendered spec
  bronze    \* the service that bronze_recentchange was last read from

localVars == <<conf, spec, bronze>>
vars == <<cloudVars, localVars>>

PipelineSpec == {"main", "bronze-only"}

Init ==
  /\ CloudInit
  /\ conf = NotYet
  /\ spec = [s \in PipelineSpec |-> NotYet]
  /\ bronze = NotYet

-----------------------------------------------------------------------------
\* main of render_local_spark_config: the Spark configuration first, then the
\* two specs from one template.  It may be interrupted in between.
Render(written) ==
  /\ at = "idle"
  /\ IF written = PipelineSpec THEN UNCHANGED faults ELSE Fault
  /\ conf' = SparkConf(env)
  /\ spec' = [s \in PipelineSpec |-> IF s \in written THEN Scheme(env) ELSE spec[s]]
  /\ UNCHANGED <<env, cloud, at, got, history, bronze>>

\* The service a path of this scheme is read from, "none" if Spark cannot.
Reads(scheme) ==
  LET s == SparkReaches(conf, scheme)
  IN IF s \in Service /\ LetIn(s, conf.key) /\ s \in stored THEN s ELSE "none"

\* spark-pipelines run.  The Python files resolve their paths now; the SQL
\* variant of the dimension has the one in the spec.  The main spec needs the
\* bronze table to exist, which the bronze-only spec creates.
Run(s) ==
  /\ at = "idle"
  /\ conf # NotYet
  /\ Reads(Scheme(env)) # "none"
  /\ Reads(spec[s]) # "none"
  /\ s = "main" => bronze # NotYet
  /\ bronze' = Reads(Scheme(env))
  /\ UNCHANGED <<cloudVars, conf, spec>>

Next ==
  \/ CloudNext /\ UNCHANGED localVars
  \/ \E written \in {{}, {"main"}, PipelineSpec} : Render(written)
  \/ \E s \in PipelineSpec : Run(s)

Spec == Init /\ [][Next]_vars

-----------------------------------------------------------------------------
\* Every variable has its type.
TypeOK ==
  /\ CloudTypeOK
  /\ conf \in SparkConfType \cup {NotYet}
  /\ spec \in [PipelineSpec -> {"gs", "s3a", NotYet}]
  /\ bronze \in Service \cup {NotYet}

\* "Re-run this any time .env changes" (RUNBOOK.md, line 196): with a rendered
\* configuration that is up to date, a pipeline reads the service that a handler
\* started at that moment would write to, whatever combination of backend and
\* endpoint .env was left with.
ReadsWhatIsWritten ==
  [][\A s \in PipelineSpec : Run(s) /\ conf = SparkConf(env) => bronze' = ServiceOf(env)]_vars

\* One that is out of date is mostly noticed, as the run cannot read its paths.
\* It is not between MinIO and AWS, whose paths are the same.
OnlyTwinsAreConfused ==
  [][\A s \in PipelineSpec : Run(s) /\ bronze' # ServiceOf(env)
       => {bronze', ServiceOf(env)} = {"minio", "aws"}]_vars
=============================================================================
