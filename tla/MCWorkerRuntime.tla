-------------------------- MODULE MCWorkerRuntime ---------------------------
\* Instances of WorkerRuntime.
EXTENDS WorkerRuntime

CONSTANTS latents, residuals

Keys == {latents, residuals}

CallOf(op, k) == [op |-> op, key |-> k]
TaskOf(s) == [type |-> "task", calls |-> s]
Announce(k) == [type |-> "lazy_arrival", key |-> k]
StopMessage == [type |-> "stop"]

\* Fetch an input, wait for a lazy one, store the output.
Lazy == TaskOf(<<CallOf("fetch", latents), CallOf("lazy", residuals), CallOf("create", latents)>>)

\* Free what the first stored and fetched, and fetch the same input again.
Again == TaskOf(<<CallOf("free", latents), CallOf("free", residuals),
                  CallOf("fetch", latents), CallOf("create", residuals)>>)

\* The lazy input is announced before, between or after the tasks.
Serving == {<<Announce(residuals), Lazy, Again>>, <<Lazy, Announce(residuals), Again>>,
            <<Lazy, Again, Announce(residuals)>>}

\* A stop behind an announcement and a task that only waits and creates.
Stopping == {<<Announce(residuals), Announce(latents),
               TaskOf(<<CallOf("lazy", residuals), CallOf("create", latents)>>), StopMessage>>}

Engine == Serving \cup Stopping

\* An output needs the room of a tensor the same task group has freed.
Full == {<<TaskOf(<<CallOf("create", latents)>>),
           TaskOf(<<CallOf("free", latents), CallOf("create", latents)>>)>>}
=============================================================================
