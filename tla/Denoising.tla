----------------------------- MODULE Denoising -----------------------------
(***************************************************************************)
(* An unrolled workflow and its execution: the calls run in any order that *)
(* the data allows, as the workers of a deployment may run them, and those *)
(* of the scheduler share one stateful scheduler object (the worker keeps  *)
(* a copy of it per request, which WorkerRuntime and Serving are about).   *)
(***************************************************************************)
EXTENDS Unroll, FiniteSets

VARIABLES
    computed,  \* the calls that have run
    sched      \* the scheduler object: whether its timesteps are set, the index
               \* of its next step and the index to begin with (or NoIndex)

NoIndex == -1

vars == <<unrollVars, computed, sched>>

Init ==
    /\ UnrollInit
    /\ computed = {}
    /\ sched = [set |-> FALSE, index |-> NoIndex, begin |-> NoIndex]

Unrolling == UnrollNext /\ UNCHANGED <<computed, sched>>

---------------------------------------------------------------------------
ArgsOf(k) == DOMAIN nodes[k].args
Arg(k, a) == nodes[k].args[a]
IsLazy(v) == v.out \in LazyPorts

Sources(k) == { Arg(k, a).src : a \in ArgsOf(k) } \ {0}
EagerSources(k) == { Arg(k, a).src : a \in { b \in ArgsOf(k) : ~IsLazy(Arg(k, b)) } } \ {0}

\* The iteration a call is part of, by the index of its timestep.
HasTimestep(k) == "timestep" \in ArgsOf(k)
IterationOf(k) == Arg(Arg(k, "timestep").src, "index").no

IsScheduler(k) == nodes[k].op \in SchedulerOps
IsStep(k) == nodes[k].mode \in {"step", "step_classifier_free_guidance"}
SetsTimesteps(k) == nodes[k].mode \in {"init", "img2img_get_timesteps"}

\* The position of an iteration in the schedule of which the timesteps of an
\* image-to-image workflow are the end.
Skipped == request.steps - iterations
Position(k) == Skipped + IterationOf(k)

\* The step index a call of the scheduler works with: it is set by the first one
\* that needs it, and every step increments it.
Effective(k) ==
    CASE sched.index # NoIndex -> sched.index
      [] sched.index = NoIndex /\ sched.begin # NoIndex -> sched.begin
      [] OTHER -> Position(k)

\* The state of the scheduler object after call k.
SchedulerAfter(k) ==
    CASE nodes[k].mode = "init" -> [set |-> TRUE, index |-> NoIndex, begin |-> NoIndex]
      [] nodes[k].mode = "img2img_get_timesteps" ->
           [set |-> TRUE, index |-> NoIndex, begin |-> Skipped]
      [] nodes[k].mode = "scale_model_input" -> [sched EXCEPT !.index = Effective(k)]
      [] IsStep(k) -> [sched EXCEPT !.index = Effective(k) + 1]
      [] OTHER -> sched

Computable(k) == pc = "done" /\ k \notin computed /\ Sources(k) \subseteq computed

Compute(k) ==
    /\ Computable(k)
    /\ computed' = computed \cup {k}
    /\ sched' = IF IsScheduler(k) THEN SchedulerAfter(k) ELSE sched
    /\ UNCHANGED unrollVars

Next == Unrolling \/ \E k \in 1..Len(nodes) : Compute(k)

\* Unrolling is a function that runs to its end, and a worker takes up every
\* call whose arguments are there.
Fairness == WF_vars(Next)

Spec == Init /\ [][Next]_vars /\ Fairness

---------------------------------------------------------------------------

\* Every call is given what its execute cannot run without, by the workflow or by
\* the client of the request, and a model is given residuals for its own blocks
\* or for none: the argument lists of the examples, of the unrolling and of the
\* operators are written in different files and nothing compares them.
CallsGetTheirArguments ==
    pc = "done" =>
        \A k \in 1..Len(nodes) :
            /\ Needs(nodes[k].op, nodes[k].mode) \subseteq ArgsOf(k)
            /\ \A a \in ArgsOf(k) :
                 LET v == Arg(k, a) IN
                 /\ v.src = 0 => v \in inputs
                 /\ v.src > 0 => \E j \in 1..Len(Outputs(nodes[v.src].op, nodes[v.src].mode)) :
                                     Outputs(nodes[v.src].op, nodes[v.src].mode)[j] = v.out
                 /\ IsLazy(v) => v.out = a /\ Blocks(nodes[k].op) = Blocks(nodes[v.src].op)

\* The residuals a model takes are of a ControlNet call for the same prompt, the
\* same latents and the same timestep (run_adapters and prepare_model_kwargs are
\* called separately for each branch of the guidance).
SamplesMatchTheirCall ==
    pc = "done" =>
        \A k \in 1..Len(nodes) : \A a \in ArgsOf(k) :
            IsLazy(Arg(k, a)) =>
                \A b \in {"latents", "timestep", "prompt_embeds", "pooled_prompt_embeds"} :
                    b \in ArgsOf(k) =>
                        b \in ArgsOf(Arg(k, a).src) /\ Arg(Arg(k, a).src, b) = Arg(k, b)

\* A step with guidance combines two predictions for the same latents and the
\* same timestep, of the negative and of the positive prompt, and takes the
\* timestep they were made for.
GuidedStepCombinesItsBranches ==
    pc = "done" =>
        \A k \in 1..Len(nodes) :
            nodes[k].mode = "step_classifier_free_guidance" =>
                LET uncond == Arg(k, "noise_pred_uncond").src
                    text == Arg(k, "noise_pred_text").src
                IN  /\ uncond # text
                    /\ Arg(uncond, "latents") = Arg(text, "latents")
                    /\ { Arg(c, "timestep") : c \in {uncond, text} } = {Arg(k, "timestep")}
                    /\ Arg(uncond, "prompt_embeds") = base.negative_prompt_embeds
                    /\ Arg(text, "prompt_embeds") = base.prompt_embeds

\* From the second iteration on, a model call never becomes ready before the
\* ControlNet call whose lazy residuals it takes: only the first round can block
\* a worker on a ControlNet that is not schedulable yet (the hazard that the
\* coordinator's pairs of models and ControlNets meet in Serving).
OnlyFirstIterationOvertakes ==
    pc = "done" =>
        \A k \in 1..Len(nodes) : \A a \in ArgsOf(k) :
            (IsLazy(Arg(k, a)) /\ IterationOf(k) > 0 /\ EagerSources(k) \subseteq computed)
                => EagerSources(Arg(k, a).src) \subseteq computed

\* In every order of execution the scheduler has its timesteps before any other
\* call of it, and a call of iteration i works with the i-th step index. The
\* object counts the calls itself, and only the data dependencies of the unrolled
\* workflow order them.
CallsFindTheirStepIndex ==
    [][ \A k \in computed' \ computed :
          (IsScheduler(k) /\ ~SetsTimesteps(k)) =>
              /\ sched.set
              /\ HasTimestep(k) => Effective(k) = Position(k) ]_vars

\* Every call of an unrolled workflow is computed in the end, and with it the
\* output of the workflow.
RequestComputes ==
    (pc = "done" /\ (request.workflow.denoise # << >> => iterations > 0))
        ~> (computed = 1..Len(nodes))

\* "save original latents for scheduler step": a step takes the latents that were
\* not scaled for the model.
StepTakesUnscaledLatents ==
    pc = "done" =>
        \A k \in 1..Len(nodes) :
            IsStep(k) => nodes[Arg(k, "latents").src].mode # "scale_model_input"
=============================================================================
