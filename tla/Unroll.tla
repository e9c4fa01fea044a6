------------------------------- MODULE Unroll -------------------------------
(***************************************************************************)
(* unroll_workflow: the denoise node of a workflow becomes a sequence of   *)
(* calls, of the scheduler, of the ControlNet and of the diffusion model,  *)
(* one round per iteration. One action per call the function makes.        *)
(*                                                                         *)
(* A workflow has at most one denoise node with at most one adapter, as    *)
(* every registered one has (prepare_model_kwargs ignores the others).     *)
(***************************************************************************)
EXTENDS Pipelines

CONSTANT
    Requests  \* the requests: [workflow, inputs, steps, strength, guided], the
              \* names of the inputs given, num_inference_steps, the strength
              \* in tenths, whether the guidance scale exceeds 1.0

ASSUME RequestsAssumption ==
    \A r \in Requests :
        /\ Len(r.workflow.nodes) \in Nat /\ r.steps \in Nat /\ r.strength \in Nat
        /\ r.guided \in BOOLEAN
        /\ Len(r.workflow.denoise) <= 1
        /\ \A d \in 1..Len(r.workflow.denoise) : Len(r.workflow.denoise[d].adapters) <= 1

\* The shape the examples give a workflow: calls of operators that are no
\* schedulers, on inputs, on earlier calls and on the denoised latents; and a
\* denoise node on calls of its workflow, with an embedding for each prompt that
\* its guidance calls for.
ASSUME ShapeAssumption ==
    \A r \in Requests :
        LET w == r.workflow
            Before(k, v) == v.src \in 0..(k - 1) /\ v.out \notin LazyPorts
            Known(v) == Before(Len(w.nodes) + 1, v)
        IN  /\ w.nodes \in Seq({ w.nodes[k] : k \in 1..Len(w.nodes) })
            /\ \A k \in 1..Len(w.nodes) :
                 /\ DOMAIN w.nodes[k] = {"op", "mode", "patches", "args"}
                 /\ w.nodes[k].op \notin SchedulerOps
                 /\ w.nodes[k].mode # "step_classifier_free_guidance"
                 /\ \A a \in DOMAIN w.nodes[k].args :
                      w.nodes[k].args[a] = Denoised \/ Before(k, w.nodes[k].args[a])
            /\ w.denoise \in Seq({ w.denoise[d] : d \in 1..Len(w.denoise) })
            /\ \A d \in 1..Len(w.denoise) :
                 LET n == w.denoise[d]
                 IN  /\ n.scheduler \in SchedulerOps /\ n.model \notin SchedulerOps
                     /\ \A v \in {n.latents, n.steps, n.guidance, n.strength} : Known(v)
                     /\ \A a \in BaseInputs : Known(n.base[a])
                     /\ n.latents.src > 0 /\ n.base["prompt_embeds"] # Absent
                     /\ n.guidance # Absent => n.base["negative_prompt_embeds"] # Absent
                     /\ n.adapters \in Seq({ n.adapters[j] : j \in 1..Len(n.adapters) })
                     /\ \A j \in 1..Len(n.adapters) :
                          /\ n.adapters[j].op \notin SchedulerOps
                          /\ Known(n.adapters[j].cond) /\ n.adapters[j].cond.src > 0
                          /\ Known(n.adapters[j].scale) /\ n.adapters[j].scale.src = 0

VARIABLES
    request,     \* the request that is unrolled
    pc,          \* the next call of unroll_workflow
    branch,      \* whose prompt the model is about to be called for
    nodes,       \* unrolled_workflow.workflow_nodes
    inputs,      \* the inputs of the request, with the indices added to them
    i,           \* the iteration
    iterations,  \* num_inference_steps
    latents, original,    \* latents, original_latents_for_scheduler_step
    timesteps, timestep,  \* outputs of the scheduler and of IndexedTensor
    guidance,    \* guidance_tensor
    samples,     \* adapter_block_samples
    noise        \* the noise predicted for each branch

unrollVars == <<request, pc, branch, nodes, inputs, i, iterations, latents, original,
                timesteps, timestep, guidance, samples, noise>>

denoise == request.workflow.denoise[1]
base == denoise.base
isXL == denoise.model = "StableDiffusionXL"
isFlux == denoise.model \in {"Flux1Dev", "Flux1Schnell"}
nirvana == request.workflow.nirvana

\* guidance_scale > 1.0; without a guidance scale it is 1.0.
guided == denoise.guidance # Absent /\ request.guided

\* Operator.__call__: the node is added to the workflow and its outputs returned.
Emit(call) == nodes' = Append(nodes, call)
Made(out) == Output(Len(nodes) + 1, out)

Scheduler(mode, args) == Call(denoise.scheduler, mode, << >>, args)

NoSamples == << >>
Branches == {"uncond", "text", "plain"}
NoNoise == [ b \in Branches |-> Absent ]

UnrollInit ==
    /\ request \in Requests
    /\ pc = "start" /\ branch = "plain"
    /\ nodes = request.workflow.nodes
    /\ inputs = { Input(n) : n \in request.inputs }
    /\ i = 0 /\ iterations = 0
    /\ latents = Absent /\ original = Absent
    /\ timesteps = Absent /\ timestep = Absent /\ guidance = Absent
    /\ samples = NoSamples /\ noise = NoNoise

\* The loop over the denoise nodes; its assertion, the KeyErrors for a guidance
\* scale and a strength that the client did not send, and the error for a
\* workflow named after nirvana whose model is not StableDiffusionXL.
Begin ==
    /\ pc = "start" /\ request.workflow.denoise # << >>
    /\ LET fails ==
             \/ denoise.steps \notin inputs
             \/ denoise.guidance # Absent /\ denoise.guidance \notin inputs
             \/ nirvana /\ (~isXL \/ denoise.strength \notin inputs)
       IN  pc' = IF fails THEN "raised" ELSE "init"
    /\ latents' = denoise.latents
    /\ UNCHANGED <<request, branch, nodes, inputs, i, iterations, original, timesteps,
                   timestep, guidance, samples, noise>>

InitScheduler ==
    /\ pc = "init" /\ ~nirvana
    /\ Emit(Scheduler("init", [num_inference_steps |-> denoise.steps,
                               latents |-> latents]))
    /\ timesteps' = Made("timesteps")
    /\ iterations' = request.steps
    /\ pc' = IF isXL THEN "noise" ELSE "guidance"
    /\ UNCHANGED <<request, branch, inputs, i, latents, original, timestep, guidance,
                   samples, noise>>

\* The iterations that are left of the schedule when it starts at a strength.
Remaining(steps, strength) ==
    LET whole == (steps * strength) \div 10
        initTimestep == IF whole < steps THEN whole ELSE steps
        skipped == steps - initTimestep
    IN  steps - (IF skipped > 0 THEN skipped ELSE 0)

InitImageToImage ==
    /\ pc = "init" /\ nirvana
    /\ Emit(Scheduler("img2img_get_timesteps",
                      [num_inference_steps |-> denoise.steps,
                       strength |-> denoise.strength, latents |-> latents]))
    /\ timesteps' = Made("timesteps") /\ latents' = Made("latents")
    /\ iterations' = Remaining(request.steps, request.strength)
    /\ pc' = "guidance"
    /\ UNCHANGED <<request, branch, inputs, i, original, timestep, guidance, samples, noise>>

InitNoiseSigma_Unordered ==
    /\ pc = "noise"
    /\ Emit(Scheduler("init_noise_sigma", [latents |-> latents]))
    /\ latents' = Made("latents")
    /\ pc' = "guidance"
    /\ UNCHANGED <<request, branch, inputs, i, iterations, original, timesteps, timestep,
                   guidance, samples, noise>>

\* The timesteps are passed for the sake of the order of the two calls.
InitNoiseSigma ==
    /\ pc = "noise"
    /\ Emit(Scheduler("init_noise_sigma", [latents |-> latents, timesteps |-> timesteps]))
    /\ latents' = Made("latents")
    /\ pc' = "guidance"
    /\ UNCHANGED <<request, branch, inputs, i, iterations, original, timesteps, timestep,
                   guidance, samples, noise>>

MakeGuidance ==
    /\ pc = "guidance"
    /\ IF base.guidance_scale = Absent
       THEN UNCHANGED <<nodes, guidance>>
       ELSE /\ Emit(Call("GuidanceTensor", "default", << >>,
                         [guidance_scale |-> base.guidance_scale]))
            /\ guidance' = Made("guidance_tensor")
    /\ pc' = "iterate"
    /\ UNCHANGED <<request, branch, inputs, i, iterations, latents, original, timesteps,
                   timestep, samples, noise>>

\* The head of the loop over the iterations.
TakeTimestep ==
    /\ pc = "iterate" /\ i < iterations
    /\ Emit(Call("IndexedTensor", "default", << >>,
                 [tensor |-> timesteps, index |-> IterationIndex(i)]))
    /\ timestep' = Made("indexed_tensor")
    /\ inputs' = inputs \cup {IterationIndex(i)}
    /\ original' = latents
    /\ branch' = IF guided THEN "uncond" ELSE "plain"
    /\ pc' = IF isXL THEN "scale" ELSE "adapters"
    /\ UNCHANGED <<request, i, iterations, latents, timesteps, guidance, samples, noise>>

ScaleModelInput ==
    /\ pc = "scale"
    /\ Emit(Scheduler("scale_model_input", [latents |-> latents, timestep |-> timestep]))
    /\ latents' = Made("latents")
    /\ pc' = "adapters"
    /\ UNCHANGED <<request, branch, inputs, i, iterations, original, timesteps, timestep,
                   guidance, samples, noise>>

---------------------------------------------------------------------------
(* The calls for one prompt.                                               *)

Embeddings_Positive(b) ==
    [prompt_embeds |-> base.prompt_embeds,
     pooled_prompt_embeds |-> base.pooled_prompt_embeds]
Embeddings(b) ==
    IF b = "uncond"
    THEN [prompt_embeds |-> base.negative_prompt_embeds,
          pooled_prompt_embeds |-> base.negative_pooled_prompt_embeds]
    ELSE [prompt_embeds |-> base.prompt_embeds,
          pooled_prompt_embeds |-> base.pooled_prompt_embeds]

\* What SDXL and Flux take beside the latents, the timestep and the embeddings.
SizeArgs == IF isXL \/ isFlux THEN [height |-> base.height, width |-> base.width] ELSE << >>
GuidanceArg_None == << >>
GuidanceArg == IF isFlux THEN [guidance |-> guidance] ELSE << >>

\* The keyword arguments args and more.
Joined(args, more) ==
    [ a \in DOMAIN args \cup DOMAIN more |-> IF a \in DOMAIN args THEN args[a] ELSE more[a] ]

CommonArgs ==
    Joined(Joined([latents |-> latents, timestep |-> timestep], Embeddings(branch)),
           Joined(SizeArgs, GuidanceArg))

\* The names under which run_adapters hands the outputs of a ControlNet on.
SampleNames ==
    IF denoise.model \in {"StableDiffusionXL", "StableDiffusion15"}
    THEN <<"down_block_res_sample", "mid_block_res_sample">>
    ELSE <<"control_block_sample">>

SamplesOf(op) ==
    LET position(name) == CHOOSE j \in 1..Len(SampleNames) : SampleNames[j] = name
    IN  [ name \in { SampleNames[j] : j \in 1..Len(SampleNames) } |->
            Made(Outputs(op, "default")[position(name)]) ]

RunAdapters_Once ==
    /\ pc = "adapters"
    /\ IF denoise.adapters = << >> \/ samples # NoSamples
       THEN UNCHANGED <<samples, nodes>>
       ELSE LET adapter == denoise.adapters[1]
            IN  /\ Emit(Call(adapter.op, "default", << >>,
                             Joined(CommonArgs,
                                    [controlnet_cond |-> adapter.cond,
                                     conditioning_scale |-> adapter.scale])))
                /\ samples' = SamplesOf(adapter.op)
    /\ pc' = "model"
    /\ UNCHANGED <<request, branch, inputs, i, iterations, latents, original, timesteps,
                   timestep, guidance, noise>>

RunAdapters ==
    /\ pc = "adapters"
    /\ IF denoise.adapters = << >>
       THEN samples' = NoSamples /\ UNCHANGED nodes
       ELSE LET adapter == denoise.adapters[1]
            IN  /\ Emit(Call(adapter.op, "default", << >>,
                             Joined(CommonArgs,
                                    [controlnet_cond |-> adapter.cond,
                                     conditioning_scale |-> adapter.scale])))
                /\ samples' = SamplesOf(adapter.op)
    /\ pc' = "model"
    /\ UNCHANGED <<request, branch, inputs, i, iterations, latents, original, timesteps,
                   timestep, guidance, noise>>

RunModel ==
    /\ pc = "model"
    /\ Emit(Call(denoise.model, "default", denoise.patches, Joined(CommonArgs, samples)))
    /\ noise' = [noise EXCEPT ![branch] = Made("noise_pred")]
    /\ IF branch = "uncond"
       THEN branch' = "text" /\ pc' = "adapters"
       ELSE pc' = "step" /\ UNCHANGED branch
    /\ UNCHANGED <<request, inputs, i, iterations, latents, original, timesteps, timestep,
                   guidance, samples>>

---------------------------------------------------------------------------
(* The step of the scheduler and the end of the iteration.                 *)

EndOfIteration_KeepsLatents ==
    /\ latents' = latents
    /\ i' = i + 1
    /\ pc' = IF i = iterations - 1 THEN "rewire" ELSE "iterate"
    /\ UNCHANGED <<request, branch, inputs, iterations, original, timesteps, timestep,
                   guidance, samples, noise>>
EndOfIteration ==
    /\ latents' = Made("output_latents")
    /\ i' = i + 1
    /\ pc' = IF i = iterations - 1 THEN "rewire" ELSE "iterate"
    /\ UNCHANGED <<request, branch, inputs, iterations, original, timesteps, timestep,
                   guidance, samples, noise>>

GuidedStep ==
    /\ pc = "step" /\ guided
    /\ Emit(Scheduler("step_classifier_free_guidance",
                      [latents |-> latents, timestep |-> timestep,
                       noise_pred_uncond |-> noise["uncond"],
                       noise_pred_text |-> noise["text"],
                       guidance_scale |-> denoise.guidance]))
    /\ EndOfIteration

PlainStep ==
    /\ pc = "step" /\ ~guided
    /\ Emit(Scheduler("step", [latents |-> original, timestep |-> timestep,
                               noise_pred |-> noise["plain"]]))
    /\ EndOfIteration

SetInputs_None(node) == node

\* In the last iteration: set_input of every node that names the denoised latents.
SetInputs(node) ==
    [node EXCEPT !.args = [ a \in DOMAIN @ |-> IF @[a] = Denoised THEN latents ELSE @[a] ]]

Rewire ==
    /\ pc = "rewire"
    /\ nodes' = [ k \in 1..Len(nodes) |-> SetInputs(nodes[k]) ]
    /\ pc' = "iterate"
    /\ UNCHANGED <<request, branch, inputs, i, iterations, latents, original, timesteps,
                   timestep, guidance, samples, noise>>

\* The denoise nodes are cleared and the workflow returned.
Return ==
    /\ \/ pc = "start" /\ request.workflow.denoise = << >>
       \/ pc = "iterate" /\ i = iterations
    /\ pc' = "done"
    /\ UNCHANGED <<request, branch, nodes, inputs, i, iterations, latents, original,
                   timesteps, timestep, guidance, samples, noise>>

UnrollNext ==
    \/ Begin \/ InitScheduler \/ InitImageToImage \/ InitNoiseSigma \/ MakeGuidance
    \/ TakeTimestep \/ ScaleModelInput \/ RunAdapters \/ RunModel
    \/ GuidedStep \/ PlainStep \/ Rewire \/ Return
=============================================================================
