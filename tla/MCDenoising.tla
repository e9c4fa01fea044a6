---------------------------- MODULE MCDenoising ----------------------------
EXTENDS Denoising, Clients

\* Every workflow with the requests of the clients that know its service.
RequestsOf(w, steps, strengths, guidances) ==
    { [workflow |-> w, inputs |-> InputsFor(c, w.name), steps |-> n, strength |-> s,
       guided |-> g] :
        c \in { d \in {"benchmark", "script"} : w.name \in Knows(d) },
        n \in steps, s \in strengths, g \in guidances }

\* The one service that neither client knows gets the inputs its workflow names.
Named(w) ==
    UNION { { w.nodes[k].args[a].out : a \in { b \in DOMAIN w.nodes[k].args :
                                                w.nodes[k].args[b].src = 0 } } :
              k \in 1..Len(w.nodes) }
    \cup {"num_inference_steps", "guidance_scale", "conditioning_scale"}
UnknownService(w, n) ==
    [workflow |-> w, inputs |-> Named(w), steps |-> n, strength |-> 0, guided |-> TRUE]

IsGuided(w) == w.denoise # << >> /\ w.denoise[1].guidance # Absent

\* A workflow of another family whose name says nirvana, which is refused.
Misnamed == [sd3_txt2img_workflow EXCEPT !.nirvana = TRUE]

\* A client that leaves one input out.
Without(r, name) == [r EXCEPT !.inputs = @ \ {name}]

\* One to three iterations; a guidance scale that switches the guidance of the
\* workflow off is only told apart for one model of each shape.
AllRequests ==
    UNION { RequestsOf(w, {1, 2, 3}, {0}, {IsGuided(w)}) : w \in Registered }
    \cup RequestsOf(flux_txt2img_cfg_workflow, {1}, {0}, {FALSE})
    \cup RequestsOf(sdxl_txt2img_controlnet_canny_cfg_workflow, {1}, {0}, {FALSE})
    \cup RequestsOf(sdxl_txt2img_nirvana_workflow, {2, 3}, {2, 5, 7, 10}, {FALSE})
    \cup RequestsOf(sd15_txt2img_workflow, {0}, {0}, {FALSE})
    \cup RequestsOf(Misnamed, {1}, {0}, {FALSE})
    \cup { Without(r, "guidance_scale") :
             r \in RequestsOf(sd3_txt2img_cfg_workflow, {1}, {0}, {TRUE}) }
    \cup { Without(r, "strength") :
             r \in RequestsOf(sdxl_txt2img_nirvana_workflow, {2}, {5}, {FALSE}) }
    \cup { UnknownService(sd3_txt2img_lora_controlnet_canny_cfg_workflow, n) : n \in {1, 2} }
GuidedXLRequests == RequestsOf(sdxl_txt2img_cfg_workflow, {1}, {0}, {TRUE})
=============================================================================
