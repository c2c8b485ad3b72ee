SPECIFICATION Spec
CONSTANT EPISODE_ATTEMPTS = 3
INVARIANT ResyncHasItsPoll
